---------------------------- MODULE ChannelProofs ----------------------------
(***************************************************************************)
(* Theorems about the control channel.  First NetLink, for rings and       *)
(* caches of any size, any set of hosts and any bounds; then GdbLink, the  *)
(* protocol that runs over it, for any set of commands, size of gdb_input  *)
(* and poll rate, and any number of damaged packets; last Dbgp, the driver *)
(* of the debug port, for any number of addresses, any limits on failures  *)
(* and retries, and any number of faults of the link.                      *)
(***************************************************************************)
EXTENDS NetLink, GdbLink, Dbgp, FiniteSetTheorems, SequenceTheorems, WellFoundedInduction, TLAPS

(***************************************************************************)
(* Arithmetic.                                                             *)
(***************************************************************************)

\* A non-empty set of naturals has a minimum.
LEMMA MinIsLeast ==
  ASSUME NEW S \in SUBSET Nat, S # {}
  PROVE  Min(S) \in S /\ \A y \in S : Min(S) <= y
<1> DEFINE R == OpToRel(<, Nat)
<1>1. IsWellFoundedOn(R, Nat)
  BY NatLessThanWellFounded
<1>2. \A x, y \in Nat : y < x => <<y, x>> \in R
  BY DEF OpToRel
<1> HIDE DEF R
<1>3. PICK x \in S : \A y \in S : ~(<<y, x>> \in R)
  BY <1>1, WFMin
<1>4. \A y \in S : ~(y < x)
  BY <1>2, <1>3, Zenon
<1>5. \A y \in S : x <= y
  BY <1>4
<1> QED
  BY <1>5 DEF Min

\* The successor on a ring.
LEMMA RingNext ==
  ASSUME NEW n \in Nat \ {0}, NEW i \in 0..n - 1
  PROVE  (i + 1) % n = IF i = n - 1 THEN 0 ELSE i + 1
OBVIOUS

\* The place k behind i on a ring.
LEMMA RingPlace ==
  ASSUME NEW n \in Nat \ {0}, NEW i \in 0..n - 1, NEW k \in 0..n - 1
  PROVE  (i + k) % n = IF i + k < n THEN i + k ELSE i + k - n
OBVIOUS

\* The distance from i to j on a ring.
LEMMA RingSpan ==
  ASSUME NEW n \in Nat \ {0}, NEW i \in 0..n - 1, NEW j \in 0..n - 1
  PROVE  (j - i) % n = IF i <= j THEN j - i ELSE j - i + n
OBVIOUS

\* One more place, or one less, between two of them.
LEMMA RingSpanGrows ==
  ASSUME NEW n \in Nat \ {0}, NEW i \in 0..n - 1, NEW j \in 0..n - 1, NEW j2,
         j2 = IF j = n - 1 THEN 0 ELSE j + 1
  PROVE  /\ (j - i) % n \in 0..n - 1
         /\ (j2 - i) % n = IF (j - i) % n = n - 1 THEN 0 ELSE ((j - i) % n) + 1
<1>1. j2 \in 0..n - 1
  OBVIOUS
<1>2. /\ (j - i) % n = IF i <= j THEN j - i ELSE j - i + n
      /\ (j2 - i) % n = IF i <= j2 THEN j2 - i ELSE j2 - i + n
  BY <1>1, RingSpan
<1> DEFINE s == (j - i) % n
           s2 == (j2 - i) % n
<1> HIDE DEF s, s2
<1>3. /\ s = IF i <= j THEN j - i ELSE j - i + n
      /\ s2 = IF i <= j2 THEN j2 - i ELSE j2 - i + n
  BY <1>2 DEF s, s2
<1>4. s \in 0..n - 1 /\ s2 = IF s = n - 1 THEN 0 ELSE s + 1
  BY <1>3
<1> QED
  BY <1>4 DEF s, s2

LEMMA RingSpanShrinks ==
  ASSUME NEW n \in Nat \ {0}, NEW i \in 0..n - 1, NEW j \in 0..n - 1, i # j, NEW i2,
         i2 = IF i = n - 1 THEN 0 ELSE i + 1
  PROVE  /\ (j - i) % n \in 1..n - 1
         /\ (j - i2) % n = ((j - i) % n) - 1
<1>1. i2 \in 0..n - 1
  OBVIOUS
<1>2. /\ (j - i) % n = IF i <= j THEN j - i ELSE j - i + n
      /\ (j - i2) % n = IF i2 <= j THEN j - i2 ELSE j - i2 + n
  BY <1>1, RingSpan
<1> DEFINE s == (j - i) % n
           s2 == (j - i2) % n
<1> HIDE DEF s, s2
<1>3. /\ s = IF i <= j THEN j - i ELSE j - i + n
      /\ s2 = IF i2 <= j THEN j - i2 ELSE j - i2 + n
  BY <1>2 DEF s, s2
<1>4. s \in 1..n - 1 /\ s2 = s - 1
  BY <1>3
<1> QED
  BY <1>4 DEF s, s2

\* Among the places behind i, the one that is j.
LEMMA RingPlaceIs ==
  ASSUME NEW n \in Nat \ {0}, NEW i \in 0..n - 1, NEW j \in 0..n - 1, NEW k \in 0..n - 1
  PROVE  /\ (i + k) % n \in 0..n - 1
         /\ (i + k) % n = j <=> k = (j - i) % n
<1>1. /\ (i + k) % n = IF i + k < n THEN i + k ELSE i + k - n
      /\ (j - i) % n = IF i <= j THEN j - i ELSE j - i + n
  BY RingPlace, RingSpan
<1> DEFINE p == (i + k) % n
           s == (j - i) % n
<1> HIDE DEF p, s
<1>2. /\ p = IF i + k < n THEN i + k ELSE i + k - n
      /\ s = IF i <= j THEN j - i ELSE j - i + n
  BY <1>1 DEF p, s
<1>3. p \in 0..n - 1 /\ (p = j <=> k = s)
  BY <1>2
<1> QED
  BY <1>3 DEF p, s

\* The places behind i are those behind its successor, one further.
LEMMA RingPlaceNext ==
  ASSUME NEW n \in Nat \ {0}, NEW i \in 0..n - 1, NEW k \in 1..n - 1,
         NEW i2 \in 0..n - 1, i2 = IF i = n - 1 THEN 0 ELSE i + 1
  PROVE  (i2 + (k - 1)) % n = (i + k) % n /\ (i + k) % n # i
<1>1. i2 \in 0..n - 1 /\ k \in 0..n - 1 /\ k - 1 \in 0..n - 1
  OBVIOUS
<1>2. /\ (i + k) % n = IF i + k < n THEN i + k ELSE i + k - n
      /\ (i2 + (k - 1)) % n = IF i2 + (k - 1) < n THEN i2 + (k - 1) ELSE i2 + (k - 1) - n
  BY <1>1, RingPlace
<1> DEFINE p == (i + k) % n
           p2 == (i2 + (k - 1)) % n
<1> HIDE DEF p, p2
<1>3. /\ p = IF i + k < n THEN i + k ELSE i + k - n
      /\ p2 = IF i2 + (k - 1) < n THEN i2 + (k - 1) ELSE i2 + (k - 1) - n
  BY <1>2 DEF p, p2
<1>4. p2 = p /\ p # i
  BY <1>3
<1> QED
  BY <1>4 DEF p, p2

(***************************************************************************)
(* The ARP cache.                                                          *)
(***************************************************************************)
ArpSlots == 0..ARP_CACHE_SZ - 1

LEMMA ArpTypes ==
  ASSUME TypeOK
  PROVE  /\ arp.cache \in [ArpSlots -> ArpEntries]
         /\ arp.tail \in ArpSlots
         /\ \A i \in ArpSlots : /\ arp.cache[i].ip \in Ips
                                /\ arp.cache[i].mac \in Macs \cup {NoMac}
<1>1. arp.cache \in [ArpSlots -> ArpEntries] /\ arp.tail \in ArpSlots
  BY DEF TypeOK, ArpTable, ArpSlots
<1> QED
  BY <1>1 DEF ArpEntries

\* The scan: how far it goes, and the entry it ends at.
LEMMA ScanStops ==
  ASSUME TypeOK, NEW ip
  PROVE  /\ ArpEnd = arp.tail \/ ArpEnd = ARP_CACHE_SZ
         /\ Holding(ip) \in SUBSET ArpSlots
         /\ Holding(ip) # {} =>
              /\ Min(Holding(ip)) \in Holding(ip)
              /\ \A i \in Holding(ip) : Min(Holding(ip)) <= i
<1>1. ArpEnd = arp.tail \/ ArpEnd = ARP_CACHE_SZ
  BY DEF ArpEnd
<1>2. Holding(ip) \in SUBSET ArpSlots
  BY <1>1, ArpTypes, NetAssumption DEF Holding, ArpSlots
<1>3. Holding(ip) \in SUBSET Nat
  BY <1>2, NetAssumption DEF ArpSlots
<1> QED
  BY <1>1, <1>2, <1>3, MinIsLeast

LEMMA LookupType ==
  ASSUME TypeOK, NEW ip
  PROVE  arp_cache_lookup(ip) \in Macs \cup {NoMac}
BY ScanStops, ArpTypes DEF arp_cache_lookup

\* What the scan finds first is not stale.
LEMMA LookupTrue ==
  ASSUME TypeOK, ArpInv
  PROVE  ArpTrue
<1> SUFFICES ASSUME NEW ip \in Ips \ {NoIp}, Holding(ip) # {}
             PROVE  arp.cache[Min(Holding(ip))].mac = truth[ip]
  BY DEF ArpTrue, arp_cache_lookup
<1> DEFINE i == Min(Holding(ip))
<1>1. i \in Holding(ip) /\ i \in ArpSlots /\ \A j \in Holding(ip) : i <= j
  BY ScanStops
<1>2. arp.cache[i].ip = ip /\ i < ArpEnd
  BY <1>1, ArpTypes, NetAssumption DEF Holding, ArpEnd, ArpSlots
<1> HIDE DEF i
<1>3. ASSUME arp.cache[i].mac # truth[ip] PROVE FALSE
  <2>0. i \in 0..ARP_CACHE_SZ - 1 /\ ip # NoIp
    BY <1>1 DEF ArpSlots
  <2>1. PICK k \in 0..arp.tail - 1 : arp.cache[k].ip = ip
    BY <1>2, <1>3, <2>0 DEF ArpInv
  <2>2. arp.tail <= i
    BY <1>2, <1>3, <2>0 DEF ArpInv
  <2>3. k \in Holding(ip)
    <3>1. ArpEnd \in Nat /\ arp.tail \in Nat
      BY ArpTypes, NetAssumption DEF ArpEnd, ArpSlots
    <3>2. k < ArpEnd
      BY <1>2, <2>0, <2>1, <2>2, <3>1
    <3> QED
      BY <2>1, <3>1, <3>2 DEF Holding
  <2> QED
    BY <1>1, <2>1, <2>2, <2>3, ArpTypes, NetAssumption DEF ArpSlots
<1> QED
  BY <1>3 DEF i

\* A new entry at the tail.
LEMMA ArpInsert ==
  ASSUME TypeOK, ArpInv, NEW ip \in Ips, NEW mac \in Macs, Holding(ip) = {},
         arp' = [arp EXCEPT !.cache[arp.tail] = [ip |-> ip, mac |-> mac],
                            !.tail = (@ + 1) % ARP_CACHE_SZ],
         truth' = [truth EXCEPT ![ip] = mac]
  PROVE  arp' \in ArpTable /\ ArpInv'
<1> DEFINE t == arp.tail
           new == [ip |-> ip, mac |-> mac]
<1>1. /\ t \in ArpSlots /\ arp.cache \in [ArpSlots -> ArpEntries]
      /\ new \in ArpEntries
      /\ arp \in [cache : [ArpSlots -> ArpEntries], tail : ArpSlots]
      /\ truth \in [Ips -> Macs \cup {NoMac}]
  BY ArpTypes DEF ArpEntries, TypeOK, ArpTable, ArpSlots
<1>2. /\ arp'.cache = [arp.cache EXCEPT ![t] = new]
      /\ arp'.tail = (t + 1) % ARP_CACHE_SZ
  BY <1>1
<1>3. arp'.tail = IF t = ARP_CACHE_SZ - 1 THEN 0 ELSE t + 1
  BY <1>1, <1>2, RingNext, NetAssumption DEF ArpSlots
<1>4. arp'.tail \in ArpSlots
  BY <1>1, <1>3, NetAssumption DEF ArpSlots
<1>5. arp' \in ArpTable
  <2>1. arp'.cache \in [ArpSlots -> ArpEntries]
    BY <1>1, <1>2
  <2>2. arp' = [cache |-> arp'.cache, tail |-> arp'.tail]
    BY <1>1
  <2> HIDE DEF t, new
  <2> QED
    BY <1>4, <2>1, <2>2 DEF ArpTable, ArpSlots
<1>6. /\ arp'.cache[t].ip = ip /\ arp'.cache[t].mac = mac
      /\ \A i \in ArpSlots \ {t} : arp'.cache[i] = arp.cache[i]
  BY <1>1, <1>2
<1>7. truth'[ip] = mac /\ \A x \in Ips \ {ip} : truth'[x] = truth[x]
  BY <1>1
<1>8. \A i \in ArpSlots : arp.cache[i].ip \in Ips
  BY ArpTypes

\* an entry of the same address, if any, is one the scan did not reach
<1>9. \A i \in ArpSlots \ {t} : arp.cache[i].ip = ip => t < i
  <2> SUFFICES ASSUME NEW i \in ArpSlots \ {t}, arp.cache[i].ip = ip
               PROVE  t < i
    OBVIOUS
  <2>1. ~(i \in 0..ArpEnd - 1)
    BY DEF Holding
  <2>2. ArpEnd = t \/ ArpEnd = ARP_CACHE_SZ
    BY DEF ArpEnd
  <2> HIDE DEF t
  <2> QED
    BY <1>1, <2>1, <2>2, NetAssumption DEF ArpSlots
<1> HIDE DEF t, new
<1>10. \A i, j \in ArpSlots :
         /\ arp.cache[i].ip = arp.cache[j].ip /\ arp.cache[i].ip # NoIp
         /\ i < t <=> j < t
         => i = j
  BY DEF ArpInv, ArpSlots, t
<1>11. \A i \in ArpSlots : arp.cache[i].ip # NoIp /\ arp.cache[i].mac # truth[arp.cache[i].ip]
         => t <= i /\ \E k \in 0..t - 1 : arp.cache[k].ip = arp.cache[i].ip
  BY DEF ArpInv, ArpSlots, t
<1>12. ASSUME NEW i \in ArpSlots, arp'.cache[i].ip # NoIp,
              arp'.cache[i].mac # truth'[arp'.cache[i].ip]
       PROVE  /\ arp'.tail <= i
              /\ \E k \in 0..arp'.tail - 1 : arp'.cache[k].ip = arp'.cache[i].ip
  <2>1. i # t /\ arp'.cache[i] = arp.cache[i]
    BY <1>6, <1>7, <1>12
  <2>2. CASE arp.cache[i].ip = ip
    <3>1. t < i
      BY <1>9, <2>1, <2>2
    <3>2. arp'.tail = t + 1
      BY <1>1, <1>3, <3>1, NetAssumption DEF ArpSlots
    <3>3. t \in 0..arp'.tail - 1
      BY <1>1, <3>2, NetAssumption DEF ArpSlots
    <3> QED
      BY <1>1, <1>6, <2>1, <2>2, <3>1, <3>2, <3>3, NetAssumption DEF ArpSlots
  <2>3. CASE arp.cache[i].ip # ip
    <3>1. arp.cache[i].mac # truth[arp.cache[i].ip]
      BY <1>7, <1>8, <1>12, <2>1, <2>3
    <3>2. t <= i
      BY <1>11, <1>12, <2>1, <3>1
    <3>3. PICK k \in 0..t - 1 : arp.cache[k].ip = arp.cache[i].ip
      BY <1>11, <1>12, <2>1, <3>1
    <3>4. arp'.tail = t + 1 /\ t < i
      BY <1>1, <1>3, <2>1, <3>2, NetAssumption DEF ArpSlots
    <3>5. k \in ArpSlots \ {t} /\ k \in 0..arp'.tail - 1
      BY <1>1, <3>3, <3>4, NetAssumption DEF ArpSlots
    <3>6. arp'.cache[k].ip = arp'.cache[i].ip
      BY <1>6, <2>1, <3>3, <3>5
    <3>7. arp'.tail <= i
      BY <1>1, <3>4, NetAssumption DEF ArpSlots
    <3> QED
      BY <3>5, <3>6, <3>7
  <2> QED
    BY <2>2, <2>3
<1>13. ASSUME NEW i \in ArpSlots, NEW j \in ArpSlots,
              arp'.cache[i].ip = arp'.cache[j].ip, arp'.cache[i].ip # NoIp,
              i < arp'.tail <=> j < arp'.tail, i < j
       PROVE  FALSE
  <2>1. i \in Nat /\ j \in Nat /\ t \in Nat /\ j < ARP_CACHE_SZ
    BY <1>1, NetAssumption DEF ArpSlots
  <2>2. CASE i = t
    <3>1. arp'.cache[j] = arp.cache[j] /\ arp.cache[j].ip = ip
      BY <1>6, <1>13, <2>1, <2>2
    <3>2. arp'.tail = t + 1
      BY <1>3, <1>13, <2>1, <2>2, NetAssumption
    <3>3. i < arp'.tail /\ ~(j < arp'.tail)
      BY <1>13, <2>1, <2>2, <3>2
    <3> QED
      BY <1>13, <3>3
  <2>3. CASE j = t
    <3>1. arp'.cache[i] = arp.cache[i] /\ arp.cache[i].ip = ip
      BY <1>6, <1>13, <2>1, <2>3
    <3> QED
      BY <1>9, <1>13, <2>1, <2>3, <3>1
  <2>4. CASE i # t /\ j # t
    <3>1. arp'.cache[i] = arp.cache[i] /\ arp'.cache[j] = arp.cache[j]
      BY <1>6, <2>4
    <3>2. ~(i < t <=> j < t)
      BY <1>10, <1>13, <2>1, <3>1
    <3>3. i < t /\ t < j
      BY <1>13, <2>1, <2>4, <3>2
    <3> QED
      BY <1>3, <1>13, <2>1, <3>3, NetAssumption
  <2> QED
    BY <2>2, <2>3, <2>4
<1>14. ArpInv'
  <2>1. \A i, j \in ArpSlots :
         /\ arp'.cache[i].ip = arp'.cache[j].ip /\ arp'.cache[i].ip # NoIp
         /\ i < arp'.tail <=> j < arp'.tail
         => i = j
    <3> SUFFICES ASSUME NEW i \in ArpSlots, NEW j \in ArpSlots,
                        arp'.cache[i].ip = arp'.cache[j].ip, arp'.cache[i].ip # NoIp,
                        i < arp'.tail <=> j < arp'.tail, i # j
                 PROVE  FALSE
      OBVIOUS
    <3>1. i < j \/ j < i
      BY NetAssumption DEF ArpSlots
    <3> QED
      BY <1>13, <3>1
  <2> QED
    BY <1>12, <2>1 DEF ArpInv, ArpSlots
<1> QED
  BY <1>5, <1>14

\* A new MAC in the entry the scan finds first.
LEMMA ArpRefresh ==
  ASSUME TypeOK, ArpInv, NEW ip \in Ips, NEW mac \in Macs, Holding(ip) # {},
         arp' = [arp EXCEPT !.cache[Min(Holding(ip))].mac = mac],
         truth' = [truth EXCEPT ![ip] = mac]
  PROVE  arp' \in ArpTable /\ ArpInv'
<1> DEFINE m == Min(Holding(ip))
           t == arp.tail
<1>1. m \in Holding(ip) /\ m \in ArpSlots /\ \A i \in Holding(ip) : m <= i
  BY ScanStops
<1>2. arp.cache[m].ip = ip
  BY <1>1 DEF Holding
<1>3. /\ t \in ArpSlots /\ arp.cache \in [ArpSlots -> ArpEntries]
      /\ arp \in [cache : [ArpSlots -> ArpEntries], tail : ArpSlots]
      /\ truth \in [Ips -> Macs \cup {NoMac}]
      /\ arp.cache[m] \in ArpEntries
  BY <1>1, ArpTypes DEF TypeOK, ArpTable, ArpSlots
<1>4. arp' = [arp EXCEPT !.cache[m].mac = mac]
  OBVIOUS
<1> HIDE DEF m, t
<1>5. /\ arp'.cache = [arp.cache EXCEPT ![m].mac = mac]
      /\ arp'.tail = t
  BY <1>3, <1>4 DEF t
<1>6. [arp.cache[m] EXCEPT !.mac = mac] \in ArpEntries
  BY <1>3 DEF ArpEntries
<1>7. arp' \in ArpTable
  <2>1. arp'.cache \in [ArpSlots -> ArpEntries]
    BY <1>1, <1>3, <1>5, <1>6
  <2>2. arp' = [cache |-> arp'.cache, tail |-> arp'.tail]
    BY <1>3, <1>4
  <2> QED
    BY <1>3, <1>5, <2>1, <2>2 DEF ArpTable, ArpSlots
<1>8. /\ arp'.cache[m].mac = mac
      /\ \A i \in ArpSlots : arp'.cache[i].ip = arp.cache[i].ip
      /\ \A i \in ArpSlots \ {m} : arp'.cache[i].mac = arp.cache[i].mac
  BY <1>1, <1>3, <1>5 DEF ArpEntries
<1>9. truth'[ip] = mac /\ \A x \in Ips \ {ip} : truth'[x] = truth[x]
  BY <1>3
<1>10. \A i, j \in ArpSlots :
         /\ arp.cache[i].ip = arp.cache[j].ip /\ arp.cache[i].ip # NoIp
         /\ i < t <=> j < t
         => i = j
  BY DEF ArpInv, ArpSlots, t
<1>11. \A i \in ArpSlots : arp.cache[i].ip # NoIp /\ arp.cache[i].mac # truth[arp.cache[i].ip]
         => t <= i /\ \E k \in 0..t - 1 : arp.cache[k].ip = arp.cache[i].ip
  BY DEF ArpInv, ArpSlots, t
<1>12. ASSUME NEW i \in ArpSlots, arp'.cache[i].ip # NoIp,
              arp'.cache[i].mac # truth'[arp'.cache[i].ip]
       PROVE  /\ arp'.tail <= i
              /\ \E k \in 0..arp'.tail - 1 : arp'.cache[k].ip = arp'.cache[i].ip
  <2>0. arp'.cache[i].ip = arp.cache[i].ip /\ arp.cache[i].ip \in Ips
    BY <1>8, ArpTypes
  <2>1. CASE arp.cache[i].ip = ip
    <3>1. i # m
      BY <1>8, <1>9, <1>12, <2>0, <2>1
    <3>2. ~(i < t <=> m < t)
      BY <1>1, <1>2, <1>10, <1>12, <2>0, <2>1, <3>1
    <3>3. ~(i < t)
      <4> SUFFICES ASSUME i < t PROVE FALSE
        OBVIOUS
      <4>1. ~(m < t)
        BY <3>2
      <4>2. ArpEnd \in Nat /\ m < ArpEnd /\ m \in Nat /\ i \in Nat
        <5>1. ArpEnd \in Nat
          BY ArpTypes, NetAssumption DEF ArpEnd, ArpSlots
        <5> QED
          BY <1>1, <5>1, NetAssumption DEF Holding, ArpSlots
      <4>3. i < m /\ i < ArpEnd
        BY <1>3, <4>1, <4>2, NetAssumption DEF ArpSlots
      <4>4. i \in Holding(ip)
        BY <2>1, <4>2, <4>3 DEF Holding
      <4> QED
        BY <1>1, <4>2, <4>3, <4>4
    <3>4. m < t
      BY <3>2, <3>3
    <3>5. t <= i /\ m \in 0..t - 1
      BY <1>1, <1>3, <3>3, <3>4, NetAssumption DEF ArpSlots
    <3>6. arp'.cache[m].ip = arp'.cache[i].ip
      BY <1>1, <1>2, <1>8, <2>1
    <3> QED
      BY <1>5, <3>5, <3>6
  <2>2. CASE arp.cache[i].ip # ip
    <3>1. arp.cache[i].mac # truth[arp.cache[i].ip]
      BY <1>2, <1>8, <1>9, <1>12, <2>0, <2>2
    <3>2. PICK k \in 0..t - 1 : arp.cache[k].ip = arp.cache[i].ip
      BY <1>11, <1>12, <2>0, <3>1
    <3>3. t <= i
      BY <1>11, <1>12, <2>0, <3>1
    <3>4. k \in ArpSlots
      BY <1>3, <3>2, NetAssumption DEF ArpSlots
    <3>5. arp'.cache[k].ip = arp'.cache[i].ip
      BY <1>8, <3>2, <3>4
    <3> QED
      BY <1>5, <3>2, <3>3, <3>5
  <2> QED
    BY <2>1, <2>2
<1>13. \A i, j \in ArpSlots :
         /\ arp'.cache[i].ip = arp'.cache[j].ip /\ arp'.cache[i].ip # NoIp
         /\ i < arp'.tail <=> j < arp'.tail
         => i = j
  BY <1>5, <1>8, <1>10
<1>14. ArpInv'
  BY <1>12, <1>13 DEF ArpInv, ArpSlots
<1> QED
  BY <1>7, <1>14

LEMMA ArpUpdate ==
  ASSUME TypeOK, ArpInv, NEW ip \in Ips, NEW mac \in Macs, arp_cache_update(ip, mac)
  PROVE  /\ arp' \in ArpTable /\ ArpInv'
         /\ truth' \in [Ips -> Macs \cup {NoMac}]
<1>1. truth' \in [Ips -> Macs \cup {NoMac}]
  BY DEF arp_cache_update, TypeOK
<1>2. CASE Holding(ip) = {}
  BY <1>1, <1>2, ArpInsert DEF arp_cache_update
<1>3. CASE Holding(ip) # {}
  BY <1>1, <1>3, ArpRefresh DEF arp_cache_update
<1> QED
  BY <1>2, <1>3

(***************************************************************************)
(* The transmit ring.                                                      *)
(***************************************************************************)
Counts == [in : 0..MaxFrames, made : 0..MaxSent, wire : 0..MaxSent]

LEMMA TxTypes ==
  ASSUME TypeOK
  PROVE  /\ tx \in [buf : [TxSlots -> TxDesc], dh : TxSlots, tail : TxSlots]
         /\ tx.buf \in [TxSlots -> TxDesc] /\ tx.dh \in TxSlots /\ tx.tail \in TxSlots
         /\ count \in Counts
         /\ count.in \in Nat /\ count.made \in Nat /\ count.wire \in Nat
         /\ count.made <= MaxSent /\ count.wire <= MaxSent
         /\ TX_DESC_NR \in Nat \ {0} /\ MaxSent \in Nat /\ MaxFrames \in Nat
<1>1. tx \in TxRing /\ count \in Counts
  BY DEF TypeOK, Counts
<1>2. /\ count.in \in 0..MaxFrames /\ count.made \in 0..MaxSent
      /\ count.wire \in 0..MaxSent
  BY <1>1 DEF Counts
<1> QED
  BY <1>1, <1>2, NetAssumption DEF TxRing

\* The ring with another frame in it.
LEMMA SendKeeps ==
  ASSUME TypeOK, RingInv, TxFifo, NEW pkt \in TxDesc, count.made < MaxSent,
         e1k_send_pkt(pkt)
  PROVE  /\ tx' \in TxRing /\ lapped' \in BOOLEAN /\ count' \in Counts
         /\ count'.in = count.in /\ count'.made = count.made + 1
         /\ RingInv' /\ TxFifo'
<1> DEFINE t == tx.tail
           h == tx.dh
           N == TX_DESC_NR
           new == [pkt EXCEPT !.id = count.made + 1]
<1>a. /\ tx.buf \in [TxSlots -> TxDesc] /\ h \in TxSlots /\ t \in TxSlots
      /\ N \in Nat \ {0} /\ count \in Counts
      /\ count.in \in Nat /\ count.made \in Nat /\ count.wire \in Nat
      /\ MaxSent \in Nat
  BY TxTypes
<1>1. /\ tx' = [tx EXCEPT !.buf[t] = new, !.tail = (t + 1) % N]
      /\ count' = [count EXCEPT !.made = count.made + 1]
      /\ lapped' = (lapped \/ count.made + 1 - count.wire >= N)
  BY DEF e1k_send_pkt, e1k_tx_get_pktbuf
<1>2. new \in TxDesc /\ new.id = count.made + 1
  <2>1. count.made + 1 \in 0..MaxSent
    BY <1>a
  <2> QED
    BY <2>1 DEF TxDesc
<1> HIDE DEF t, h, N, new
<1>3. /\ tx'.buf = [tx.buf EXCEPT ![t] = new]
      /\ tx'.dh = h /\ tx'.tail = (t + 1) % N
      /\ tx' = [buf |-> tx'.buf, dh |-> tx'.dh, tail |-> tx'.tail]
  BY <1>1, TxTypes DEF h
<1>4. tx'.tail = IF t = N - 1 THEN 0 ELSE t + 1
  BY <1>a, <1>3, RingNext DEF TxSlots, N
<1>5. tx' \in TxRing
  <2>1. tx'.buf \in [TxSlots -> TxDesc]
    BY <1>a, <1>2, <1>3
  <2>2. tx'.tail \in TxSlots
    BY <1>a, <1>4 DEF TxSlots, N
  <2> QED
    BY <1>a, <1>3, <2>1, <2>2 DEF TxRing
<1>6. /\ count' \in Counts
      /\ count'.in = count.in /\ count'.made = count.made + 1
      /\ count'.wire = count.wire
  BY <1>a, <1>1 DEF Counts
<1>7. lapped' \in BOOLEAN
  BY <1>1 DEF TypeOK
<1>7a. h \in 0..N - 1 /\ t \in 0..N - 1
  BY <1>a DEF TxSlots, N
<1> DEFINE s == (t - h) % N
           s2 == (tx'.tail - tx'.dh) % N
<1>8. s \in 0..N - 1 /\ s2 = IF s = N - 1 THEN 0 ELSE s + 1
  BY <1>a, <1>3, <1>4, <1>7a, RingSpanGrows
<1>9. s <= count.made - count.wire
  BY DEF RingInv, t, h, N
<1>10. RingInv'
  <2> HIDE DEF s, s2
  <2>1. s2 <= count.made + 1 - count.wire
    BY <1>a, <1>8, <1>9
  <2>2. count'.made - count'.wire = count.made + 1 - count.wire
    BY <1>a, <1>6
  <2>3. s2 <= count'.made - count'.wire
    BY <2>1, <2>2
  <2> QED
    BY <2>3, Zenon DEF RingInv, N, s2
<1>11. TxFifo'
  <2> SUFFICES ASSUME ~lapped'
               PROVE  /\ (tx'.tail - tx'.dh) % N = count'.made - count'.wire
                      /\ \A k \in 1..count'.made - count'.wire :
                           tx'.buf[(tx'.dh + k - 1) % N].id = count'.wire + k
    BY DEF TxFifo, N
  <2> DEFINE d == count.made - count.wire
  <2>1. ~lapped /\ count.made + 1 - count.wire < N
    <3>1. ~(lapped \/ count.made + 1 - count.wire >= N)
      BY <1>1
    <3> QED
      BY <1>a, <3>1
  <2>2. s = d /\ \A k \in 1..d : tx.buf[(h + k - 1) % N].id = count.wire + k
    BY <2>1 DEF TxFifo, t, h, N
  <2>3. d \in 0..N - 2 /\ s2 = d + 1
    <3> HIDE DEF s, s2
    <3> QED
      BY <1>a, <1>8, <2>1, <2>2
  <2>5. ASSUME NEW k \in 1..d + 1
        PROVE  tx'.buf[(h + k - 1) % N].id = count.wire + k
    <3>1. k - 1 \in 0..N - 1
      BY <1>a, <2>3
    <3>2. h + k - 1 = h + (k - 1)
      BY <1>7a
    <3> DEFINE x == (h + k - 1) % N
    <3>3. x \in 0..N - 1 /\ (x = t <=> k - 1 = d)
      <4>1. /\ (h + (k - 1)) % N \in 0..N - 1
            /\ (h + (k - 1)) % N = t <=> k - 1 = (t - h) % N
        BY <1>a, <1>7a, <3>1, RingPlaceIs, Zenon
      <4> QED
        BY <2>2, <3>2, <4>1, Zenon
    <3>4. x \in TxSlots
      BY <3>3 DEF TxSlots, N
    <3>5. x = t <=> k = d + 1
      BY <2>3, <3>3
    <3> HIDE DEF x
    <3>6. CASE k = d + 1
      BY <1>2, <1>3, <1>a, <3>4, <3>5, <3>6 DEF x
    <3>7. CASE k # d + 1
      <4>1. tx'.buf[x] = tx.buf[x]
        BY <1>3, <1>a, <3>4, <3>5, <3>7
      <4>2. k \in 1..d
        BY <2>3, <3>7
      <4> QED
        BY <2>2, <4>1, <4>2 DEF x
    <3> QED
      BY <3>6, <3>7
  <2>6. count'.made - count'.wire = d + 1
    BY <1>a, <1>6
  <2> QED
    BY <1>3, <1>6, <2>3, <2>5, <2>6
<1> QED
  BY <1>5, <1>6, <1>7, <1>10, <1>11

\* The ring with its oldest frame gone.
LEMMA CardSendsKeeps ==
  ASSUME TypeOK, RingInv, TxFifo, CardSends
  PROVE  /\ tx' \in TxRing /\ count' \in Counts
         /\ count'.in = count.in /\ count'.made = count.made
         /\ RingInv' /\ TxFifo'
<1> DEFINE t == tx.tail
           h == tx.dh
           N == TX_DESC_NR
<1>a. /\ tx.buf \in [TxSlots -> TxDesc] /\ h \in TxSlots /\ t \in TxSlots
      /\ N \in Nat \ {0} /\ count \in Counts
      /\ count.in \in Nat /\ count.made \in Nat /\ count.wire \in Nat
      /\ count.made <= MaxSent /\ MaxSent \in Nat
  BY TxTypes
<1>1. /\ h # t
      /\ tx' = [tx EXCEPT !.dh = (h + 1) % N, !.buf[h] = NoTx]
      /\ count' = [count EXCEPT !.wire = count.wire + 1]
      /\ lapped' = lapped
  BY DEF CardSends
<1>2. NoTx \in TxDesc
  BY TxTypes DEF NoTx, TxDesc
<1> HIDE DEF t, h, N
<1>3. /\ tx'.buf = [tx.buf EXCEPT ![h] = NoTx]
      /\ tx'.dh = (h + 1) % N /\ tx'.tail = t
      /\ tx' = [buf |-> tx'.buf, dh |-> tx'.dh, tail |-> tx'.tail]
  BY <1>1, TxTypes DEF t
<1>4. tx'.dh = IF h = N - 1 THEN 0 ELSE h + 1
  BY <1>a, <1>3, RingNext DEF TxSlots, N
<1>5. tx'.dh \in TxSlots
  BY <1>a, <1>4 DEF TxSlots, N
<1>6. tx' \in TxRing
  <2>1. tx'.buf \in [TxSlots -> TxDesc]
    BY <1>a, <1>2, <1>3
  <2> QED
    BY <1>a, <1>3, <1>5, <2>1 DEF TxRing
<1>8. h \in 0..N - 1 /\ t \in 0..N - 1 /\ tx'.dh \in 0..N - 1
  BY <1>a, <1>5 DEF TxSlots, N
<1>9. (t - h) % N <= count.made - count.wire
  BY DEF RingInv, t, h, N
<1>10. (tx'.tail - tx'.dh) % N = ((t - h) % N) - 1 /\ (t - h) % N \in 1..N - 1
  BY <1>a, <1>1, <1>3, <1>4, <1>8, RingSpanShrinks
<1>11. /\ count' \in Counts
       /\ count'.in = count.in /\ count'.made = count.made
       /\ count'.wire = count.wire + 1
  <2>1. count.wire + 1 \in 0..MaxSent
    BY <1>a, <1>9, <1>10
  <2> QED
    BY <1>a, <1>1, <2>1 DEF Counts
<1>12. RingInv'
  <2>1. (tx'.tail - tx'.dh) % N <= count.made - (count.wire + 1)
    BY <1>a, <1>9, <1>10
  <2> QED
    BY <1>11, <2>1 DEF RingInv, N
<1>13. TxFifo'
  <2> SUFFICES ASSUME ~lapped
               PROVE  /\ (tx'.tail - tx'.dh) % N = count'.made - count'.wire
                      /\ \A k \in 1..count'.made - count'.wire :
                           tx'.buf[(tx'.dh + k - 1) % N].id = count'.wire + k
    BY <1>1 DEF TxFifo, N
  <2> DEFINE d == count.made - count.wire
  <2>1. (t - h) % N = d /\ \A k \in 1..d : tx.buf[(h + k - 1) % N].id = count.wire + k
    BY DEF TxFifo, t, h, N
  <2>2. (tx'.tail - tx'.dh) % N = d - 1 /\ d \in 1..N - 1
    BY <1>10, <2>1
  <2>3. ASSUME NEW k \in 1..d - 1
        PROVE  tx'.buf[(tx'.dh + k - 1) % N].id = count.wire + 1 + k
    <3>1. k \in 1..N - 1 /\ k \in 0..N - 1
      BY <1>a, <2>2
    <3>2. /\ (tx'.dh + (k - 1)) % N = (h + k) % N
          /\ (h + k) % N # h
      <4>1. N \in Nat \ {0}
        BY <1>a
      <4> QED
        BY <1>4, <1>8, <3>1, <4>1, RingPlaceNext
    <3>2a. (h + k) % N \in 0..N - 1
      BY <1>a, <1>8, <3>1, RingPlaceIs, Zenon
    <3>3. /\ tx'.dh + k - 1 = tx'.dh + (k - 1)
          /\ h + (k + 1) - 1 = h + k
      BY <1>8, <3>1
    <3>4. (tx'.dh + k - 1) % N = (h + k) % N
      BY <3>2, <3>3
    <3> DEFINE x == (h + k) % N
    <3>5. x \in TxSlots /\ x # h
      BY <3>2, <3>2a DEF TxSlots, N
    <3>6. tx'.buf[x] = tx.buf[x]
      BY <1>a, <1>3, <3>5
    <3>7. k + 1 \in 1..d
      BY <2>2
    <3>8. tx.buf[x].id = count.wire + (k + 1)
      BY <2>1, <3>3, <3>7
    <3>9. count.wire + (k + 1) = count.wire + 1 + k
      BY <1>a, <2>2
    <3> HIDE DEF x
    <3> QED
      BY <3>4, <3>6, <3>8, <3>9 DEF x
  <2>4. count'.made - count'.wire = d - 1
    BY <1>a, <1>11
  <2> QED
    BY <1>11, <2>2, <2>3, <2>4
<1> QED
  BY <1>6, <1>11, <1>12, <1>13

\* Nothing to send.
LEMMA NoAnswerKeeps ==
  ASSUME TypeOK, RingInv, TxFifo, NoAnswer
  PROVE  /\ tx' \in TxRing /\ lapped' \in BOOLEAN /\ count' \in Counts
         /\ count'.in = count.in /\ count'.made = count.made
         /\ RingInv' /\ TxFifo'
BY DEF NoAnswer, TypeOK, Counts, RingInv, TxFifo

\* What the generators compose is a frame.
LEMMA FrameType ==
  ASSUME TypeOK, NEW mac \in Macs \cup {NoMac}, NEW to \in Ports \cup {NoPort}
  PROVE  eth_pkt(mac, to) \in TxDesc
<1>1. 0 \in 0..MaxSent
  BY TxTypes
<1>2. NoTx \in TxDesc
  BY <1>1 DEF NoTx, TxDesc
<1> QED
  BY <1>2 DEF TxDesc, eth_pkt

LEMMA ComposedKeeps ==
  ASSUME TypeOK, RingInv, TxFifo, NEW pkt \in TxDesc, count.made < MaxSent,
         SendComposed(pkt)
  PROVE  /\ tx' \in TxRing /\ lapped' \in BOOLEAN /\ count' \in Counts
         /\ count'.in = count.in /\ count'.made \in {count.made, count.made + 1}
         /\ RingInv' /\ TxFifo'
<1>1. CASE e1k_send_pkt(pkt)
  BY <1>1, SendKeeps
<1>2. CASE NoAnswer
  BY <1>2, NoAnswerKeeps
<1> QED
  BY <1>1, <1>2 DEF SendComposed

(***************************************************************************)
(* The dissectors.                                                         *)
(***************************************************************************)
LEMMA DissectKeeps ==
  ASSUME TypeOK, RingInv, TxFifo, ArpInv, count.made < MaxSent,
         NEW f \in Arriving, eth_dissect(f)
  PROVE  /\ tx' \in TxRing /\ lapped' \in BOOLEAN /\ count' \in Counts
         /\ count'.in = count.in /\ count'.made \in {count.made, count.made + 1}
         /\ RingInv' /\ TxFifo'
         /\ port' \in Ports \cup {NoPort}
         /\ arp' \in ArpTable /\ truth' \in [Ips -> Macs \cup {NoMac}] /\ ArpInv'
<1>0. f \in EthFrames
  BY ArrivingAssumption
<1>a. ASSUME UNCHANGED <<arp, truth>>
      PROVE  arp' \in ArpTable /\ truth' \in [Ips -> Macs \cup {NoMac}] /\ ArpInv'
  BY <1>a DEF TypeOK, ArpInv
<1>b. port' = port => port' \in Ports \cup {NoPort}
  BY DEF TypeOK
<1>1. CASE f.kind = "arp" /\ arp_dissect(f)
  <2>1. f.ip \in Ips /\ f.mac \in Macs
    BY <1>0, <1>1 DEF EthFrames, ArpFrames, IcmpFrames, UdpFrames
  <2>2. arp_cache_update(f.ip, f.mac) /\ port' = port
    BY <1>1 DEF arp_dissect
  <2>3. arp' \in ArpTable /\ truth' \in [Ips -> Macs \cup {NoMac}] /\ ArpInv'
    BY <2>1, <2>2, ArpUpdate
  <2>4. NoAnswer \/ e1k_send_pkt(net_gen_arp_is_at_pkt(f.mac))
    BY <1>1 DEF arp_dissect
  <2>5. net_gen_arp_is_at_pkt(f.mac) \in TxDesc
    BY <2>1, FrameType DEF net_gen_arp_is_at_pkt
  <2>6. CASE NoAnswer
    BY <1>b, <2>2, <2>3, <2>6, NoAnswerKeeps
  <2>7. CASE e1k_send_pkt(net_gen_arp_is_at_pkt(f.mac))
    BY <1>b, <2>2, <2>3, <2>5, <2>7, SendKeeps
  <2> QED
    BY <2>4, <2>6, <2>7
<1>2. CASE f.kind = "icmp" /\ icmp_dissect(f)
  <2>1. SendComposed(net_gen_pong_pkt(f.ip)) /\ UNCHANGED <<arp, truth, port>>
    BY <1>2 DEF icmp_dissect
  <2>2. net_gen_pong_pkt(f.ip) \in TxDesc
    BY LookupType, FrameType DEF net_gen_pong_pkt, icmp_echo_reply, ip_pkt
  <2> QED
    BY <1>a, <1>b, <2>1, <2>2, ComposedKeeps
<1>3. CASE f.kind = "udp" /\ udp_dissect(f)
  <2>1. f.src \in Ports
    BY <1>0, <1>3 DEF EthFrames, ArpFrames, IcmpFrames, UdpFrames
  <2> QED
    BY <1>3, <1>a, <2>1, NoAnswerKeeps DEF udp_dissect
<1>4. CASE NoAnswer /\ UNCHANGED <<arp, truth, port>>
  BY <1>4, <1>a, <1>b, NoAnswerKeeps
<1> QED
  BY <1>1, <1>2, <1>3, <1>4 DEF eth_dissect, ip_dissect

(***************************************************************************)
(* The receive ring.                                                       *)
(***************************************************************************)
LEMMA RxTypes ==
  ASSUME TypeOK
  PROVE  /\ rx \in [slot : [RxSlots -> RxDesc], dh : RxSlots, dt : RxSlots, tail : RxSlots]
         /\ rx.slot \in [RxSlots -> RxDesc]
         /\ rx.dh \in RxSlots /\ rx.dt \in RxSlots /\ rx.tail \in RxSlots
         /\ RX_DESC_NR \in Nat \ {0} /\ MaxFrames \in Nat
         /\ \A i \in RxSlots : (i + 1) % RX_DESC_NR \in RxSlots
<1>1. rx \in RxRing
  BY DEF TypeOK
<1>2. RX_DESC_NR \in Nat \ {0} /\ MaxFrames \in Nat
  BY NetAssumption
<1>3. \A i \in RxSlots : (i + 1) % RX_DESC_NR \in RxSlots
  BY <1>2, RingNext DEF RxSlots
<1> QED
  BY <1>1, <1>2, <1>3 DEF RxRing

\* The frame that may still be in the ring although it was copied.
Copied == IF call.op = "clear" THEN {rx.slot[rx.tail]} ELSE {}

\* The ring keeps its frames, and nothing has been copied that is in it.
LEMMA FramesKept ==
  ASSUME TypeOK, FramesAccounted, rx'.slot = rx.slot, call.op # "clear",
         done' = done, lost' = lost, count'.in = count.in
  PROVE  FramesAccounted'
<1> DEFINE held == {rx.slot[i] : i \in RxSlots} \ {Empty}
<1>1. /\ held \cup done \cup lost = 1..count.in
      /\ held \cap done \subseteq {} /\ held \cap lost = {} /\ done \cap lost = {}
      /\ \A i, j \in RxSlots : i # j /\ rx.slot[i] = rx.slot[j] => rx.slot[i] = Empty
  BY DEF FramesAccounted
<1>2. {rx'.slot[i] : i \in RxSlots} \ {Empty} = held
  OBVIOUS
<1> HIDE DEF held
<1> QED
  BY <1>1, <1>2 DEF FramesAccounted

\* A poll moves the cursor only, and ends the call or finds a frame.
LEMMA PollKeeps ==
  ASSUME TypeOK, FramesAccounted, net_read, call' \in Calls
  PROVE  rx' \in RxRing /\ FramesAccounted' /\ CopyInv'
<1>1. Cursor \in RxSlots
  BY RxTypes DEF Cursor
<1>2. /\ rx' = [rx EXCEPT !.tail = Cursor]
      /\ call.op = "read" /\ UNCHANGED <<count, done, lost>>
  BY DEF net_read
<1>3. rx'.slot = rx.slot /\ rx'.tail = Cursor
  BY <1>2, RxTypes
<1>4. rx' \in RxRing
  BY <1>1, <1>2, RxTypes DEF RxRing
<1>5. FramesAccounted'
  BY <1>2, <1>3, FramesKept
<1>6. CopyInv'
  <2>1. CASE Polled = Empty
    <3>1. call \in [op : {"read"}, times : 0..1, last : BOOLEAN]
      BY <1>2 DEF TypeOK, Calls
    <3>2. call'.op \in {"read", "idle"}
      BY <2>1, <3>1 DEF net_read, AfterRead, Idle
    <3> QED
      BY <3>2 DEF CopyInv
  <2>2. CASE Polled # Empty
    BY <1>3, <2>2 DEF CopyInv, Polled
  <2> QED
    BY <2>1, <2>2
<1> QED
  BY <1>4, <1>5, <1>6

\* The frame copied had not been copied before.
LEMMA CopyKeeps ==
  ASSUME TypeOK, FramesAccounted, CopyInv, e1k_rx_copy
  PROVE  /\ rx.slot[rx.tail] \in 1..MaxFrames /\ rx.slot[rx.tail] \notin done
         /\ FramesAccounted'
<1> DEFINE p == rx.slot[rx.tail]
           held == {rx.slot[i] : i \in RxSlots} \ {Empty}
<1>1. /\ call.op = "copy" /\ call'.op = "clear" /\ done' = done \cup {p}
      /\ UNCHANGED <<rx, count, lost>>
  <2>1. call.op = "copy" /\ call' = [call EXCEPT !.op = "clear"]
    BY DEF e1k_rx_copy
  <2>2. call \in [op : {"copy"}, times : 0..1, last : BOOLEAN]
    BY <2>1 DEF TypeOK, Calls
  <2> QED
    BY <2>1, <2>2 DEF e1k_rx_copy
<1>2. p # Empty /\ p \in RxDesc /\ p \in held
  BY <1>1, RxTypes DEF CopyInv
<1>3. /\ held \cup done \cup lost = 1..count.in
      /\ held \cap done \subseteq {} /\ held \cap lost = {} /\ done \cap lost = {}
      /\ \A i, j \in RxSlots : i # j /\ rx.slot[i] = rx.slot[j] => rx.slot[i] = Empty
  BY <1>1 DEF FramesAccounted
<1>4. p \in 1..MaxFrames /\ p \notin done
  BY <1>2, <1>3, RxTypes DEF RxDesc, Empty
<1>5. {rx'.slot[i] : i \in RxSlots} \ {Empty} = held /\ Copied' = {p}
  BY <1>1 DEF Copied
<1> HIDE DEF p, held
<1>6. /\ held \cup done' \cup lost' = 1..count'.in
      /\ held \cap done' \subseteq {p} /\ held \cap lost' = {} /\ done' \cap lost' = {}
  BY <1>1, <1>2, <1>3
<1>7. FramesAccounted'
  BY <1>1, <1>3, <1>5, <1>6 DEF FramesAccounted, Copied
<1> QED
  BY <1>4, <1>7 DEF p

\* The clear takes out the frame copied, or another that came over it.
LEMMA ClearKeeps ==
  ASSUME TypeOK, FramesAccounted, e1k_rx_clear
  PROVE  /\ rx' \in RxRing /\ FramesAccounted' /\ lost' \subseteq 1..MaxFrames
<1> DEFINE c == rx.tail
           p == rx.slot[c]
           held == {rx.slot[i] : i \in RxSlots} \ {Empty}
           held2 == {rx'.slot[i] : i \in RxSlots} \ {Empty}
<1>1. /\ rx' = [rx EXCEPT !.slot[c] = Empty] /\ c \in RxSlots
      /\ call.op = "clear" /\ call'.op = "give"
      /\ lost' = lost \cup ({p} \ (done \cup {Empty})) /\ UNCHANGED <<count, done>>
  <2>1. call.op = "clear" /\ call' = [call EXCEPT !.op = "give"]
    BY DEF e1k_rx_clear
  <2>2. call \in [op : {"clear"}, times : 0..1, last : BOOLEAN]
    BY <2>1 DEF TypeOK, Calls
  <2> QED
    BY <2>1, <2>2, RxTypes DEF e1k_rx_clear, Cleared
<1> HIDE DEF c, p
<1>2. p = rx.slot[c]
  BY DEF p
<1>3. rx'.slot = [rx.slot EXCEPT ![c] = Empty]
  BY <1>1, RxTypes
<1>4. Empty \in RxDesc
  BY RxTypes DEF Empty, RxDesc
<1>5. rx' \in RxRing
  <2>1. rx'.slot \in [RxSlots -> RxDesc]
    BY <1>1, <1>3, <1>4, RxTypes
  <2>2. rx' = [slot |-> rx'.slot, dh |-> rx.dh, dt |-> rx.dt, tail |-> rx.tail]
    BY <1>1, RxTypes
  <2> QED
    BY <1>1, <2>1, <2>2, RxTypes DEF RxRing
<1>6. /\ rx'.slot[c] = Empty
      /\ \A i \in RxSlots \ {c} : rx'.slot[i] = rx.slot[i]
  BY <1>1, <1>3, RxTypes
<1>7. /\ held \cup done \cup lost = 1..count.in
      /\ held \cap done \subseteq {p} /\ held \cap lost = {} /\ done \cap lost = {}
      /\ \A i, j \in RxSlots : i # j /\ rx.slot[i] = rx.slot[j] => rx.slot[i] = Empty
  BY <1>1 DEF FramesAccounted, p, c
<1>8. p # Empty => p \in held
  BY <1>1, <1>2
<1>9. held2 = held \ {p}
  <2>1. ASSUME NEW x \in held2 PROVE x \in held \ {p}
    <3>1. PICK i \in RxSlots : x = rx'.slot[i] /\ x # Empty
      BY <2>1
    <3>2. i # c /\ x = rx.slot[i]
      BY <1>6, <3>1
    <3>3. x # p
      BY <1>1, <1>2, <1>7, <3>1, <3>2
    <3> QED
      BY <3>1, <3>2, <3>3
  <2>2. ASSUME NEW x \in held \ {p} PROVE x \in held2
    <3>1. PICK i \in RxSlots : x = rx.slot[i] /\ x # Empty
      BY <2>2
    <3>2. i # c
      BY <1>2, <2>2, <3>1
    <3>3. x = rx'.slot[i]
      BY <1>6, <3>1, <3>2
    <3> QED
      BY <3>1, <3>3
  <2> QED
    BY <2>1, <2>2
<1>10. \A i, j \in RxSlots : i # j /\ rx'.slot[i] = rx'.slot[j] => rx'.slot[i] = Empty
  BY <1>6, <1>7
<1> HIDE DEF held, held2
<1>11. Empty \notin 1..count.in
  BY TxTypes DEF Empty
<1>12. /\ held2 \cup done' \cup lost' = 1..count'.in
       /\ held2 \cap done' \subseteq {} /\ held2 \cap lost' = {} /\ done' \cap lost' = {}
  BY <1>1, <1>7, <1>8, <1>9, <1>11
<1>13. FramesAccounted'
  BY <1>1, <1>10, <1>12 DEF FramesAccounted, held2
<1>14. lost' \subseteq 1..MaxFrames
  <2>1. count.in \in 0..MaxFrames /\ MaxFrames \in Nat
    BY TxTypes, RxTypes DEF Counts
  <2> QED
    BY <1>1, <1>12, <2>1
<1> QED
  BY <1>5, <1>13, <1>14

\* The card writes a frame over a descriptor, or drops it.
LEMMA CardReceivesKeeps ==
  ASSUME TypeOK, FramesAccounted, CopyInv, CardReceives
  PROVE  /\ rx' \in RxRing /\ count' \in Counts
         /\ count'.made = count.made /\ count'.wire = count.wire
         /\ lost' \subseteq 1..MaxFrames
         /\ FramesAccounted' /\ CopyInv'
<1> DEFINE n == count.in + 1
           h == rx.dh
           held == {rx.slot[i] : i \in RxSlots} \ {Empty}
           held2 == {rx'.slot[i] : i \in RxSlots} \ {Empty}
<1>1. /\ count \in Counts /\ count.in \in Nat /\ count.in < MaxFrames
      /\ count' = [count EXCEPT !.in = n] /\ done' = done /\ call' = call
      /\ n \in 1..MaxFrames
  BY TxTypes DEF CardReceives
<1>2. /\ count' \in Counts /\ count'.in = n
      /\ count'.made = count.made /\ count'.wire = count.wire
  BY <1>1 DEF Counts
<1>3. /\ held \cup done \cup lost = 1..count.in
      /\ held \cap done \subseteq Copied /\ held \cap lost = {} /\ done \cap lost = {}
      /\ \A i, j \in RxSlots : i # j /\ rx.slot[i] = rx.slot[j] => rx.slot[i] = Empty
  BY DEF FramesAccounted, Copied
<1>4. 1..n = (1..count.in) \cup {n} /\ n \notin 1..count.in /\ n # Empty
  BY <1>1 DEF Empty
<1>5. h \in RxSlots
  BY RxTypes
<1>6. CASE rx.dh = rx.dt /\ lost' = lost \cup {n} /\ rx' = rx
  <2>1. held2 = held /\ Copied' = Copied
    BY <1>1, <1>6 DEF Copied
  <2> HIDE DEF n, held, held2
  <2>2. /\ held2 \cup done' \cup lost' = 1..count'.in
        /\ held2 \cap done' \subseteq Copied' /\ held2 \cap lost' = {} /\ done' \cap lost' = {}
    BY <1>1, <1>2, <1>3, <1>4, <1>6, <2>1
  <2>3. \A i, j \in RxSlots : i # j /\ rx'.slot[i] = rx'.slot[j] => rx'.slot[i] = Empty
    BY <1>3, <1>6
  <2>4. FramesAccounted'
    BY <2>2, <2>3 DEF FramesAccounted, Copied, held2
  <2>5. lost' \subseteq 1..MaxFrames
    BY <1>1, <1>6 DEF TypeOK
  <2>6. CopyInv'
    BY <1>1, <1>6 DEF CopyInv
  <2> QED
    BY <1>2, <1>6, <2>4, <2>5, <2>6 DEF TypeOK
<1>7. CASE /\ rx' = [rx EXCEPT !.slot[h] = n, !.dh = (h + 1) % RX_DESC_NR]
           /\ lost' = lost \cup ({rx.slot[h]} \ (done \cup {Empty}))
  <2> DEFINE old == rx.slot[h]
  <2>1. rx'.slot = [rx.slot EXCEPT ![h] = n]
    BY <1>7, RxTypes
  <2>2. rx' \in RxRing
    <3>1. n \in RxDesc
      BY <1>1 DEF RxDesc
    <3>2. rx'.slot \in [RxSlots -> RxDesc]
      BY <1>5, <2>1, <3>1, RxTypes
    <3>3. rx' = [slot |-> rx'.slot, dh |-> (h + 1) % RX_DESC_NR, dt |-> rx.dt,
                 tail |-> rx.tail]
      BY <1>7, RxTypes
    <3>4. (h + 1) % RX_DESC_NR \in RxSlots
      BY <1>5, RxTypes
    <3> QED
      BY <3>2, <3>3, <3>4, RxTypes DEF RxRing
  <2>3. rx'.slot[h] = n /\ \A i \in RxSlots \ {h} : rx'.slot[i] = rx.slot[i]
    BY <1>5, <2>1, RxTypes
  <2>4. \A i \in RxSlots : rx.slot[i] # n
    <3>1. \A i \in RxSlots : rx.slot[i] # Empty => rx.slot[i] \in held
      OBVIOUS
    <3> HIDE DEF held, n
    <3> QED
      BY <1>3, <1>4, <3>1
  <2>5. held2 = (held \ {old}) \cup {n}
    <3>1. ASSUME NEW x \in held2 PROVE x \in (held \ {old}) \cup {n}
      <4>1. PICK i \in RxSlots : x = rx'.slot[i] /\ x # Empty
        BY <3>1
      <4>2. CASE i = h
        BY <2>3, <4>1, <4>2
      <4>3. CASE i # h
        <5>1. x = rx.slot[i]
          BY <2>3, <4>1, <4>3
        <5>2. x # old
          BY <1>3, <1>5, <4>1, <4>3, <5>1
        <5> QED
          BY <4>1, <5>1, <5>2
      <4> QED
        BY <4>2, <4>3
    <3>2. ASSUME NEW x \in held \ {old} PROVE x \in held2
      <4>1. PICK i \in RxSlots : x = rx.slot[i] /\ x # Empty
        BY <3>2
      <4>2. i # h
        BY <3>2, <4>1
      <4>3. x = rx'.slot[i]
        BY <2>3, <4>1, <4>2
      <4> QED
        BY <4>1, <4>3
    <3>3. n \in held2
      BY <1>4, <1>5, <2>3
    <3> QED
      BY <3>1, <3>2, <3>3
  <2>6. old # Empty => old \in held
    BY <1>5
  <2>7. \A i, j \in RxSlots : i # j /\ rx'.slot[i] = rx'.slot[j] => rx'.slot[i] = Empty
    BY <1>3, <2>3, <2>4
  <2>12. (Copied \ {old}) \subseteq Copied' /\ CopyInv'
    <3>1. rx'.tail = rx.tail /\ rx.tail \in RxSlots
      BY <1>7, RxTypes
    <3>2. CASE rx.tail = h
      BY <1>1, <1>4, <2>3, <3>1, <3>2 DEF Copied, CopyInv
    <3>3. CASE rx.tail # h
      BY <1>1, <2>3, <3>1, <3>3 DEF Copied, CopyInv
    <3> QED
      BY <3>2, <3>3
  <2> HIDE DEF n, held, held2, old
  <2>8. lost' = lost \cup ({old} \ (done \cup {Empty}))
    BY <1>7 DEF old
  <2>9. Empty \notin 1..count.in
    BY <1>1 DEF Empty
  <2>10. /\ held2 \cup done' \cup lost' = 1..count'.in
         /\ held2 \cap done' \subseteq Copied' /\ held2 \cap lost' = {} /\ done' \cap lost' = {}
    <3>1. done' = done /\ count'.in = n
      BY <1>1, <1>2
    <3>2. n \notin held /\ n \notin done /\ n \notin lost
      BY <1>3, <1>4
    <3>3. held2 \cup done' \cup lost' = 1..count'.in
      BY <1>3, <1>4, <2>5, <2>6, <2>8, <2>9, <3>1
    <3>4. held2 \cap done' \subseteq Copied'
      BY <1>3, <2>5, <2>12, <3>1, <3>2
    <3>5. held2 \cap lost' = {}
      BY <1>3, <1>4, <2>5, <2>6, <2>8, <3>2
    <3>6. done' \cap lost' = {}
      BY <1>3, <2>6, <2>8, <3>1
    <3> QED
      BY <3>3, <3>4, <3>5, <3>6
  <2>11. FramesAccounted'
    BY <2>7, <2>10 DEF FramesAccounted, Copied, held2
  <2>13. lost' \subseteq 1..MaxFrames
    <3>1. 1..n \subseteq 1..MaxFrames
      BY <1>1, RxTypes
    <3> QED
      BY <1>2, <2>10, <3>1
  <2> QED
    BY <1>2, <2>2, <2>11, <2>12, <2>13
<1> QED
  BY <1>6, <1>7 DEF CardReceives

(***************************************************************************)
(* The whole driver.                                                       *)
(***************************************************************************)

\* How many frames have been read, and that another one is one more.
LEMMA DoneCount ==
  ASSUME TypeOK
  PROVE  /\ Cardinality(done) \in 0..MaxFrames
         /\ \A p \in 1..MaxFrames \ done :
              /\ Cardinality(done \cup {p}) = Cardinality(done) + 1
              /\ Cardinality(done) < MaxFrames
<1>1. MaxFrames \in Nat /\ done \subseteq 1..MaxFrames
  BY NetAssumption DEF TypeOK
<1>2. IsFiniteSet(1..MaxFrames) /\ Cardinality(1..MaxFrames) = MaxFrames
  <2>1. IsFiniteSet(1..MaxFrames)
    BY <1>1, FS_Interval
  <2>2. Cardinality(1..MaxFrames) = IF 1 > MaxFrames THEN 0 ELSE MaxFrames - 1 + 1
    BY <1>1, FS_Interval
  <2> QED
    BY <1>1, <2>1, <2>2
<1>3. IsFiniteSet(done) /\ Cardinality(done) \in Nat /\ Cardinality(done) <= MaxFrames
  BY <1>1, <1>2, FS_Subset, FS_CardinalityType
<1>4. ASSUME NEW p \in 1..MaxFrames \ done
      PROVE  /\ Cardinality(done \cup {p}) = Cardinality(done) + 1
             /\ Cardinality(done) < MaxFrames
  <2>1. Cardinality(done \cup {p}) = Cardinality(done) + 1
    BY <1>3, <1>4, FS_AddElement
  <2>2. done \cup {p} \subseteq 1..MaxFrames
    BY <1>1
  <2>3. Cardinality(done \cup {p}) <= MaxFrames
    BY <1>2, <2>2, FS_Subset
  <2> QED
    BY <1>1, <1>3, <2>1, <2>3
<1> QED
  BY <1>1, <1>3, <1>4

LEMMA CallTypes ==
  ASSUME TypeOK
  PROVE  /\ Due \in 0..2
         /\ call.op = "write" => call.left \in 1..2 /\ Due = call.left
         /\ call.op \in {"clear", "give"} => Due = 1
         /\ call.op \notin {"write", "clear", "give"} => Due = 0
<1>1. call \in Calls
  BY DEF TypeOK
<1>2. call.op = "write" => call.left \in 1..2
  BY <1>1 DEF Calls
<1> QED
  BY <1>2 DEF Due

NetInv == /\ TypeOK /\ BoundInv /\ RingInv
          /\ FramesAccounted /\ CopyInv /\ TxFifo /\ ArpInv

LEMMA NetInit == Init => NetInv
<1> SUFFICES ASSUME Init PROVE NetInv
  OBVIOUS
<1>0. /\ RX_DESC_NR \in Nat \ {0, 1} /\ TX_DESC_NR \in Nat \ {0, 1}
      /\ ARP_CACHE_SZ \in Nat \ {0} /\ NoIp \in Ips
      /\ MaxFrames \in Nat /\ MaxSent \in Nat /\ MaxFrames < MaxSent
  BY NetAssumption
<1>1. rx \in RxRing /\ \A i \in RxSlots : rx.slot[i] = Empty
  <2>1. /\ 0 \in RxSlots /\ RX_DESC_NR - 1 \in RxSlots /\ Empty \in RxDesc
    BY <1>0 DEF RxSlots, Empty, RxDesc
  <2> QED
    BY <2>1 DEF Init, e1k_rx_init, RxRing
<1>2. /\ tx \in TxRing /\ tx.tail = 1 /\ tx.dh = 0 /\ tx.buf[0].id = 1
  <2> DEFINE none == [i \in TxSlots |-> NoTx]
             ask == [arp_who_has_pkt EXCEPT !.id = 1]
  <2>1. 0 \in TxSlots /\ 1 \in TxSlots /\ 0 \in 0..MaxSent /\ 1 \in 0..MaxSent
    BY <1>0 DEF TxSlots
  <2>2. NoTx \in TxDesc
    BY <2>1 DEF NoTx, TxDesc
  <2>3. arp_who_has_pkt \in TxDesc
    BY <2>2 DEF arp_who_has_pkt, eth_pkt, TxDesc
  <2>4. ask \in TxDesc /\ ask.id = 1
    BY <2>1, <2>3 DEF TxDesc
  <2>5. none \in [TxSlots -> TxDesc]
    BY <2>2
  <2>6. tx = [[buf |-> none, dh |-> 0, tail |-> 0] EXCEPT !.buf[0] = ask, !.tail = 1]
    BY DEF Init, e1k_tx_init
  <2> HIDE DEF none, ask
  <2>7. tx = [buf |-> [none EXCEPT ![0] = ask], dh |-> 0, tail |-> 1]
    BY <2>6
  <2>8. [none EXCEPT ![0] = ask] \in [TxSlots -> TxDesc]
    BY <2>4, <2>5
  <2> QED
    BY <2>1, <2>4, <2>5, <2>7, <2>8 DEF TxRing
<1>3. arp \in ArpTable /\ \A i \in ArpSlots : arp.cache[i].ip = NoIp
  <2>1. 0 \in ArpSlots
    BY <1>0 DEF ArpSlots
  <2>2. [ip |-> NoIp, mac |-> NoMac] \in ArpEntries
    BY <1>0 DEF ArpEntries
  <2> QED
    BY <2>1, <2>2 DEF Init, arp_init, ArpTable, ArpSlots
<1>4. count = [in |-> 0, made |-> 1, wire |-> 0] /\ count \in Counts
  <2>1. 0 \in 0..MaxFrames /\ 0 \in 0..MaxSent /\ 1 \in 0..MaxSent
    BY <1>0
  <2> QED
    BY <2>1 DEF Init, Counts
<1>5. call \in Calls /\ Due = 0
  BY DEF Init, Idle, Calls, Due
<1>6. TypeOK
  BY <1>1, <1>2, <1>3, <1>4, <1>5 DEF Init, TypeOK, Counts
<1>7. BoundInv
  <2>1. Cardinality(done) = 0
    BY FS_EmptySet DEF Init
  <2> QED
    BY <1>0, <1>4, <1>5, <2>1 DEF BoundInv
<1>8. (tx.tail - tx.dh) % TX_DESC_NR = 1
  <2>1. 0 \in 0..TX_DESC_NR - 1 /\ 1 \in 0..TX_DESC_NR - 1 /\ TX_DESC_NR \in Nat \ {0}
    BY <1>0
  <2>2. (1 - 0) % TX_DESC_NR = 1
    BY <2>1, RingSpan
  <2> QED
    BY <1>2, <2>2
<1>9. RingInv
  BY <1>4, <1>8 DEF RingInv
<1>10. TxFifo
  <2>1. \A k \in 1..1 : (0 + k - 1) % TX_DESC_NR = 0 /\ k = 1
    BY <1>0
  <2> QED
    BY <1>2, <1>4, <1>8, <2>1 DEF TxFifo
<1>11. FramesAccounted
  <2>1. {rx.slot[i] : i \in RxSlots} \ {Empty} = {}
    BY <1>1
  <2>2. 1..count.in = {}
    BY <1>4
  <2> QED
    BY <1>1, <2>1, <2>2 DEF FramesAccounted, Init
<1>12. ArpInv
  BY <1>3 DEF ArpInv, ArpSlots
<1>13. CopyInv
  BY DEF Init, Idle, CopyInv
<1> QED
  BY <1>6, <1>7, <1>9, <1>10, <1>11, <1>12, <1>13 DEF NetInv

LEMMA NetStep ==
  ASSUME NetInv, [Next]_vars
  PROVE  NetInv'
<1> USE DEF NetInv
<1>a. /\ count.made \in Nat /\ Cardinality(done) \in 0..MaxFrames /\ Due \in 0..2
      /\ MaxFrames \in Nat /\ MaxSent \in Nat
      /\ count.made + Due + (MaxFrames - Cardinality(done)) <= MaxSent
  BY TxTypes, DoneCount, CallTypes DEF BoundInv
<1>1. CASE CardSends
  <2>1. UNCHANGED <<rx, arp, port, call, done, lost, truth, lapped>>
    BY <1>1 DEF CardSends
  <2>2. /\ tx' \in TxRing /\ count' \in Counts
        /\ count'.in = count.in /\ count'.made = count.made
        /\ RingInv' /\ TxFifo'
    BY <1>1, CardSendsKeeps
  <2>3. TypeOK'
    BY <2>1, <2>2 DEF TypeOK, Counts
  <2>4. BoundInv' /\ FramesAccounted' /\ CopyInv' /\ ArpInv'
    BY <2>1, <2>2 DEF BoundInv, Due, FramesAccounted, CopyInv, ArpInv
  <2> QED
    BY <2>2, <2>3, <2>4
<1>2. CASE CardReceives
  <2>1. UNCHANGED <<tx, arp, port, call, done, truth, lapped>>
    BY <1>2 DEF CardReceives
  <2>2. /\ rx' \in RxRing /\ count' \in Counts
        /\ count'.made = count.made /\ count'.wire = count.wire
        /\ lost' \subseteq 1..MaxFrames
        /\ FramesAccounted' /\ CopyInv'
    BY <1>2, CardReceivesKeeps
  <2>3. TypeOK'
    BY <2>1, <2>2 DEF TypeOK, Counts
  <2>4. BoundInv' /\ RingInv' /\ TxFifo' /\ ArpInv'
    BY <2>1, <2>2 DEF BoundInv, Due, RingInv, TxFifo, ArpInv
  <2> QED
    BY <2>2, <2>3, <2>4
<1>3. CASE CallRead
  <2>1. UNCHANGED <<rx, tx, arp, port, count, done, lost, truth, lapped>>
    BY <1>3 DEF CallRead
  <2>2. call' \in Calls /\ call'.op = "read" /\ call.op = "idle"
    BY <1>3 DEF CallRead, Calls, Idle
  <2>3. Due' = 0
    BY <2>2 DEF Due
  <2>4. TypeOK'
    BY <2>1, <2>2 DEF TypeOK
  <2>5. BoundInv'
    BY <1>a, <2>1, <2>3 DEF BoundInv
  <2>6. RingInv' /\ TxFifo' /\ ArpInv'
    BY <2>1 DEF RingInv, TxFifo, ArpInv
  <2>7. FramesAccounted' /\ CopyInv'
    BY <2>1, <2>2, FramesKept DEF CopyInv
  <2> QED
    BY <2>4, <2>5, <2>6, <2>7
<1>4. CASE CallWrite
  <2>1. UNCHANGED <<rx, tx, arp, port, count, done, lost, truth, lapped>>
    BY <1>4 DEF CallWrite
  <2>2. PICK n \in 1..2 : /\ count.made + n <= MaxSent - (MaxFrames - Cardinality(done))
                          /\ call' = [op |-> "write", left |-> n]
    BY <1>4 DEF CallWrite
  <2>3. call' \in Calls /\ Due' = n /\ call'.op = "write" /\ call.op = "idle"
    BY <1>4, <2>2 DEF Calls, Due, CallWrite, Idle
  <2>4. TypeOK'
    BY <2>1, <2>3 DEF TypeOK
  <2>5. BoundInv'
    BY <1>a, <2>1, <2>2, <2>3 DEF BoundInv
  <2>6. RingInv' /\ TxFifo' /\ ArpInv'
    BY <2>1 DEF RingInv, TxFifo, ArpInv
  <2>7. FramesAccounted' /\ CopyInv'
    BY <2>1, <2>3, FramesKept DEF CopyInv
  <2> QED
    BY <2>4, <2>5, <2>6, <2>7
<1>5. CASE net_read
  <2>1. call.op = "read" /\ UNCHANGED <<tx, arp, port, count, done, lost, truth, lapped>>
    BY <1>5 DEF net_read
  <2>2. call \in [op : {"read"}, times : 0..1, last : BOOLEAN] /\ Due = 0
    BY <2>1, CallTypes DEF TypeOK, Calls
  <2>3. call' \in Calls /\ Due' = 0
    <3>1. CASE call' = Idle
      BY <3>1 DEF Idle, Calls, Due
    <3>2. CASE call' = [call EXCEPT !.op = "copy"]
      BY <2>2, <3>2 DEF Calls, Due
    <3> QED
      BY <1>5, <3>1, <3>2 DEF net_read, AfterRead
  <2>4. rx' \in RxRing /\ FramesAccounted' /\ CopyInv'
    BY <1>5, <2>3, PollKeeps
  <2>5. TypeOK'
    BY <2>1, <2>3, <2>4 DEF TypeOK
  <2>6. BoundInv'
    BY <1>a, <2>1, <2>2, <2>3 DEF BoundInv
  <2>7. RingInv' /\ TxFifo' /\ ArpInv'
    BY <2>1 DEF RingInv, TxFifo, ArpInv
  <2> QED
    BY <2>4, <2>5, <2>6, <2>7
<1>8. CASE e1k_rx_copy
  <2>1. /\ call.op = "copy" /\ call' = [call EXCEPT !.op = "clear"]
        /\ done' = done \cup {rx.slot[rx.tail]}
        /\ UNCHANGED <<rx, tx, arp, port, count, lost, truth, lapped>>
    BY <1>8 DEF e1k_rx_copy
  <2>2. call \in [op : {"copy"}, times : 0..1, last : BOOLEAN] /\ Due = 0
    BY <2>1, CallTypes DEF TypeOK, Calls
  <2>3. call' \in Calls /\ Due' = 1 /\ call'.op = "clear"
    BY <2>1, <2>2 DEF Calls, Due
  <2>4. /\ rx.slot[rx.tail] \in 1..MaxFrames /\ rx.slot[rx.tail] \notin done
        /\ FramesAccounted'
    BY <1>8, CopyKeeps
  <2>5. Cardinality(done') = Cardinality(done) + 1 /\ Cardinality(done) < MaxFrames
    BY <2>1, <2>4, DoneCount
  <2>6. TypeOK'
    BY <2>1, <2>3, <2>4 DEF TypeOK
  <2>7. BoundInv'
    BY <1>a, <2>1, <2>2, <2>3, <2>5 DEF BoundInv
  <2>8. RingInv' /\ TxFifo' /\ ArpInv' /\ CopyInv'
    BY <2>1, <2>3 DEF RingInv, TxFifo, ArpInv, CopyInv
  <2> QED
    BY <2>4, <2>6, <2>7, <2>8
<1>9. CASE e1k_rx_clear
  <2>1. /\ call.op = "clear" /\ call' = [call EXCEPT !.op = "give"]
        /\ UNCHANGED <<tx, arp, port, count, done, truth, lapped>>
    BY <1>9 DEF e1k_rx_clear
  <2>2. call \in [op : {"clear"}, times : 0..1, last : BOOLEAN] /\ Due = 1
    BY <2>1, CallTypes DEF TypeOK, Calls
  <2>3. call' \in Calls /\ Due' = 1 /\ call'.op = "give"
    BY <2>1, <2>2 DEF Calls, Due
  <2>4. rx' \in RxRing /\ FramesAccounted' /\ lost' \subseteq 1..MaxFrames
    BY <1>9, ClearKeeps
  <2>5. TypeOK'
    BY <2>1, <2>3, <2>4 DEF TypeOK
  <2>6. BoundInv'
    BY <1>a, <2>1, <2>2, <2>3 DEF BoundInv
  <2>7. RingInv' /\ TxFifo' /\ ArpInv' /\ CopyInv'
    BY <2>1, <2>3 DEF RingInv, TxFifo, ArpInv, CopyInv
  <2> QED
    BY <2>4, <2>5, <2>6, <2>7
<1>10. CASE net_dissect
  <2>1. PICK f \in Arriving : eth_dissect(f) /\ AfterRead(f.kind = "udp" /\ f.full)
    BY <1>10 DEF net_dissect
  <2>2. call.op = "give" /\ rx' = [rx EXCEPT !.dt = rx.tail] /\ UNCHANGED <<done, lost>>
    BY <1>10 DEF net_dissect
  <2>3. call \in [op : {"give"}, times : 0..1, last : BOOLEAN] /\ Due = 1
    BY <2>2, CallTypes DEF TypeOK, Calls
  <2>4. call' \in Calls /\ Due' = 0 /\ call'.op \in {"idle", "read"}
    <3>1. CASE call' = Idle
      BY <3>1 DEF Idle, Calls, Due
    <3>2. CASE call' = [call EXCEPT !.op = "read", !.times = 0]
      <4>1. call' = [op |-> "read", times |-> 0, last |-> call.last] /\ call.last \in BOOLEAN
        BY <2>3, <3>2
      <4>2. call' \in [op : {"read"}, times : 0..1, last : BOOLEAN]
        BY <4>1
      <4> QED
        BY <4>1, <4>2 DEF Calls, Due
    <3> QED
      BY <2>1, <3>1, <3>2 DEF AfterRead
  <2>5. count.made < MaxSent
    BY <1>a, <2>3
  <2>6. /\ tx' \in TxRing /\ lapped' \in BOOLEAN /\ count' \in Counts
        /\ count'.in = count.in /\ count'.made \in {count.made, count.made + 1}
        /\ RingInv' /\ TxFifo'
        /\ port' \in Ports \cup {NoPort}
        /\ arp' \in ArpTable /\ truth' \in [Ips -> Macs \cup {NoMac}] /\ ArpInv'
    BY <2>1, <2>5, DissectKeeps
  <2>7. rx' \in RxRing /\ rx'.slot = rx.slot
    BY <2>2, RxTypes DEF RxRing
  <2>8. FramesAccounted' /\ CopyInv'
    BY <2>2, <2>4, <2>6, <2>7, FramesKept DEF CopyInv
  <2>9. TypeOK'
    BY <2>2, <2>4, <2>6, <2>7 DEF TypeOK, Counts
  <2>10. BoundInv'
    BY <1>a, <2>2, <2>3, <2>4, <2>6 DEF BoundInv
  <2> QED
    BY <2>6, <2>8, <2>9, <2>10
<1>6. CASE net_write
  <2>1. /\ call.op = "write" /\ SendComposed(net_gen_udp_pkt)
        /\ call' = IF call.left = 1 THEN Idle ELSE [call EXCEPT !.left = @ - 1]
        /\ UNCHANGED <<rx, arp, port, done, lost, truth>>
    BY <1>6 DEF net_write
  <2>2. call.left \in 1..2 /\ Due = call.left
    BY <2>1, CallTypes
  <2>3. call \in [op : {"write"}, left : 1..2]
    BY <2>1 DEF TypeOK, Calls
  <2>4. call' \in Calls /\ Due' = Due - 1 /\ call'.op \in {"idle", "write"}
    <3>1. CASE call.left = 1
      BY <2>1, <2>2, <3>1 DEF Idle, Calls, Due
    <3>2. CASE call.left = 2
      <4>1. call' = [op |-> "write", left |-> 1]
        BY <2>1, <2>3, <3>2
      <4> QED
        BY <2>2, <3>2, <4>1 DEF Calls, Due
    <3> QED
      BY <2>2, <3>1, <3>2
  <2>5. net_gen_udp_pkt \in TxDesc
    <3>1. port \in Ports \cup {NoPort}
      BY DEF TypeOK
    <3> QED
      BY <3>1, LookupType, FrameType DEF net_gen_udp_pkt, udp_pkt, ip_pkt
  <2>6. count.made < MaxSent
    BY <1>a, <2>2
  <2>7. /\ tx' \in TxRing /\ lapped' \in BOOLEAN /\ count' \in Counts
        /\ count'.in = count.in /\ count'.made \in {count.made, count.made + 1}
        /\ RingInv' /\ TxFifo'
    BY <2>1, <2>5, <2>6, ComposedKeeps
  <2>8. TypeOK'
    BY <2>1, <2>4, <2>7 DEF TypeOK, Counts
  <2>9. BoundInv'
    BY <1>a, <2>1, <2>2, <2>4, <2>7 DEF BoundInv
  <2>10. FramesAccounted'
    BY <2>1, <2>7, FramesKept
  <2>11. ArpInv' /\ CopyInv'
    BY <2>1, <2>4 DEF ArpInv, CopyInv
  <2> QED
    BY <2>7, <2>8, <2>9, <2>10, <2>11
<1>7. CASE UNCHANGED vars
  BY <1>7 DEF vars, TypeOK, BoundInv, Due, RingInv, TxFifo, FramesAccounted, CopyInv, ArpInv
<1> QED
  BY <1>1, <1>2, <1>3, <1>4, <1>5, <1>6, <1>7, <1>8, <1>9, <1>10 DEF Next, Reading

\* The driver's inductive invariant, for rings, caches and bounds of any size.
THEOREM NetSafe == Spec => []NetInv
<1>1. Init => NetInv
  BY NetInit
<1>2. NetInv /\ [Next]_vars => NetInv'
  BY NetStep
<1> QED
  BY <1>1, <1>2, PTL DEF Spec

\* No received frame is lost unless it was dropped or another came to its
\* descriptor, none is read twice and none is both, however far the cursor of e1k_recv_pkt strays from
\* the card's head.
THEOREM FramesSafe == Spec => []FramesAccounted
<1>1. NetInv => FramesAccounted
  BY DEF NetInv
<1> QED
  BY <1>1, NetSafe, PTL

\* As long as fewer frames than the ring has descriptors are outstanding, the
\* card sends every frame that was composed, once and in order, although
\* e1k_tx_get_pktbuf never asks whether the buffer at the tail is free.
THEOREM FifoSafe == Spec => []TxFifo
<1>1. NetInv => TxFifo
  BY DEF NetInv
<1> QED
  BY <1>1, NetSafe, PTL

\* The MAC a frame is sent to is the last one its address announced, for a
\* cache of any size: an entry that arp_cache_update cannot see because the
\* scan ends at an empty address never comes to light again before it is
\* written over.
THEOREM ArpSafe == Spec => []ArpTrue
<1>1. NetInv => ArpTrue
  BY LookupTrue DEF NetInv
<1> QED
  BY <1>1, NetSafe, PTL

(***************************************************************************)
(* GdbLink: the invariant of a session nothing has disturbed.              *)
(***************************************************************************)

\* What the stub has still to read.
line == input \o toStub

TrapReply == StopReply("trap")
IntReply == StopReply("int")
Sendable == Cmds \cup {"", "k", "none"}
Token == [t : Tokens, k : Sendable \cup {"int", "trap"}, n : 0..2]

\* The stub: the guest runs with a client attached; nobody is attached; a
\* client has just attached; the VM is held for the client.
Outside == pc \in {"guest", "poll", "recv"}
Runs == on /\ ~lock /\ ack /\ Outside
Gone == ~on /\ ~lock /\ Outside
Attaching == on /\ lock /\ ack /\ pc = "recv"
Holds == on /\ lock /\ ~ack
HoldsAt(p) == Holds /\ pc = p
Waits == HoldsAt("recv") /\ line = <<>>

\* The client's last packet, as it was sent.
Sent == {Packet(cmd, id), Damaged(cmd, id)}

\* The VM is held, and before rest the stub has at most what ends the command
\* before: the ack of its answer, and the memory a raw write sends.
Behind(rest) ==
    \/ HoldsAt("recv") /\ line \in {rest, <<Plus>> \o rest}
    \/ HoldsAt("ack_wr") /\ input = <<>> /\ toStub = <<Plus, RawData>> \o rest
    \/ HoldsAt("wr") /\ input = <<>> /\ toStub = <<RawData>> \o rest

\* The command was answered, and the stub is in the loop it goes on in.
Answered ==
    /\ line = <<>>
    /\ HoldsAt(IF cmd \in RawRead THEN "ack_rd" ELSE IF cmd \in RawWrite THEN "ack_wr" ELSE "recv")

\* Clients that came and went left acks behind; nobody has spoken since.
Left(rest) ==
    /\ toClient = <<>> \/ (toClient = <<TrapReply>> /\ lock)
    /\ \E j \in Seq({Plus}) :
        \/ Behind(j \o rest)
        \/ (Runs \/ Attaching) /\ line = j \o rest
        \/ Gone /\ j # <<>> /\ line = j \o rest

StoppedInv == cst = "stopped" => toClient = <<>> /\ Behind(<<>>) /\ cmd # "k"

AckInv ==
    (cst = "ack" /\ cmd # "k") =>
        \/ toClient = <<>> /\ \E p \in Sent : Behind(p)
        \/ toClient = <<Minus>> /\ Waits
        \/ toClient = <<Plus, Answer(id)>> /\ Answered
        \/ cmd \in Resume /\ toClient = <<Plus>> /\ Runs /\ line = <<>>
        \/ cmd \in Resume /\ toClient = <<Plus, TrapReply>> /\ Waits

AnswerInv ==
    (cst = "answer" /\ cmd # "k") => toClient = <<Answer(id)>> /\ Answered /\ cmd \notin Resume

RawInv ==
    cst = "raw" =>
        /\ cmd \in RawRead
        /\ \/ HoldsAt("ack_rd") /\ toClient = <<>> /\ input = <<>> /\ toStub = <<Plus>>
           \/ HoldsAt("rd") /\ toClient = <<>> /\ line = <<>>
           \/ Waits /\ toClient = <<RawData>>

\* After a resume.
WaitInv ==
    (cst = "wait" /\ cmd # "none") =>
        /\ cmd \in Resume /\ want = "any"
        /\ LET rest == IF intr THEN <<CtrlC>> ELSE <<>> IN
           \/ Runs /\ toClient = <<>> /\ line = rest
           \/ HoldsAt("recv") /\ line = rest /\ toClient \in {<<Answer(id)>>, <<TrapReply>>}
           \/ Waits /\ intr /\ toClient \in {<<IntReply>>, <<Answer(id), IntReply>>, <<TrapReply, IntReply>>}

\* After the interrupt an attached client begins with.
StopInv ==
    (cst = "wait" /\ cmd = "none") =>
        /\ want = "int" /\ intr
        /\ \/ Left(<<CtrlC>>)
           \/ Waits /\ toClient \in {<<IntReply>>, <<TrapReply, IntReply>>}

LeftInv == (cst = "attached" \/ (cst = "off" /\ cmd # "k")) => Left(<<>>) /\ (cst = "attached" => cmd = "none")

\* After a "k": under way, refused, or done.
NoNak(s) == \A i \in 1..Len(s) : s[i].t # "-"
KillInv ==
    (cst \in {"ack", "answer", "off"} /\ cmd = "k") =>
        \/ NoNak(toClient) /\ \E p \in Sent : Behind(p) \/ (Runs /\ line = p)
        \/ /\ cst = "ack" /\ toClient # <<>> /\ Head(toClient) = Minus /\ NoNak(Tail(toClient))
           /\ line = <<>> /\ (Runs \/ HoldsAt("recv"))
        \/ NoNak(toClient) /\ Gone /\ line = <<>>

SessionTypes ==
    /\ on \in BOOLEAN /\ lock \in BOOLEAN /\ ack \in BOOLEAN /\ id \in 0..1 /\ intr \in BOOLEAN
    /\ input \in Seq(Token) /\ toStub \in Seq(Token) /\ toClient \in Seq(Token)
    /\ pc \in {"guest", "poll", "recv", "ack_rd", "ack_wr", "rd", "wr"}
    /\ cst \in {"off", "attached", "stopped", "ack", "answer", "raw", "wait"}
    /\ cst \in {"ack", "answer"} => cmd \in Cmds \cup {"k"}
    /\ lock => pc \notin {"guest", "poll"}

LinkInv ==
    upset = {} =>
        /\ SessionTypes
        /\ cmd # "k" => stops = <<>> /\ ~odd
        /\ intr => cst = "wait"
        /\ StoppedInv /\ AckInv /\ AnswerInv /\ RawInv /\ WaitInv /\ StopInv /\ LeftInv /\ KillInv

(***************************************************************************)
(* Sequences of tokens.                                                    *)
(***************************************************************************)
\* So are the first and the last token of a packet.
LEMMA MarkTypes == Tok("$", "", 0) \in Token /\ Tok("#", "", 0) \in Token /\ Tok("?", "", 0) \in Token
<1>1. "" \in Sendable \cup {"int", "trap"} /\ 0 \in 0..2 /\ {"$", "#", "?"} \subseteq Tokens
  BY DEF Sendable, Tokens
<1> QED
  BY <1>1 DEF Tok, Token

\* Everything stub and client send is made of tokens.
LEMMA TokenTypes ==
  /\ Plus \in Token /\ Minus \in Token /\ CtrlC \in Token /\ RawData \in Token
  /\ TrapReply \in Token /\ IntReply \in Token
  /\ \A n \in 0..2 : Answer(n) \in Token
  /\ \A k \in Sendable, n \in 0..1 : Packet(k, n) \in Seq(Token) /\ Damaged(k, n) \in Seq(Token)
<1>1. /\ Plus \in Token /\ Minus \in Token /\ CtrlC \in Token /\ RawData \in Token
      /\ TrapReply \in Token /\ IntReply \in Token
      /\ \A n \in 0..2 : Answer(n) \in Token
  BY DEF Plus, Minus, CtrlC, RawData, TrapReply, IntReply, StopReply, Answer, Tokens, Tok, Token, Sendable
<1>2. ASSUME NEW k \in Sendable, NEW n \in 0..1
      PROVE  Packet(k, n) \in Seq(Token) /\ Damaged(k, n) \in Seq(Token)
  <2>1. Tok("$", "", 0) \in Token /\ Tok("#", "", 0) \in Token /\ Tok("?", "", 0) \in Token
    BY MarkTypes
  <2>2. Tok("cmd", k, n) \in Token
    <3> DEFINE K == Sendable \cup {"int", "trap"}
    <3>1. k \in K
      OBVIOUS
    <3>3. n \in 0..2
      OBVIOUS
    <3> HIDE DEF K
    <3>2. [t |-> "cmd", k |-> k, n |-> n] \in [t : Tokens, k : K, n : 0..2]
      BY <3>1, <3>3 DEF Tokens
    <3> QED
      BY <3>2, Zenon DEF Tok, Token, K
  <2>3. \A a, b, d \in Token : <<a, b, d>> \in Seq(Token)
    OBVIOUS
  <2> QED
    BY <2>1, <2>2, <2>3, Zenon DEF Packet, Damaged
<1> QED
  BY <1>1, <1>2

\* Two tokens make a sequence of two.
LEMMA Pairs ==
  ASSUME NEW a \in Token, NEW b \in Token
  PROVE  <<a>> \o <<b>> = <<a, b>>
<1>1. <<a>> \in Seq(Token) /\ <<b>> \in Seq(Token) /\ <<a, b>> \in Seq(Token)
  OBVIOUS
<1>2. /\ <<a>> \o <<b>> \in Seq(Token) /\ Len(<<a>> \o <<b>>) = 2
      /\ \A i \in 1..2 : (<<a>> \o <<b>>)[i] = IF i <= 1 THEN <<a>>[i] ELSE <<b>>[i - 1]
  BY <1>1, ConcatProperties
<1>3. \A i \in 1..2 : (<<a>> \o <<b>>)[i] = <<a, b>>[i]
  BY <1>2
<1> QED
  BY <1>1, <1>2, <1>3, SeqEqual

\* What the client or the stub appends comes behind everything under way.
LEMMA LineGrows ==
  ASSUME NEW i \in Seq(Token), NEW s \in Seq(Token), NEW x \in Seq(Token)
  PROVE  i \o (s \o x) = (i \o s) \o x
BY ConcatAssociative

\* Nothing on a line, or nothing put behind it.
LEMMA LineEmpty ==
  ASSUME NEW i \in Seq(Token), NEW s \in Seq(Token)
  PROVE  /\ i \o s \in Seq(Token)
         /\ i \o s = <<>> <=> i = <<>> /\ s = <<>>
         /\ i = <<>> => i \o s = s
         /\ s = <<>> => i \o s = i
BY ConcatProperties, ConcatEqualIffEmpty, ConcatEmptySeq

\* The stub consumes what it has read from the front of the line.
LEMMA LineTail ==
  ASSUME NEW T, NEW i \in Seq(T), NEW s \in Seq(T), i # <<>>
  PROVE  /\ Head(i \o s) = i[1] /\ i \o s # <<>>
         /\ Tail(i) \o s = Tail(i \o s)
         /\ Tail(i) \in Seq(T)
<1>1. i \o s \in Seq(T) /\ Len(i \o s) = Len(i) + Len(s) /\ Len(i) \in Nat \ {0} /\ Len(s) \in Nat
  BY ConcatProperties, EmptySeq, LenProperties
<1>2. i \o s # <<>>
  BY <1>1, ConcatEqualIffEmpty
<1>3. \A k \in 1..Len(i) + Len(s) : (i \o s)[k] = IF k <= Len(i) THEN i[k] ELSE s[k - Len(i)]
  BY ConcatProperties
<1>4. Head(i \o s) = i[1]
  BY <1>1, <1>2, <1>3
<1>5. /\ Tail(i) \in Seq(T) /\ Len(Tail(i)) = Len(i) - 1
      /\ \A k \in 1..Len(Tail(i)) : Tail(i)[k] = i[k + 1]
  BY HeadTailProperties
<1>6. /\ Tail(i \o s) \in Seq(T) /\ Len(Tail(i \o s)) = Len(i) + Len(s) - 1
      /\ \A k \in 1..Len(i) + Len(s) - 1 : Tail(i \o s)[k] = (i \o s)[k + 1]
  BY <1>1, <1>2, HeadTailProperties
<1>7. /\ Tail(i) \o s \in Seq(T) /\ Len(Tail(i) \o s) = Len(i) - 1 + Len(s)
      /\ \A k \in 1..Len(i) - 1 + Len(s) :
           (Tail(i) \o s)[k] = IF k <= Len(i) - 1 THEN Tail(i)[k] ELSE s[k - (Len(i) - 1)]
  BY <1>5, ConcatProperties
<1>8. \A k \in 1..Len(Tail(i) \o s) : (Tail(i) \o s)[k] = Tail(i \o s)[k]
  <2> SUFFICES ASSUME NEW k \in 1..Len(i) - 1 + Len(s)
               PROVE  (Tail(i) \o s)[k] = Tail(i \o s)[k]
    BY <1>7
  <2>1. CASE k <= Len(i) - 1
    BY <1>1, <1>3, <1>5, <1>6, <1>7, <2>1
  <2>2. CASE ~(k <= Len(i) - 1)
    BY <1>1, <1>3, <1>6, <1>7, <2>2
  <2> QED
    BY <2>1, <2>2
<1>9. Tail(i) \o s = Tail(i \o s)
  BY <1>1, <1>6, <1>7, <1>8, SeqEqual
<1> QED
  BY <1>2, <1>4, <1>5, <1>9

\* Tokens move from the channel into gdb_input.
LEMMA LineMoves ==
  ASSUME NEW i \in Seq(Token), NEW s \in Seq(Token), NEW n \in Nat, n <= Len(s)
  PROVE  /\ SubSeq(s, 1, n) \in Seq(Token) /\ SubSeq(s, n + 1, Len(s)) \in Seq(Token)
         /\ (i \o SubSeq(s, 1, n)) \o SubSeq(s, n + 1, Len(s)) = i \o s
<1>1. Len(s) \in Nat /\ \A k \in 1..Len(s) : s[k] \in Token
  BY LenProperties, ElementOfSeq
<1>2. SubSeq(s, 1, n) \in Seq(Token) /\ SubSeq(s, n + 1, Len(s)) \in Seq(Token)
  BY <1>1, SubSeqProperties
<1>3. ASSUME NEW a \in Seq(Token), NEW b \in Seq(Token)
      PROVE  (i \o a) \o b = i \o (a \o b)
  BY ConcatAssociative
<1>4. /\ 1 \in 1..Len(s) + 1 /\ n \in 1 - 1..Len(s) /\ Len(s) \in n..Len(s)
  BY <1>1
<1>5. SubSeq(s, 1, n) \o SubSeq(s, n + 1, Len(s)) = SubSeq(s, 1, Len(s))
  BY <1>4, ConcatAdjacentSubSeq, ZenonT(30)
<1>6. SubSeq(s, 1, Len(s)) = s
  BY SubSeqFull
<1>7. (i \o SubSeq(s, 1, n)) \o SubSeq(s, n + 1, Len(s)) = i \o (SubSeq(s, 1, n) \o SubSeq(s, n + 1, Len(s)))
  BY <1>2, <1>3, Zenon
<1> QED
  BY <1>2, <1>5, <1>6, <1>7

\* What tells the tokens apart.
LEMMA TokenKinds ==
  /\ Plus.t = "+" /\ Minus.t = "-" /\ CtrlC.t = "^C" /\ RawData.t = "raw"
  /\ TrapReply.t = "stop" /\ TrapReply.k = "trap" /\ IntReply.t = "stop" /\ IntReply.k = "int"
  /\ \A n : Answer(n).t = "answer" /\ Answer(n).n = n
BY DEF Plus, Minus, CtrlC, RawData, TrapReply, IntReply, StopReply, Answer, Tok

\* The parts of the client's last packet.
LEMMA SentIs ==
  ASSUME SessionTypes, cmd \in Cmds \cup {"k"}, NEW p \in Sent
  PROVE  /\ p \in Seq(Token) /\ Len(p) = 3 /\ p # <<>> /\ Head(p) = p[1]
         /\ p[1].t = "$" /\ p[2].t = "cmd" /\ p[2].k = cmd /\ p[2].n = id
         /\ (p = Packet(cmd, id) /\ p[3].t = "#") \/ (p = Damaged(cmd, id) /\ p[3].t = "?")
<1>1. p \in Seq(Token)
  BY TokenTypes DEF Sent, SessionTypes, Sendable
<1>2. /\ Tok("$", "", 0).t = "$" /\ Tok("#", "", 0).t = "#" /\ Tok("?", "", 0).t = "?"
      /\ Tok("cmd", cmd, id).t = "cmd" /\ Tok("cmd", cmd, id).k = cmd /\ Tok("cmd", cmd, id).n = id
  BY DEF Tok
<1>3. CASE p = Packet(cmd, id)
  <2>1. p = <<Tok("$", "", 0), Tok("cmd", cmd, id), Tok("#", "", 0)>>
    BY <1>3 DEF Packet
  <2>4. Len(p) = 3
    BY <2>1
  <2>5. p # <<>>
    BY <2>4, EmptySeq
  <2>2. Head(p) = p[1]
    BY <1>1, <2>5
  <2>3. p[1] = Tok("$", "", 0) /\ p[2] = Tok("cmd", cmd, id) /\ p[3] = Tok("#", "", 0)
    BY <2>1
  <2> QED
    BY <1>1, <1>2, <1>3, <2>2, <2>3, <2>4, <2>5
<1>4. CASE p = Damaged(cmd, id)
  <2>1. p = <<Tok("$", "", 0), Tok("cmd", cmd, id), Tok("?", "", 0)>>
    BY <1>4 DEF Damaged
  <2>4. Len(p) = 3
    BY <2>1
  <2>5. p # <<>>
    BY <2>4, EmptySeq
  <2>2. Head(p) = p[1]
    BY <1>1, <2>5
  <2>3. p[1] = Tok("$", "", 0) /\ p[2] = Tok("cmd", cmd, id) /\ p[3] = Tok("?", "", 0)
    BY <2>1
  <2> QED
    BY <1>1, <1>2, <1>4, <2>2, <2>3, <2>4, <2>5
<1> QED
  BY <1>3, <1>4 DEF Sent

(***************************************************************************)
(* The stub.                                                               *)
(***************************************************************************)

\* What a vm-exit and a read change keeps the invariant.
LEMMA MovesKeep ==
  ASSUME LinkInv, upset = {}, UNCHANGED client,
         on' = on, lock' = lock, ack' = ack, toClient' = toClient,
         Outside, Outside', lock => pc' = "recv",
         input' \in Seq(Token), toStub' \in Seq(Token), line' = line
  PROVE  LinkInv'
<1>0. UNCHANGED <<cst, cmd, id, want, stops, intr, odd>>
  BY DEF client
<1>1. SessionTypes /\ SessionTypes'
  BY <1>0 DEF LinkInv, SessionTypes, Outside
<1>2. ASSUME NEW r
      PROVE  Behind(r) => Behind(r)'
  BY <1>1 DEF Behind, HoldsAt, Holds, Outside, SessionTypes
<1>3. (Runs => Runs') /\ (Gone => Gone') /\ (Attaching => Attaching')
      /\ (HoldsAt("recv") => HoldsAt("recv")') /\ (Waits => Waits') /\ ~HoldsAt("ack_rd") /\ ~HoldsAt("rd")
  BY <1>1 DEF Runs, Gone, Attaching, HoldsAt, Holds, Waits, Outside, SessionTypes
<1>4. Answered => Answered'
  BY <1>0, <1>3 DEF Answered, HoldsAt, Holds, Outside
<1>5. ASSUME NEW r
      PROVE  Left(r) => Left(r)'
  BY <1>2, <1>3 DEF Left
<1>6. Sent' = Sent
  BY <1>0 DEF Sent
<1>7. StoppedInv' /\ AnswerInv' /\ RawInv' /\ LeftInv'
  BY <1>0, <1>2, <1>3, <1>4, <1>5 DEF LinkInv, StoppedInv, AnswerInv, RawInv, LeftInv
<1>8. AckInv' /\ WaitInv' /\ StopInv'
  BY <1>0, <1>2, <1>3, <1>4, <1>5, <1>6 DEF LinkInv, AckInv, WaitInv, StopInv
<1>9. KillInv'
  BY <1>0, <1>2, <1>3, <1>6 DEF LinkInv, KillInv
<1> QED
  BY <1>0, <1>1, <1>7, <1>8, <1>9 DEF LinkInv

\* A vm-exit without an event.
LEMMA ExitKeeps == LinkInv /\ Exit => LinkInv'
<1> SUFFICES ASSUME LinkInv, Exit, upset = {}
             PROVE  LinkInv'
  BY DEF LinkInv, Exit
<1>1. SessionTypes
  BY DEF LinkInv
<1>2. line' = line
  BY DEF Exit, line
<1> QED
  BY <1>1, <1>2, MovesKeep DEF Exit, SessionTypes, Outside

\* gdb_recv_packet ends when nothing remains and the VM is free.
LEMMA LeaveKeeps == LinkInv /\ Leave => LinkInv'
<1> SUFFICES ASSUME LinkInv, Leave, upset = {}
             PROVE  LinkInv'
  BY DEF LinkInv, Leave
<1>1. SessionTypes
  BY DEF LinkInv
<1>2. line' = line
  BY DEF Leave, line
<1> QED
  BY <1>1, <1>2, MovesKeep DEF Leave, SessionTypes, Outside

\* A read takes what has arrived.
LEMMA RecvKeeps == \A n \in 1..InputSz : LinkInv /\ Recv(n) => LinkInv'
<1> SUFFICES ASSUME NEW n \in 1..InputSz, LinkInv, Recv(n), upset = {}
             PROVE  LinkInv'
  BY DEF LinkInv, Recv
<1>1. SessionTypes
  BY DEF LinkInv
<1>2. n \in Nat /\ n <= Len(toStub)
  BY LinkAssumption DEF Recv
<1>3. input \in Seq(Token) /\ toStub \in Seq(Token)
  BY <1>1 DEF SessionTypes
<1>4. line' = line /\ input' \in Seq(Token) /\ toStub' \in Seq(Token)
  BY <1>2, <1>3, LineMoves, ConcatProperties DEF Recv, line
<1> QED
  BY <1>1, <1>4, MovesKeep DEF Recv, SessionTypes, Outside

\* The line is what gdb_input holds and what is still to be read.
LEMMA LineFacts ==
  ASSUME SessionTypes
  PROVE  /\ line \in Seq(Token) /\ input \in Seq(Token) /\ toStub \in Seq(Token)
         /\ input # <<>> => line # <<>> /\ Head(line) = input[1] /\ Tail(input) \in Seq(Token)
                            /\ Tail(input) \o toStub = Tail(line)
         /\ line = <<>> => input = <<>> /\ toStub = <<>>
         /\ input = <<>> => line = toStub
         /\ line # <<>> => Len(line) \in Nat \ {0}
<1>1. input \in Seq(Token) /\ toStub \in Seq(Token)
  BY DEF SessionTypes
<1>2. line = input \o toStub
  BY DEF line
<1> QED
  BY <1>1, <1>2, LineEmpty, LineTail, EmptySeq

\* The stub is reading: what it has before rest is at most an ack.
LEMMA BehindReading ==
  ASSUME NEW r \in Seq(Token), Behind(r), pc = "recv"
  PROVE  /\ HoldsAt("recv")
         /\ line = r \/ (line # <<>> /\ Head(line) = Plus /\ Tail(line) = r)
BY TokenTypes DEF Behind, HoldsAt

\* What is appended is no nak.
LEMMA NoNakGrows ==
  ASSUME NEW s \in Seq(Token), NoNak(s), NEW x \in Token, x.t # "-"
  PROVE  NoNak(s \o <<x>>)
<1>1. <<x>> \in Seq(Token) /\ Len(<<x>>) = 1 /\ <<x>>[1] = x
  OBVIOUS
<1>2. /\ Len(s \o <<x>>) = Len(s) + 1 /\ Len(s) \in Nat
      /\ \A i \in 1..Len(s) + 1 : (s \o <<x>>)[i] = IF i <= Len(s) THEN s[i] ELSE <<x>>[i - Len(s)]
  BY <1>1, ConcatProperties, LenProperties
<1>3. ASSUME NEW i \in 1..Len(s \o <<x>>)
      PROVE  (s \o <<x>>)[i].t # "-"
  <2>1. CASE i <= Len(s)
    BY <1>2, <2>1 DEF NoNak
  <2>2. CASE ~(i <= Len(s))
    <3>1. i - Len(s) = 1
      BY <1>2, <2>2
    <3> QED
      BY <1>1, <1>2, <2>2, <3>1
  <2> QED
    BY <2>1, <2>2
<1> QED
  BY <1>3 DEF NoNak

\* What is left has no nak.
LEMMA NoNakTail ==
  ASSUME NEW s \in Seq(Token), s # <<>>
  PROVE  /\ NoNak(s) => NoNak(Tail(s)) /\ Head(s).t # "-"
         /\ NoNak(<<>>)
<1>1. /\ Len(Tail(s)) = Len(s) - 1 /\ \A i \in 1..Len(Tail(s)) : Tail(s)[i] = s[i + 1]
  BY HeadTailProperties
<1>2. Len(s) \in Nat \ {0}
  BY EmptySeq
<1>3. ASSUME NoNak(s), NEW i \in 1..Len(Tail(s))
      PROVE  Tail(s)[i].t # "-"
  BY <1>1, <1>2, <1>3 DEF NoNak
<1>4. NoNak(s) => Head(s).t # "-"
  BY <1>2 DEF NoNak
<1> QED
  BY <1>3, <1>4 DEF NoNak

\* The stop reply of an event uses up the ack that was sent ahead.
LEMMA GuestEventKeeps == LinkInv /\ GuestEvent => LinkInv'
<1> SUFFICES ASSUME LinkInv, GuestEvent, upset = {}
             PROVE  LinkInv'
  BY DEF LinkInv, GuestEvent
<1>0. UNCHANGED <<cst, cmd, id, want, stops, intr, odd>> /\ pc = "guest" /\ on
  BY DEF GuestEvent, client
<1>1. SessionTypes
  BY DEF LinkInv
<1>2. /\ toClient' = toClient \o (IF ack THEN <<TrapReply>> ELSE <<Plus, TrapReply>>)
      /\ ack' = FALSE /\ lock' = TRUE /\ on' = on /\ pc' = "recv" /\ line' = line /\ input' = input /\ toStub' = toStub
  BY DEF GuestEvent, Preempt, SendPacket, Says, TrapReply, line
<1>3. SessionTypes' /\ toClient \in Seq(Token)
  <2>1. <<TrapReply>> \in Seq(Token) /\ <<Plus, TrapReply>> \in Seq(Token) /\ toClient \in Seq(Token)
    BY <1>1, TokenTypes DEF SessionTypes
  <2>2. toClient' \in Seq(Token)
    BY <1>2, <2>1, ConcatProperties
  <2> QED
    BY <1>0, <1>1, <1>2, <2>1, <2>2 DEF SessionTypes
<1>4. ASSUME NEW r
      PROVE  ~Behind(r)
  BY <1>0 DEF Behind, HoldsAt
<1>5. ASSUME NEW r, line = r
      PROVE  Behind(r)'
  BY <1>0, <1>2, <1>5 DEF Behind, HoldsAt, Holds
<1>6. ~lock /\ ~Gone /\ ~Attaching /\ (\A p : ~HoldsAt(p) \/ p = "guest") /\ ~HoldsAt("guest") /\ ~Waits
  BY <1>0, <1>1 DEF Gone, Attaching, HoldsAt, Holds, Waits, SessionTypes
<1>7. Runs => ack /\ toClient' = toClient \o <<TrapReply>>
  BY <1>2 DEF Runs
<1>8. ~Answered
  BY <1>6 DEF Answered
<1>9. HoldsAt("recv")' /\ (line = <<>> => Waits')
  BY <1>0, <1>2 DEF HoldsAt, Holds, Waits
<1>10. StoppedInv' /\ AnswerInv' /\ RawInv'
  BY <1>0, <1>4, <1>6, <1>8 DEF LinkInv, StoppedInv, AnswerInv, RawInv
<1>11. <<Plus>> \o <<TrapReply>> = <<Plus, TrapReply>> /\ <<>> \o <<TrapReply>> = <<TrapReply>>
  BY TokenTypes, Pairs, ConcatEmptySeq
<1>12. AckInv'
  BY <1>0, <1>4, <1>6, <1>7, <1>8, <1>9, <1>11, <1>2 DEF LinkInv, AckInv
<1>13. WaitInv'
  BY <1>0, <1>2, <1>6, <1>7, <1>9, <1>11 DEF LinkInv, WaitInv
<1>14. ASSUME NEW r
       PROVE  Left(r) => Left(r)'
  <2> SUFFICES ASSUME Left(r)
               PROVE  Left(r)'
    OBVIOUS
  <2>1. PICK j \in Seq({Plus}) : Runs /\ line = j \o r
    BY <1>4, <1>6 DEF Left
  <2>2. toClient = <<>>
    BY <1>6 DEF Left
  <2>3. Behind(j \o r)'
    BY <1>5, <2>1
  <2> QED
    BY <1>2, <1>7, <1>11, <2>1, <2>2, <2>3 DEF Left
<1>15. StopInv' /\ LeftInv'
  BY <1>0, <1>6, <1>14 DEF LinkInv, StopInv, LeftInv
<1>16. KillInv'
  <2> SUFFICES ASSUME cst \in {"ack", "answer", "off"}, cmd = "k"
               PROVE  KillInv'
    BY <1>0 DEF KillInv
  <2>1. Runs
    BY <1>4, <1>6 DEF LinkInv, KillInv
  <2>2. TrapReply \in Token /\ TrapReply.t # "-"
    BY TokenTypes, TokenKinds
  <2>3. Sent' = Sent
    BY <1>0 DEF Sent
  <2>4. CASE NoNak(toClient) /\ \E p \in Sent : line = p
    <3>1. NoNak(toClient')
      BY <1>3, <1>7, <2>1, <2>2, <2>4, NoNakGrows
    <3> QED
      BY <1>0, <1>5, <2>3, <2>4, <3>1 DEF KillInv
  <2>5. CASE /\ cst = "ack" /\ toClient # <<>> /\ Head(toClient) = Minus
             /\ NoNak(Tail(toClient)) /\ line = <<>>
    <3>1. toClient' # <<>> /\ Head(toClient') = Minus /\ Tail(toClient') = Tail(toClient) \o <<TrapReply>>
      <4>1. <<TrapReply>> \in Seq(Token) /\ Head(toClient) = toClient[1]
        BY <1>3, <2>2, <2>5
      <4> QED
        BY <1>3, <1>7, <2>1, <2>5, <4>1, LineTail
    <3>2. NoNak(Tail(toClient'))
      BY <1>3, <2>2, <2>5, <3>1, HeadTailProperties, NoNakGrows
    <3> QED
      BY <1>0, <1>2, <1>9, <2>5, <3>1, <3>2 DEF KillInv
  <2> QED
    BY <1>4, <1>6, <2>4, <2>5 DEF LinkInv, KillInv
<1> QED
  BY <1>0, <1>3, <1>10, <1>12, <1>13, <1>15, <1>16 DEF LinkInv

\* Acks in front of what was sent last.
LEMMA Acks ==
  ASSUME NEW j \in Seq({Plus}), NEW r \in Seq(Token)
  PROVE  /\ j \in Seq(Token) /\ j \o r \in Seq(Token)
         /\ j = <<>> => j \o r = r
         /\ j # <<>> => /\ j \o r # <<>> /\ Head(j \o r) = Plus
                        /\ Tail(j) \in Seq({Plus}) /\ Tail(j \o r) = Tail(j) \o r
<1>1. Len(j) \in Nat /\ \A i \in 1..Len(j) : j[i] = Plus
  BY LenProperties, ElementOfSeq
<1>2. j \in Seq(Token)
  BY <1>1, TokenTypes, SeqDef
<1>3. j \o r \in Seq(Token) /\ (j = <<>> => j \o r = r)
  BY <1>2, LineEmpty
<1>4. ASSUME j # <<>>
      PROVE  /\ j \o r # <<>> /\ Head(j \o r) = Plus
             /\ Tail(j) \in Seq({Plus}) /\ Tail(j \o r) = Tail(j) \o r
  <2>1. j[1] = Plus
    BY <1>1, <1>4, EmptySeq
  <2>2. /\ Head(j \o r) = j[1] /\ j \o r # <<>> /\ Tail(j) \o r = Tail(j \o r)
    BY <1>2, <1>4, LineTail
  <2>3. Tail(j) \in Seq({Plus})
    BY <1>4, HeadTailProperties
  <2> QED
    BY <2>1, <2>2, <2>3
<1> QED
  BY <1>2, <1>3, <1>4

\* The next byte of a line nobody has spoken on is an ack, or what came last.
LEMMA LeftReads ==
  ASSUME SessionTypes, NEW r \in Seq(Token), Left(r), pc = "recv", line # <<>>
  PROVE  \/ line = r /\ (HoldsAt("recv") \/ Runs \/ Attaching)
         \/ /\ Head(line) = Plus
            /\ HoldsAt("recv") \/ Runs \/ Attaching \/ Gone
            /\ \E j \in Seq({Plus}) : Tail(line) = j \o r
<1>1. PICK j \in Seq({Plus}) : \/ Behind(j \o r)
                               \/ (Runs \/ Attaching) /\ line = j \o r
                               \/ Gone /\ j # <<>> /\ line = j \o r
  BY DEF Left
<1>2. j \o r \in Seq(Token)
  BY Acks
<1>3. CASE Behind(j \o r) /\ line # j \o r
  BY <1>2, <1>3, BehindReading
<1>4. CASE line = j \o r /\ j # <<>> /\ (HoldsAt("recv") \/ Runs \/ Attaching \/ Gone)
  BY <1>4, Acks
<1>5. CASE line = j \o r /\ j = <<>> /\ (HoldsAt("recv") \/ Runs \/ Attaching)
  BY <1>5, Acks
<1>6. Behind(j \o r) => HoldsAt("recv")
  BY <1>2, BehindReading
<1> QED
  BY <1>1, <1>3, <1>4, <1>5, <1>6

\* The byte the stub consumes is an ack of the client's or its interrupt.
LEMMA ConsumeByteKeeps == LinkInv /\ ConsumeByte => LinkInv'
<1> SUFFICES ASSUME LinkInv, ConsumeByte, upset = {}
             PROVE  LinkInv'
  BY DEF LinkInv, ConsumeByte
<1>0. /\ UNCHANGED <<cst, cmd, id, want, stops, intr, odd>> /\ pc = "recv" /\ pc' = "recv"
      /\ toStub' = toStub /\ input # <<>> /\ input' = Tail(input) /\ input[1].t # "$"
  BY DEF ConsumeByte, client
<1>1. SessionTypes
  BY DEF LinkInv
<1>2. /\ line \in Seq(Token) /\ line # <<>> /\ Head(line) = input[1] /\ Tail(input) \in Seq(Token)
      /\ Tail(input) \o toStub = Tail(line) /\ toClient \in Seq(Token) /\ Tail(line) \in Seq(Token)
  <2>1. line \in Seq(Token) /\ line # <<>> /\ Tail(line) \in Seq(Token)
    BY <1>0, <1>1, LineFacts, HeadTailProperties
  <2> QED
    BY <1>0, <1>1, <2>1, LineFacts DEF SessionTypes
<1>3. line' = Tail(line)
  BY <1>0, <1>2 DEF line
<1>4. Sent' = Sent
  BY <1>0 DEF Sent
<1>5. ~Waits /\ ~Answered /\ ~HoldsAt("ack_rd") /\ ~HoldsAt("rd") /\ line # <<>> /\ CtrlC.t = "^C" /\ Plus.t = "+"
  BY <1>0, <1>2, TokenKinds DEF Waits, Answered, HoldsAt
<1>6. CASE Head(line) = Plus
  <2>1. on' = TRUE /\ lock' = (IF on THEN lock ELSE TRUE) /\ ack' = ack /\ toClient' = toClient
    BY <1>0, <1>2, <1>5, <1>6 DEF ConsumeByte
  <2>2. SessionTypes'
    BY <1>0, <1>1, <1>2, <2>1 DEF SessionTypes
  <2>3. ASSUME NEW r \in Seq(Token), Behind(r), line # r
        PROVE  Behind(r)'
    <3>1. HoldsAt("recv") /\ Tail(line) = r
      BY <1>0, <2>3, BehindReading
    <3> QED
      BY <1>0, <1>3, <2>1, <3>1 DEF Behind, HoldsAt, Holds
  <2>4. /\ HoldsAt("recv") => HoldsAt("recv")'
        /\ Runs => Runs'
        /\ Attaching => Attaching'
        /\ Gone => HoldsAt("recv")' \/ Attaching'
    BY <1>0, <1>1, <2>1 DEF HoldsAt, Holds, Runs, Attaching, Gone, Outside, SessionTypes
  <2>5. ASSUME NEW r \in Seq(Token), Left(r), line # r
        PROVE  Left(r)'
    <3>1. PICK j \in Seq({Plus}) : Tail(line) = j \o r
      BY <1>0, <1>1, <1>2, <2>5, LeftReads
    <3>2. HoldsAt("recv") \/ Runs \/ Attaching \/ Gone
      BY <1>0, <1>1, <1>2, <2>5, LeftReads
    <3>3. HoldsAt("recv")' \/ Runs' \/ Attaching'
      BY <2>4, <3>2
    <3>4. Behind(j \o r)' \/ ((Runs' \/ Attaching') /\ line' = j \o r)
      BY <1>3, <3>1, <3>3 DEF Behind
    <3>5. toClient' = <<>> \/ (toClient' = <<TrapReply>> /\ lock')
      BY <1>1, <2>1, <2>5 DEF Left, SessionTypes
    <3> QED
      BY <3>4, <3>5 DEF Left
  <2>6. <<>> \in Seq(Token) /\ <<CtrlC>> \in Seq(Token) /\ Head(<<CtrlC>>) = CtrlC
    BY TokenTypes
  <2>7. StoppedInv' /\ LeftInv' /\ StopInv'
    BY <1>0, <1>2, <1>5, <1>6, <2>1, <2>3, <2>5, <2>6 DEF LinkInv, StoppedInv, LeftInv, StopInv
  <2>8. ASSUME cst \in {"ack", "answer"} \/ cmd = "k", NEW p \in Sent
        PROVE  line # p /\ p \in Seq(Token)
    BY <1>0, <1>1, <1>2, <2>8, SentIs DEF SessionTypes
  <2>9. AckInv' /\ AnswerInv' /\ RawInv'
    BY <1>0, <1>4, <1>5, <2>1, <2>3, <2>8 DEF LinkInv, AckInv, AnswerInv, RawInv, Waits, Answered
  <2>10. WaitInv'
    BY <1>5, <1>6, <1>0, <2>6 DEF LinkInv, WaitInv
  <2>11. KillInv'
    BY <1>0, <1>4, <1>5, <2>1, <2>3, <2>8 DEF LinkInv, KillInv
  <2> QED
    BY <1>0, <2>2, <2>7, <2>9, <2>10, <2>11 DEF LinkInv
<1>7. CASE Head(line) = CtrlC
  <2>1. toClient' = toClient \o <<IntReply>> /\ ack' = FALSE /\ lock' = TRUE /\ on' = on
    BY <1>0, <1>2, <1>5, <1>7 DEF ConsumeByte, Preempt, SendPacket, Says, IntReply
  <2>2. SessionTypes'
    <3>1. <<IntReply>> \in Seq(Token)
      BY TokenTypes
    <3>2. toClient' \in Seq(Token)
      BY <1>2, <2>1, <3>1, ConcatProperties
    <3> QED
      BY <1>0, <1>1, <1>2, <2>1, <3>2 DEF SessionTypes
  <2>3. <<>> \in Seq(Token) /\ <<CtrlC>> \in Seq(Token) /\ Head(<<CtrlC>>) = CtrlC /\ Tail(<<CtrlC>>) = <<>> /\ CtrlC # Plus
    BY <1>5, TokenTypes
  <2>4. /\ <<>> \o <<IntReply>> = <<IntReply>> /\ <<TrapReply>> \o <<IntReply>> = <<TrapReply, IntReply>>
        /\ <<Answer(id)>> \o <<IntReply>> = <<Answer(id), IntReply>>
    <3>1. Answer(id) \in Token /\ IntReply \in Token /\ TrapReply \in Token
      BY <1>1, TokenTypes DEF SessionTypes
    <3> QED
      BY <3>1, Pairs, ConcatEmptySeq
  <2>5. ASSUME NEW r \in Seq(Token), Behind(r)
        PROVE  line = r
    BY <1>0, <1>7, <2>3, <2>5, BehindReading
  <2>6. ASSUME NEW r \in Seq(Token), Left(r)
        PROVE  line = r /\ (HoldsAt("recv") \/ Runs \/ Attaching)
    BY <1>0, <1>1, <1>2, <1>7, <2>3, <2>6, LeftReads
  <2>7. ASSUME cst \in {"ack", "answer"} \/ cmd = "k", NEW p \in Sent
        PROVE  line # p /\ p \in Seq(Token)
    BY <1>0, <1>1, <1>2, <2>7, SentIs DEF SessionTypes
  <2>8. StoppedInv' /\ LeftInv'
    BY <1>0, <1>5, <2>3, <2>5, <2>6 DEF LinkInv, StoppedInv, LeftInv
  <2>9. AckInv' /\ AnswerInv' /\ RawInv'
    BY <1>0, <1>5, <2>5, <2>7 DEF LinkInv, AckInv, AnswerInv, RawInv
  <2>10. KillInv'
    BY <1>0, <1>5, <2>5, <2>7 DEF LinkInv, KillInv
  <2>11. (HoldsAt("recv") \/ Runs \/ Attaching) /\ line = <<CtrlC>> => Waits'
    BY <1>0, <1>3, <2>1, <2>3 DEF Waits, HoldsAt, Holds, Runs, Attaching
  <2>12. WaitInv'
    BY <1>0, <1>5, <2>1, <2>4, <2>11 DEF LinkInv, WaitInv
  <2>13. StopInv'
    <3>1. Left(<<CtrlC>>) => toClient \in {<<>>, <<TrapReply>>}
      BY DEF Left
    <3> QED
      BY <1>0, <1>5, <2>1, <2>3, <2>4, <2>6, <2>11, <3>1 DEF LinkInv, StopInv
  <2> QED
    BY <1>0, <2>2, <2>8, <2>9, <2>10, <2>12, <2>13 DEF LinkInv
<1>8. Head(line) \in {Plus, CtrlC}
  <2>1. <<>> \in Seq(Token) /\ <<CtrlC>> \in Seq(Token) /\ Head(<<CtrlC>>) = CtrlC
    BY TokenTypes
  <2>2. ASSUME NEW r \in Seq(Token), Behind(r), line # r
        PROVE  Head(line) = Plus
    BY <1>0, <2>2, BehindReading
  <2>3. ASSUME NEW r \in Seq(Token), Left(r), line # r
        PROVE  Head(line) = Plus
    BY <1>0, <1>1, <1>2, <2>3, LeftReads
  <2>4. ASSUME cst \in {"ack", "answer"} \/ cmd = "k", NEW p \in Sent
        PROVE  line # p /\ p \in Seq(Token)
    BY <1>0, <1>1, <1>2, <2>4, SentIs DEF SessionTypes
  <2>5. cst \in {"off", "attached", "stopped", "ack", "answer", "raw", "wait"}
    BY <1>1 DEF SessionTypes
  <2>6. cst = "stopped" => Head(line) = Plus
    BY <1>5, <2>1, <2>2 DEF LinkInv, StoppedInv
  <2>7. cst = "attached" \/ (cst = "off" /\ cmd # "k") => Head(line) = Plus
    BY <1>5, <2>1, <2>3 DEF LinkInv, LeftInv
  <2>8. cst # "raw"
    BY <1>5 DEF LinkInv, RawInv
  <2>9. cst = "wait" => Head(line) \in {Plus, CtrlC}
    BY <1>5, <2>1, <2>3 DEF LinkInv, WaitInv, StopInv
  <2>10. cst \in {"ack", "answer"} /\ cmd # "k" => Head(line) = Plus
    BY <1>5, <2>2, <2>4 DEF LinkInv, AckInv, AnswerInv
  <2>11. cst \in {"ack", "answer", "off"} /\ cmd = "k" => Head(line) = Plus
    BY <1>5, <2>2, <2>4 DEF LinkInv, KillInv
  <2> QED
    BY <2>5, <2>6, <2>7, <2>8, <2>9, <2>10, <2>11
<1> QED
  BY <1>6, <1>7, <1>8

\* What the stub parses is the packet the client waits about, whole.
LEMMA PacketRead ==
  ASSUME LinkInv, upset = {}, pc = "recv", Complete, input[1].t = "$"
  PROVE  /\ cmd \in Cmds \cup {"k"} /\ cst \in {"ack", "answer", "off"}
         /\ cmd # "k" => cst = "ack" /\ toClient = <<>> /\ HoldsAt("recv")
         /\ cmd = "k" => NoNak(toClient) /\ (HoldsAt("recv") \/ Runs)
         /\ input[2].k = cmd /\ input[2].n = id /\ toStub = <<>>
         /\ SubSeq(input, End + 1, Len(input)) = <<>> /\ SubSeq(input, 4, Len(input)) = <<>>
<1>1. SessionTypes
  BY DEF LinkInv
<1>2. /\ input # <<>> /\ Ends # {} /\ line \in Seq(Token) /\ line # <<>> /\ Head(line) = input[1]
      /\ input \in Seq(Token) /\ toStub \in Seq(Token)
  BY <1>1, LineFacts DEF Complete
<1>3. ~Waits /\ ~Answered /\ ~HoldsAt("ack_rd") /\ ~HoldsAt("rd")
  BY <1>2 DEF Waits, Answered, HoldsAt
<1>4. Head(line) \notin {Plus, CtrlC}
  BY <1>2, TokenKinds
<1>5. <<>> \in Seq(Token) /\ <<CtrlC>> \in Seq(Token) /\ Head(<<CtrlC>>) = CtrlC
  BY TokenTypes
<1>6. ASSUME NEW r \in Seq(Token), Behind(r)
      PROVE  line = r /\ HoldsAt("recv")
  BY <1>4, <1>6, BehindReading
<1>7. ASSUME NEW r \in Seq(Token), Left(r)
      PROVE  line = r
  BY <1>1, <1>2, <1>4, <1>7, LeftReads
<1>8. ASSUME cst \in {"ack", "answer"} \/ cmd = "k", NEW p \in Sent
      PROVE  p \in Seq(Token)
  BY <1>1, <1>8, SentIs DEF SessionTypes
<1>9. cst \notin {"stopped", "attached", "raw", "wait"} /\ ~(cst = "off" /\ cmd # "k")
  <2>1. cst # "stopped"
    BY <1>2, <1>5, <1>6 DEF LinkInv, StoppedInv
  <2>2. cst # "attached" /\ ~(cst = "off" /\ cmd # "k")
    BY <1>2, <1>5, <1>7 DEF LinkInv, LeftInv
  <2>3. cst # "raw"
    BY <1>2, <1>3 DEF LinkInv, RawInv
  <2>4. cst # "wait"
    BY <1>2, <1>3, <1>4, <1>5, <1>7 DEF LinkInv, WaitInv, StopInv
  <2> QED
    BY <2>1, <2>2, <2>3, <2>4
<1>10. cst \in {"ack", "answer", "off"} /\ cmd \in Cmds \cup {"k"}
  BY <1>1, <1>9 DEF SessionTypes
<1>11. cmd # "k" => cst = "ack" /\ toClient = <<>> /\ HoldsAt("recv") /\ \E p \in Sent : line = p
  BY <1>2, <1>3, <1>6, <1>8, <1>9, <1>10 DEF LinkInv, AckInv, AnswerInv
<1>12. cmd = "k" => NoNak(toClient) /\ (HoldsAt("recv") \/ Runs) /\ \E p \in Sent : line = p
  BY <1>2, <1>6, <1>8, <1>10 DEF LinkInv, KillInv
<1>13. PICK p \in Sent : line = p
  BY <1>11, <1>12
<1>14. /\ Len(line) = 3 /\ line[1].t = "$" /\ line[2].t = "cmd" /\ line[2].k = cmd /\ line[2].n = id
  BY <1>1, <1>10, <1>13, SentIs
<1>15. /\ Len(input) \in Nat /\ Len(toStub) \in Nat /\ Len(input) + Len(toStub) = 3
       /\ \A i \in 1..Len(input) : line[i] = input[i]
  BY <1>2, <1>14, ConcatProperties, LenProperties DEF line
<1>16. \A j \in Ends : j = 3 /\ Len(input) = 3
  <2> SUFFICES ASSUME NEW j \in Ends
               PROVE  j = 3 /\ Len(input) = 3
    OBVIOUS
  <2>1. j \in 1..Len(input) /\ line[j].t \in {"#", "?"}
    BY <1>15 DEF Ends
  <2>2. j # 1 /\ j # 2
    BY <1>14, <2>1
  <2>3. ASSUME NEW a \in Nat, NEW b \in Nat, a + b = 3, j \in 1..a
        PROVE  j = 3 /\ a = 3
    BY <2>2, <2>3
  <2> QED
    BY <1>15, <2>1, <2>3, Zenon
<1>17. Len(input) = 3 /\ toStub = <<>>
  <2>1. Len(input) = 3
    BY <1>2, <1>16, Zenon
  <2>2. ASSUME NEW a \in Nat, 3 + a = 3
        PROVE  a = 0
    BY <2>2
  <2>3. Len(toStub) = 0
    BY <1>15, <2>1, <2>2, Zenon
  <2> QED
    BY <1>2, <2>1, <2>3, EmptySeq
<1>18. End = 3
  <2>1. \E j \in Ends : \A i \in Ends : j <= i
    BY <1>2, <1>16
  <2>2. End \in Ends
    BY <2>1, Zenon DEF End
  <2> QED
    BY <1>16, <2>2
<1>19. SubSeq(input, 4, Len(input)) = <<>>
  BY <1>2, <1>17, SubSeqEmpty
<1> QED
  BY <1>10, <1>11, <1>12, <1>14, <1>15, <1>17, <1>18, <1>19

\* An answer brings no nak.
LEMMA NoNakAnswered ==
  ASSUME NEW s \in Seq(Token), NoNak(s), NEW n \in 0..2
  PROVE  NoNak(s \o <<Plus, Answer(n)>>)
<1>1. /\ Plus \in Token /\ Plus.t # "-" /\ Answer(n) \in Token /\ Answer(n).t # "-"
      /\ <<Plus>> \in Seq(Token) /\ <<Answer(n)>> \in Seq(Token)
  BY TokenTypes, TokenKinds
<1>2. s \o <<Plus>> \in Seq(Token) /\ NoNak(s \o <<Plus>>)
  BY <1>1, NoNakGrows, ConcatProperties
<1>3. NoNak((s \o <<Plus>>) \o <<Answer(n)>>)
  BY <1>1, <1>2, NoNakGrows
<1>4. (s \o <<Plus>>) \o <<Answer(n)>> = s \o <<Plus, Answer(n)>>
  BY <1>1, LineGrows, Pairs
<1> QED
  BY <1>3, <1>4

\* The nak of a damaged packet meets the client that waits for an ack.
LEMMA ConsumeDamagedKeeps == LinkInv /\ ConsumeDamaged => LinkInv'
<1> SUFFICES ASSUME LinkInv, ConsumeDamaged, upset = {}, upset' = {}
             PROVE  LinkInv'
  <2>1. upset' = {} => upset = {} \/ ~ConsumeDamaged
    BY DEF ConsumeDamaged
  <2> QED
    BY <2>1 DEF LinkInv
<1>0. /\ UNCHANGED <<cst, cmd, id, want, stops, intr, odd>> /\ pc = "recv" /\ pc' = "recv"
      /\ on' = on /\ lock' = lock /\ ack' = ack /\ toStub' = toStub /\ toClient' = toClient \o <<Minus>>
      /\ input' = SubSeq(input, End + 1, Len(input)) /\ Complete /\ input[1].t = "$"
  BY DEF ConsumeDamaged, client, Says
<1>1. cst = "ack" /\ toClient = <<>>
  BY DEF ConsumeDamaged
<1>2. SessionTypes
  BY DEF LinkInv
<1>3. /\ HoldsAt("recv") \/ (cmd = "k" /\ Runs)
      /\ input' = <<>> /\ toStub' = <<>>
  BY <1>0, PacketRead
<1>4. line' = <<>>
  BY <1>3, LineEmpty DEF line
<1>5. toClient' = <<Minus>> /\ <<Minus>> \in Seq(Token) /\ Head(<<Minus>>) = Minus /\ Tail(<<Minus>>) = <<>> /\ <<Minus>> # <<>>
  BY <1>0, <1>1, TokenTypes, LineEmpty
<1>6. SessionTypes'
  BY <1>0, <1>2, <1>3, <1>5 DEF SessionTypes
<1>7. HoldsAt("recv")' \/ (cmd = "k" /\ Runs')
  BY <1>0, <1>3 DEF HoldsAt, Holds, Runs, Outside
<1>8. AckInv'
  BY <1>0, <1>4, <1>5, <1>7 DEF AckInv, Waits
<1>9. KillInv'
  BY <1>0, <1>1, <1>4, <1>5, <1>7 DEF KillInv, NoNak
<1>10. StoppedInv' /\ AnswerInv' /\ RawInv' /\ WaitInv' /\ StopInv' /\ LeftInv'
  BY <1>0, <1>1 DEF StoppedInv, AnswerInv, RawInv, WaitInv, StopInv, LeftInv
<1> QED
  BY <1>0, <1>6, <1>8, <1>9, <1>10 DEF LinkInv

\* A handler answers in one of four ways, or refuses.
LEMMA ProcessKeeps == LinkInv /\ Process => LinkInv'
<1> SUFFICES ASSUME LinkInv, Process, upset = {}
             PROVE  LinkInv'
  BY DEF LinkInv, Process
<1>0. /\ UNCHANGED <<cst, cmd, id, want, stops, intr, odd>> /\ pc = "recv" /\ toStub' = toStub
      /\ input' = SubSeq(input, 4, Len(input)) /\ Complete /\ input[1].t = "$"
  BY DEF Process, client
<1>1. SessionTypes
  BY DEF LinkInv
<1>2. /\ cmd \in Cmds \cup {"k"} /\ cst \in {"ack", "answer", "off"}
      /\ cmd # "k" => cst = "ack" /\ toClient = <<>> /\ HoldsAt("recv")
      /\ cmd = "k" => NoNak(toClient)
      /\ input[2].k = cmd /\ input[2].n = id /\ input' = <<>> /\ toStub' = <<>>
  BY <1>0, PacketRead
<1>3. line' = <<>>
  BY <1>2, LineEmpty DEF line
<1>4. CmdResume(cmd, id) \/ CmdKill(cmd, id) \/ CmdOther(cmd, id) \/ CmdRefused(cmd, id) \/ CmdRaw(cmd, id)
  BY <1>2 DEF Process
<1>5. /\ <<Plus>> \in Seq(Token) /\ <<Plus, Answer(id)>> \in Seq(Token) /\ toClient \in Seq(Token)
      /\ <<>> \o <<Plus>> = <<Plus>> /\ <<>> \o <<Plus, Answer(id)>> = <<Plus, Answer(id)>>
  <2>1. Plus \in Token /\ Answer(id) \in Token /\ toClient \in Seq(Token)
    BY <1>1, TokenTypes DEF SessionTypes
  <2>2. <<Plus>> \in Seq(Token) /\ <<Plus, Answer(id)>> \in Seq(Token)
    BY <2>1
  <2> QED
    BY <2>1, <2>2, ConcatEmptySeq
<1>6. cmd \in Resume \/ cmd \in OneAnswer \/ cmd \in RawRead \cup RawWrite \/ cmd = "k"
  BY <1>2, CmdsAssumption
<1>7. /\ "k" \notin Resume /\ "k" \notin RawRead \cup RawWrite
      /\ \A c \in Resume : c \notin RawRead \cup RawWrite
      /\ \A c \in RawRead : c \notin RawWrite
  BY DEF Resume, RawRead, RawWrite
<1>8. /\ "k" \notin OneAnswer
      /\ \A c \in OneAnswer : c \notin RawRead \cup RawWrite
  BY DEF OneAnswer, RawRead, RawWrite, ThreadCmds, GprCmds, MemCmds, BrkCmds, SysregCmds, LbrCmds, ExcpMaskCmds,
         CrMaskCmds, Cr3Cmds, EventCmds, WalkCmds, NptCmds, InfoCmds, MsrCmds
<1>9. CASE cmd = "k"
  <2>1. toClient' = toClient \o <<Plus, Answer(id)>> /\ on' = FALSE /\ lock' = FALSE /\ ack' = ack /\ pc' = pc
    BY <1>4, <1>7, <1>8, <1>9 DEF CmdResume, CmdOther, CmdRefused, CmdRaw, CmdKill, Says
  <2>2. SessionTypes'
    <3>1. toClient' \in Seq(Token)
      BY <1>5, <2>1, ConcatProperties
    <3>2. input' \in Seq(Token) /\ toStub' \in Seq(Token)
      BY <1>2
    <3> QED
      BY <1>0, <1>1, <1>9, <2>1, <3>1, <3>2 DEF SessionTypes
  <2>3. NoNak(toClient')
    <3>1. id \in 0..2 /\ NoNak(toClient) /\ toClient \in Seq(Token)
      BY <1>1, <1>2, <1>5, <1>9 DEF SessionTypes
    <3> QED
      BY <2>1, <3>1, NoNakAnswered, Zenon
  <2>4. Gone'
    BY <1>0, <2>1 DEF Gone, Outside
  <2>5. KillInv'
    BY <1>3, <2>3, <2>4 DEF KillInv
  <2>6. StoppedInv' /\ AckInv' /\ AnswerInv' /\ RawInv' /\ WaitInv' /\ StopInv' /\ LeftInv'
    BY <1>0, <1>2, <1>9 DEF StoppedInv, AckInv, AnswerInv, RawInv, WaitInv, StopInv, LeftInv
  <2> QED
    BY <1>0, <1>9, <2>2, <2>5, <2>6 DEF LinkInv
<1>10. CASE cmd # "k"
  <2>0. cst = "ack" /\ toClient = <<>> /\ on /\ lock /\ ~ack
    BY <1>2, <1>10 DEF HoldsAt, Holds
  <2>1. CASE cmd \in Resume /\ toClient' = <<Plus>> /\ ack' = TRUE /\ lock' = FALSE /\ on' = on /\ pc' = pc
    <3>1. Runs'
      BY <1>0, <2>0, <2>1 DEF Runs, Outside
    <3>2. AckInv' /\ SessionTypes'
      BY <1>0, <1>1, <1>2, <1>3, <1>5, <2>1, <3>1 DEF AckInv, SessionTypes
    <3>3. StoppedInv' /\ KillInv' /\ AnswerInv' /\ RawInv' /\ WaitInv' /\ StopInv' /\ LeftInv'
      BY <1>0, <1>10, <2>0 DEF StoppedInv, KillInv, AnswerInv, RawInv, WaitInv, StopInv, LeftInv
    <3> QED
      BY <1>0, <1>10, <2>0, <3>2, <3>3 DEF LinkInv
  <2>2. CASE /\ toClient' = <<Plus, Answer(id)>> /\ ack' = FALSE /\ lock' = lock /\ on' = on
             /\ pc' = IF cmd \in RawRead THEN "ack_rd" ELSE IF cmd \in RawWrite THEN "ack_wr" ELSE "recv"
    <3>1. Answered'
      BY <1>0, <1>3, <2>0, <2>2 DEF Answered, HoldsAt, Holds
    <3>2. AckInv' /\ SessionTypes'
      BY <1>0, <1>1, <1>2, <1>5, <2>2, <3>1 DEF AckInv, SessionTypes
    <3>3. StoppedInv' /\ KillInv' /\ AnswerInv' /\ RawInv' /\ WaitInv' /\ StopInv' /\ LeftInv'
      BY <1>0, <1>10, <2>0 DEF StoppedInv, KillInv, AnswerInv, RawInv, WaitInv, StopInv, LeftInv
    <3> QED
      BY <1>0, <1>10, <2>0, <3>2, <3>3 DEF LinkInv
  <2>3. CASE CmdResume(cmd, id)
    BY <1>0, <1>1, <1>5, <1>7, <2>0, <2>1, <2>2, <2>3 DEF CmdResume, Says, SessionTypes
  <2>4. CASE CmdOther(cmd, id)
    BY <1>0, <1>1, <1>5, <1>8, <2>0, <2>2, <2>4 DEF CmdOther, SendPacket, Says, SessionTypes
  <2>5. CASE CmdRaw(cmd, id)
    BY <1>0, <1>1, <1>5, <1>7, <2>0, <2>2, <2>5 DEF CmdRaw, Says, SessionTypes
  <2>6. CASE CmdRefused(cmd, id)
    <3>1. /\ toClient' = <<Minus>> /\ on' = on /\ lock' = lock /\ ack' = ack /\ pc' = pc
          /\ <<Minus>> \in Seq(Token) /\ Head(<<Minus>>) = Minus /\ Tail(<<Minus>>) = <<>> /\ <<Minus>> # <<>>
      BY <2>0, <2>6, TokenTypes, LineEmpty DEF CmdRefused, Says
    <3>2. HoldsAt("recv")'
      BY <1>0, <1>2, <1>10, <3>1 DEF HoldsAt, Holds
    <3>3. AckInv' /\ SessionTypes'
      <4>1. AckInv'
        <5>1. toClient' = <<Minus>> /\ Waits'
          BY <1>3, <3>1, <3>2 DEF Waits
        <5> QED
          BY <5>1 DEF AckInv
      <4>2. SessionTypes'
        BY <1>0, <1>1, <1>2, <3>1 DEF SessionTypes
      <4> QED
        BY <4>1, <4>2
    <3>4. StoppedInv' /\ KillInv' /\ AnswerInv' /\ RawInv' /\ WaitInv' /\ StopInv' /\ LeftInv'
      BY <1>0, <1>10, <2>0 DEF StoppedInv, KillInv, AnswerInv, RawInv, WaitInv, StopInv, LeftInv
    <3> QED
      BY <1>0, <1>10, <2>0, <3>3, <3>4 DEF LinkInv
  <2> QED
    BY <1>4, <1>10, <2>3, <2>4, <2>5, <2>6 DEF CmdKill
<1> QED
  BY <1>9, <1>10

\* The stub takes the next of what a raw write left before the last command.
LEMMA RawMoves ==
  ASSUME LinkInv, upset = {}, UNCHANGED client, pc \in {"ack_rd", "ack_wr", "wr"}, line # <<>>,
         on' = on, lock' = lock, ack' = ack, toClient' = toClient, SessionTypes',
         \A r \in Seq(Token) : Behind(r) => Behind(r)', RawInv'
  PROVE  LinkInv'
<1>0. UNCHANGED <<cst, cmd, id, want, stops, intr, odd>>
  BY DEF client
<1>1. SessionTypes
  BY DEF LinkInv
<1>2. ~Waits /\ ~Answered /\ ~HoldsAt("recv") /\ ~Runs /\ ~Gone /\ ~Attaching
  BY DEF Waits, Answered, HoldsAt, Runs, Gone, Attaching, Outside
<1>3. Sent' = Sent /\ <<>> \in Seq(Token) /\ <<CtrlC>> \in Seq(Token)
  BY <1>0, TokenTypes DEF Sent
<1>4. ASSUME cst \in {"ack", "answer"} \/ cmd = "k", NEW p \in Sent
      PROVE  p \in Seq(Token)
  BY <1>1, <1>4, SentIs DEF SessionTypes
<1>5. ASSUME NEW r \in Seq(Token), Left(r)
      PROVE  Left(r)'
  <2>1. PICK j \in Seq({Plus}) : Behind(j \o r)
    BY <1>2, <1>5 DEF Left
  <2>2. Behind(j \o r)'
    BY <2>1, Acks
  <2> QED
    BY <1>5, <2>2 DEF Left
<1>6. StoppedInv' /\ LeftInv' /\ StopInv'
  BY <1>0, <1>2, <1>3, <1>5 DEF LinkInv, StoppedInv, LeftInv, StopInv
<1>7. AckInv' /\ AnswerInv' /\ WaitInv'
  BY <1>0, <1>2, <1>3, <1>4 DEF LinkInv, AckInv, AnswerInv, WaitInv
<1>8. KillInv'
  BY <1>0, <1>2, <1>3, <1>4 DEF LinkInv, KillInv
<1> QED
  BY <1>0, <1>6, <1>7, <1>8 DEF LinkInv

\* gdb_wait_ack takes the ack of the answer.
LEMMA WaitAckKeeps == LinkInv /\ WaitAck => LinkInv'
<1> SUFFICES ASSUME LinkInv, WaitAck, upset = {}
             PROVE  LinkInv'
  BY DEF LinkInv, WaitAck
<1>0. /\ UNCHANGED client /\ pc \in {"ack_rd", "ack_wr"} /\ toStub # <<>> /\ toStub' = Tail(toStub)
      /\ pc' = (IF pc = "ack_rd" THEN "rd" ELSE "wr")
      /\ on' = on /\ lock' = lock /\ ack' = ack /\ input' = input /\ toClient' = toClient
  BY DEF WaitAck
<1>1. SessionTypes
  BY DEF LinkInv
<1>2. line # <<>> /\ toStub \in Seq(Token)
  BY <1>0, <1>1, LineFacts
<1>3. SessionTypes'
  BY <1>0, <1>1, <1>2, HeadTailProperties DEF SessionTypes, client
<1>4. ASSUME NEW r \in Seq(Token), Behind(r)
      PROVE  Behind(r)'
  <2>1. HoldsAt("ack_wr") /\ input = <<>> /\ toStub = <<Plus, RawData>> \o r
    BY <1>0, <1>4 DEF Behind, HoldsAt
  <2>2. <<Plus, RawData>> \in Seq(Token) /\ <<Plus, RawData>> # <<>> /\ Tail(<<Plus, RawData>>) = <<RawData>>
    BY TokenTypes
  <2>3. Tail(toStub) = <<RawData>> \o r
    BY <2>1, <2>2, LineTail
  <2> QED
    BY <1>0, <2>1, <2>3 DEF Behind, HoldsAt, Holds
<1>5. RawInv'
  <2> SUFFICES ASSUME cst = "raw"
               PROVE  RawInv'
    BY <1>0 DEF RawInv, client
  <2>1. cmd \in RawRead /\ HoldsAt("ack_rd") /\ toClient = <<>> /\ input = <<>> /\ toStub = <<Plus>>
    BY <1>0, <1>2 DEF LinkInv, RawInv, HoldsAt, Waits
  <2>2. toStub' = <<>>
    BY <1>0, <2>1
  <2>3. line' = <<>>
    BY <1>0, <2>1, <2>2, LineEmpty DEF line
  <2> QED
    BY <1>0, <2>1, <2>3 DEF RawInv, HoldsAt, Holds, client
<1> QED
  BY <1>0, <1>2, <1>3, <1>4, <1>5, RawMoves

\* A raw write takes the memory the client sent.
LEMMA RawRecvKeeps == LinkInv /\ RawRecv => LinkInv'
<1> SUFFICES ASSUME LinkInv, RawRecv, upset = {}
             PROVE  LinkInv'
  BY DEF LinkInv, RawRecv
<1>0. /\ UNCHANGED client /\ pc = "wr" /\ pc' = "recv" /\ toStub # <<>> /\ toStub' = Tail(toStub)
      /\ on' = on /\ lock' = lock /\ ack' = ack /\ input' = input /\ toClient' = toClient
  BY DEF RawRecv
<1>1. SessionTypes
  BY DEF LinkInv
<1>2. line # <<>> /\ toStub \in Seq(Token)
  BY <1>0, <1>1, LineFacts
<1>3. SessionTypes'
  BY <1>0, <1>1, <1>2, HeadTailProperties DEF SessionTypes, client
<1>4. ASSUME NEW r \in Seq(Token), Behind(r)
      PROVE  Behind(r)'
  <2>1. HoldsAt("wr") /\ input = <<>> /\ toStub = <<RawData>> \o r
    BY <1>0, <1>4 DEF Behind, HoldsAt
  <2>2. <<RawData>> \in Seq(Token) /\ <<RawData>> # <<>> /\ Tail(<<RawData>>) = <<>> /\ <<>> \o r = r
    BY TokenTypes, LineEmpty
  <2>3. Tail(toStub) = r
    BY <2>1, <2>2, LineTail
  <2>4. line' = r
    BY <1>0, <2>1, <2>2, <2>3 DEF line
  <2> QED
    BY <1>0, <2>1, <2>4 DEF Behind, HoldsAt, Holds
<1>5. RawInv'
  BY <1>0 DEF LinkInv, RawInv, HoldsAt, Waits, client
<1> QED
  BY <1>0, <1>2, <1>3, <1>4, <1>5, RawMoves

\* A raw read sends the memory the client waits for.
LEMMA RawSendKeeps == LinkInv /\ RawSend => LinkInv'
<1> SUFFICES ASSUME LinkInv, RawSend, upset = {}
             PROVE  LinkInv'
  BY DEF LinkInv, RawSend
<1>0. /\ UNCHANGED <<cst, cmd, id, want, stops, intr, odd>> /\ pc = "rd" /\ pc' = "recv"
      /\ toClient' = toClient \o <<RawData>>
      /\ on' = on /\ lock' = lock /\ ack' = ack /\ input' = input /\ toStub' = toStub
  BY DEF RawSend, client, Says
<1>1. SessionTypes
  BY DEF LinkInv
<1>2. /\ ~Waits /\ ~Answered /\ ~HoldsAt("recv") /\ ~HoldsAt("ack_rd") /\ ~Runs /\ ~Gone /\ ~Attaching
      /\ \A r : ~Behind(r) /\ ~Left(r)
  BY <1>0 DEF Waits, Answered, HoldsAt, Runs, Gone, Attaching, Outside, Behind, Left
<1>3. cst = "raw"
  BY <1>1, <1>2 DEF LinkInv, SessionTypes, StoppedInv, AckInv, AnswerInv, WaitInv, StopInv, LeftInv, KillInv
<1>4. cmd \in RawRead /\ HoldsAt("rd") /\ toClient = <<>> /\ line = <<>>
  BY <1>2, <1>3 DEF LinkInv, RawInv
<1>5. toClient' = <<RawData>> /\ <<RawData>> \in Seq(Token)
  BY <1>0, <1>4, TokenTypes, ConcatEmptySeq
<1>6. Waits'
  BY <1>0, <1>4 DEF Waits, HoldsAt, Holds, line
<1>7. RawInv' /\ SessionTypes'
  BY <1>0, <1>1, <1>4, <1>5, <1>6 DEF RawInv, SessionTypes
<1>8. StoppedInv' /\ AckInv' /\ AnswerInv' /\ WaitInv' /\ StopInv' /\ LeftInv' /\ KillInv'
  BY <1>0, <1>3 DEF StoppedInv, AckInv, AnswerInv, WaitInv, StopInv, LeftInv, KillInv
<1> QED
  BY <1>0, <1>7, <1>8 DEF LinkInv

\* A fault in a raw transfer and an answer damaged on the line are marked.
LEMMA MarkedKeeps == RawFault \/ GetDamaged => LinkInv'
<1>1. RawFault \/ GetDamaged => upset' # {}
  BY DEF RawFault, GetDamaged
<1> QED
  BY <1>1 DEF LinkInv

(***************************************************************************)
(* The client.                                                             *)
(***************************************************************************)

\* What it sends comes behind everything the stub has still to read.
LEMMA SendGrows ==
  ASSUME SessionTypes, UNCHANGED stub, NEW x \in Seq(Token), toStub' = toStub \o x
  PROVE  /\ toStub' \in Seq(Token) /\ line' = line \o x
         /\ UNCHANGED <<on, lock, ack, pc, input>>
         /\ \A p : HoldsAt(p)' <=> HoldsAt(p)
         /\ (Runs' <=> Runs) /\ (Attaching' <=> Attaching) /\ (Gone' <=> Gone)
         /\ \A r \in Seq(Token) : Behind(r) => Behind(r \o x)'
         /\ Behind(<<>>) => Behind(x)'
         /\ line = <<>> => line' = x /\ input' = <<>> /\ toStub' = x
<1>1. UNCHANGED <<on, lock, ack, pc, input>>
  BY DEF stub
<1>2. input \in Seq(Token) /\ toStub \in Seq(Token)
  BY DEF SessionTypes
<1>3. toStub' \in Seq(Token) /\ line' = line \o x
  BY <1>1, <1>2, LineGrows, ConcatProperties DEF line
<1>4. /\ \A p : HoldsAt(p)' <=> HoldsAt(p)
      /\ (Runs' <=> Runs) /\ (Attaching' <=> Attaching) /\ (Gone' <=> Gone)
  BY <1>1 DEF HoldsAt, Holds, Runs, Attaching, Gone, Outside
<1>5. ASSUME NEW r \in Seq(Token), Behind(r)
      PROVE  Behind(r \o x)'
  <2>1. <<Plus>> \in Seq(Token) /\ <<RawData>> \in Seq(Token) /\ <<Plus, RawData>> \in Seq(Token)
    BY TokenTypes
  <2>2. /\ (<<Plus>> \o r) \o x = <<Plus>> \o (r \o x)
        /\ (<<RawData>> \o r) \o x = <<RawData>> \o (r \o x)
        /\ (<<Plus, RawData>> \o r) \o x = <<Plus, RawData>> \o (r \o x)
    BY <2>1, LineGrows
  <2> QED
    BY <1>1, <1>3, <1>4, <1>5, <2>2 DEF Behind
<1>6. <<>> \in Seq(Token) /\ <<>> \o x = x
  BY LineEmpty, EmptySeq
<1>7. Behind(<<>>) => Behind(x)'
  BY <1>5, <1>6
<1>8. line = <<>> => line' = x /\ input' = <<>> /\ toStub' = x
  BY <1>1, <1>2, <1>3, <1>6, LineFacts
<1> QED
  BY <1>1, <1>3, <1>4, <1>5, <1>7, <1>8

\* So do the interrupts and acks of clients that leave little behind.
LEMMA LeftGrows ==
  ASSUME SessionTypes, UNCHANGED stub, NEW r \in Seq(Token), NEW x \in Seq(Token), toStub' = toStub \o x,
         toClient' = toClient \/ toClient' = <<>>, Left(r)
  PROVE  Left(r \o x)'
<1>1. PICK j \in Seq({Plus}) : \/ Behind(j \o r)
                               \/ (Runs \/ Attaching) /\ line = j \o r
                               \/ Gone /\ j # <<>> /\ line = j \o r
  BY DEF Left
<1>2. j \in Seq(Token) /\ j \o r \in Seq(Token)
  BY Acks
<1>3. (j \o r) \o x = j \o (r \o x)
  BY <1>2, LineGrows
<1>4. Behind(j \o r) => Behind(j \o (r \o x))'
  BY <1>2, <1>3, SendGrows
<1>5. line = j \o r => line' = j \o (r \o x)
  BY <1>3, SendGrows
<1>6. /\ \/ Behind(j \o (r \o x))'
         \/ (Runs' \/ Attaching') /\ line' = j \o (r \o x)
         \/ Gone' /\ j # <<>> /\ line' = j \o (r \o x)
  BY <1>1, <1>4, <1>5, SendGrows
<1>7. toClient' = <<>> \/ (toClient' = <<TrapReply>> /\ lock')
  BY DEF Left, stub
<1> QED
  BY <1>6, <1>7 DEF Left

\* A command on its way is what a new client looks for.
LEMMA CommandOnLine ==
  ASSUME SessionTypes, cmd \in Cmds \cup {"k"}, NEW p \in Sent, Behind(p) \/ line = p
  PROVE  \E i \in Unread : line[i].k = cmd
<1>1. /\ p \in Seq(Token) /\ Len(p) = 3 /\ p[2].t = "cmd" /\ p[2].k = cmd
  BY SentIs
<1>2. /\ <<>> \in Seq(Token) /\ <<Plus>> \in Seq(Token) /\ <<RawData>> \in Seq(Token) /\ <<Plus, RawData>> \in Seq(Token)
      /\ <<>> \o p = p
      /\ input = <<>> => line = toStub
  BY <1>1, TokenTypes, LineEmpty, LineFacts
<1>3. PICK a \in Seq(Token) : line = a \o p
  BY <1>1, <1>2, LineFacts DEF Behind
<1>4. /\ Len(line) = Len(a) + 3 /\ Len(a) \in Nat
      /\ \A i \in 1..Len(a) + 3 : line[i] = IF i <= Len(a) THEN a[i] ELSE p[i - Len(a)]
  <2>1. Len(a \o p) = Len(a) + Len(p) /\ Len(a) \in Nat
    BY <1>1, ConcatProperties, LenProperties
  <2>2. \A i \in 1..Len(a) + Len(p) : (a \o p)[i] = IF i <= Len(a) THEN a[i] ELSE p[i - Len(a)]
    BY <1>1, ConcatProperties
  <2> QED
    BY <1>1, <1>3, <2>1, <2>2, Zenon
<1>5. ASSUME NEW n \in Nat
      PROVE  n + 2 \in 1..n + 3 /\ ~(n + 2 <= n) /\ (n + 2) - n = 2
  OBVIOUS
<1>6. line[Len(a) + 2] = p[2] /\ Len(a) + 2 \in 1..Len(line)
  BY <1>4, <1>5
<1>7. Len(a) + 2 \in Unread
  BY <1>1, <1>6 DEF Unread, line
<1> QED
  BY <1>1, <1>6, <1>7

\* A new client finds the stub free or held, with nothing but acks to read.
LEMMA ConnectKeeps == LinkInv /\ Connect => LinkInv'
<1> SUFFICES ASSUME LinkInv, Connect, upset = {}, upset' = {}
             PROVE  LinkInv'
  <2>1. Connect /\ upset' = {} => upset = {}
    BY DEF Connect
  <2> QED
    BY <2>1 DEF LinkInv
<1>0. /\ cst = "off" /\ Unread = {} /\ cst' = "attached" /\ toStub' = Append(toStub, Plus) /\ toClient' = <<>>
      /\ stops' = <<>> /\ intr' = FALSE /\ odd' = FALSE /\ cmd' = "none" /\ UNCHANGED stub /\ id' = id
  BY DEF Connect
<1>1. SessionTypes
  BY DEF LinkInv
<1>2. /\ Plus \in Token /\ <<Plus>> \in Seq(Token) /\ <<>> \in Seq(Token) /\ <<>> \o <<Plus>> = <<Plus>>
      /\ <<Plus>> \o <<>> = <<Plus>> /\ <<Plus>> \in Seq({Plus}) /\ <<Plus>> # <<>>
  BY TokenTypes, LineEmpty
<1>3. toStub' = toStub \o <<Plus>>
  BY <1>0, <1>1, <1>2, AppendIsConcat DEF SessionTypes
<1>4. SessionTypes'
  BY <1>0, <1>1, <1>2, <1>3, SendGrows DEF SessionTypes
<1>5. Left(<<>>)'
  <2>1. CASE cmd # "k"
    <3>1. Left(<<>>)
      BY <1>0, <2>1 DEF LinkInv, LeftInv
    <3>2. PICK j \in Seq({Plus}) : \/ Behind(j)
                                   \/ (Runs \/ Attaching \/ Gone) /\ line = j
      <4>1. \A j \in Seq({Plus}) : j \o <<>> = j
        BY <1>2, Acks, LineEmpty
      <4> QED
        BY <3>1, <4>1 DEF Left
    <3>3. j \in Seq(Token) /\ j \o <<Plus>> \in Seq({Plus}) /\ j \o <<Plus>> # <<>>
      <4>1. j \in Seq(Token)
        BY <1>2, Acks
      <4>2. j \o <<Plus>> \in Seq({Plus})
        BY <1>2, ConcatProperties
      <4> QED
        BY <1>2, <4>1, <4>2, LineEmpty
    <3>4. (j \o <<Plus>>) \o <<>> = j \o <<Plus>>
      BY <1>2, <3>3, Acks, LineEmpty
    <3>5. Behind(j \o <<Plus>>)' \/ ((Runs' \/ Attaching' \/ Gone') /\ line' = j \o <<Plus>>)
      BY <1>0, <1>1, <1>2, <1>3, <3>2, <3>3, SendGrows
    <3> QED
      BY <1>0, <3>3, <3>4, <3>5 DEF Left
  <2>2. CASE cmd = "k"
    <3>1. \A p \in Sent : ~Behind(p) /\ line # p
      BY <1>0, <1>1, <2>2, CommandOnLine
    <3>2. Gone /\ line = <<>>
      BY <1>0, <2>2, <3>1 DEF LinkInv, KillInv
    <3>3. Gone' /\ line' = <<Plus>>
      BY <1>0, <1>1, <1>2, <1>3, <3>2, SendGrows
    <3> QED
      BY <1>0, <1>2, <3>3 DEF Left
  <2> QED
    BY <2>1, <2>2
<1>6. StoppedInv' /\ AckInv' /\ AnswerInv' /\ RawInv' /\ WaitInv' /\ StopInv' /\ LeftInv' /\ KillInv'
  BY <1>0, <1>5 DEF StoppedInv, AckInv, AnswerInv, RawInv, WaitInv, StopInv, LeftInv, KillInv
<1> QED
  BY <1>0, <1>4, <1>6 DEF LinkInv

\* The interrupt a new client begins with.
LEMMA StopKeeps == LinkInv /\ Stop => LinkInv'
<1> SUFFICES ASSUME LinkInv, Stop, upset = {}
             PROVE  LinkInv'
  BY DEF LinkInv, Stop
<1>0. /\ cst = "attached" /\ cst' = "wait" /\ toStub' = Append(toStub, CtrlC) /\ intr' = TRUE /\ want' = "int"
      /\ UNCHANGED stub /\ UNCHANGED <<toClient, cmd, id, stops, odd>>
  BY DEF Stop
<1>1. SessionTypes
  BY DEF LinkInv
<1>2. /\ CtrlC \in Token /\ <<CtrlC>> \in Seq(Token) /\ <<>> \in Seq(Token) /\ <<>> \o <<CtrlC>> = <<CtrlC>>
  BY TokenTypes, LineEmpty
<1>3. toStub' = toStub \o <<CtrlC>>
  BY <1>0, <1>1, <1>2, AppendIsConcat DEF SessionTypes
<1>4. SessionTypes'
  BY <1>0, <1>1, <1>2, <1>3, SendGrows DEF SessionTypes
<1>5. Left(<<>>) /\ cmd = "none"
  BY <1>0 DEF LinkInv, LeftInv
<1>6. Left(<<CtrlC>>)'
  BY <1>0, <1>1, <1>2, <1>3, <1>5, LeftGrows
<1>7. StoppedInv' /\ AckInv' /\ AnswerInv' /\ RawInv' /\ WaitInv' /\ StopInv' /\ LeftInv' /\ KillInv'
  BY <1>0, <1>5, <1>6 DEF StoppedInv, AckInv, AnswerInv, RawInv, WaitInv, StopInv, LeftInv, KillInv
<1> QED
  BY <1>0, <1>4, <1>5, <1>7 DEF LinkInv

\* The interrupt of a client that waits for a stop.
LEMMA InterruptKeeps == LinkInv /\ Interrupt => LinkInv'
<1> SUFFICES ASSUME LinkInv, Interrupt, upset = {}
             PROVE  LinkInv'
  BY DEF LinkInv, Interrupt
<1>0. /\ cst = "wait" /\ intr # TRUE /\ toStub' = Append(toStub, CtrlC) /\ intr' = TRUE
      /\ UNCHANGED stub /\ UNCHANGED <<toClient, cst, cmd, id, want, stops, odd>>
  BY DEF Interrupt
<1>1. SessionTypes
  BY DEF LinkInv
<1>2. CtrlC \in Token /\ <<CtrlC>> \in Seq(Token)
  BY TokenTypes
<1>3. toStub' = toStub \o <<CtrlC>>
  BY <1>0, <1>1, <1>2, AppendIsConcat DEF SessionTypes
<1>4. SessionTypes'
  BY <1>0, <1>1, <1>2, <1>3, SendGrows DEF SessionTypes
<1>5. cmd # "none" /\ cmd \in Resume /\ want = "any"
  BY <1>0 DEF LinkInv, StopInv, WaitInv
<1>6. \/ Runs /\ toClient = <<>> /\ line = <<>>
      \/ HoldsAt("recv") /\ line = <<>> /\ toClient \in {<<Answer(id)>>, <<TrapReply>>}
  BY <1>0, <1>5 DEF LinkInv, WaitInv
<1>7. \/ Runs' /\ toClient' = <<>> /\ line' = <<CtrlC>>
      \/ HoldsAt("recv")' /\ line' = <<CtrlC>> /\ toClient' \in {<<Answer(id)>>, <<TrapReply>>}
  BY <1>0, <1>1, <1>2, <1>3, <1>6, SendGrows
<1>8. WaitInv'
  BY <1>0, <1>5, <1>7 DEF WaitInv
<1>9. StoppedInv' /\ AckInv' /\ AnswerInv' /\ RawInv' /\ StopInv' /\ LeftInv' /\ KillInv'
  BY <1>0, <1>5 DEF StoppedInv, AckInv, AnswerInv, RawInv, StopInv, LeftInv, KillInv
<1> QED
  BY <1>0, <1>4, <1>8, <1>9 DEF LinkInv

\* A packet is on the line, whole or damaged.
LEMMA TransmitSends ==
  ASSUME SessionTypes, UNCHANGED stub, cmd' \in Cmds \cup {"k"}, id' \in 0..1, Transmit(cmd', id')
  PROVE  \E q \in Sent' : q \in Seq(Token) /\ toStub' = toStub \o q
<1>1. PICK q \in {Packet(cmd', id'), Damaged(cmd', id')} : toStub' = toStub \o q
  BY DEF Transmit
<1>2. q \in Seq(Token)
  BY TokenTypes DEF Sendable
<1> QED
  BY <1>1, <1>2 DEF Sent

\* "k" is sent by Quit only.
LEMMA NotKill == \A k \in Cmds : k # "k"
<1>1. "k" \notin Resume /\ "k" \notin RawRead /\ "k" \notin RawWrite
  BY DEF Resume, RawRead, RawWrite
<1>2. "k" \notin OneAnswer
  BY DEF OneAnswer, ThreadCmds, GprCmds, MemCmds, BrkCmds, SysregCmds, LbrCmds, ExcpMaskCmds,
         CrMaskCmds, Cr3Cmds, EventCmds, WalkCmds, NptCmds, InfoCmds, MsrCmds
<1> QED
  BY <1>1, <1>2, CmdsAssumption

\* A command comes behind the ack of the answer before.
LEMMA CommandKeeps == \A k \in Cmds : LinkInv /\ Send(k) => LinkInv'
<1> SUFFICES ASSUME NEW k \in Cmds, LinkInv, Send(k), upset = {}
             PROVE  LinkInv'
  BY DEF LinkInv, Send
<1>0. /\ cst = "stopped" /\ cst' = "ack" /\ cmd' = k /\ id' = 1 - id /\ Transmit(cmd', id')
      /\ UNCHANGED stub /\ UNCHANGED <<toClient, want, stops, intr, odd>>
  BY DEF Send
<1>1. SessionTypes /\ toClient = <<>> /\ Behind(<<>>) /\ cmd # "k" /\ k # "k"
  BY <1>0, NotKill DEF LinkInv, StoppedInv
<1>2. cmd' \in Cmds \cup {"k"} /\ id' \in 0..1
  BY <1>0, <1>1 DEF SessionTypes
<1>3. PICK q \in Sent' : q \in Seq(Token) /\ toStub' = toStub \o q
  BY <1>0, <1>1, <1>2, TransmitSends
<1>4. SessionTypes'
  BY <1>0, <1>1, <1>2, <1>3, SendGrows DEF SessionTypes
<1>5. Behind(q)'
  BY <1>0, <1>1, <1>3, SendGrows
<1>6. AckInv'
  BY <1>0, <1>1, <1>3, <1>5 DEF AckInv
<1>7. StoppedInv' /\ AnswerInv' /\ RawInv' /\ WaitInv' /\ StopInv' /\ LeftInv' /\ KillInv'
  BY <1>0, <1>1 DEF StoppedInv, AnswerInv, RawInv, WaitInv, StopInv, LeftInv, KillInv
<1> QED
  BY <1>0, <1>1, <1>4, <1>6, <1>7 DEF LinkInv

\* The "k" may cross a stop reply.
LEMMA QuitKeeps == LinkInv /\ Quit => LinkInv'
<1> SUFFICES ASSUME LinkInv, Quit, upset = {}
             PROVE  LinkInv'
  BY DEF LinkInv, Quit
<1>0. /\ cst \in {"stopped", "wait"} /\ intr # TRUE /\ cst' = "ack" /\ cmd' = "k" /\ id' = 1 - id
      /\ Transmit(cmd', id') /\ UNCHANGED stub /\ UNCHANGED <<toClient, want, stops, intr, odd>>
  BY DEF Quit
<1>1. SessionTypes
  BY DEF LinkInv
<1>2. cmd' \in Cmds \cup {"k"} /\ id' \in 0..1
  BY <1>0, <1>1 DEF SessionTypes
<1>3. PICK q \in Sent' : q \in Seq(Token) /\ toStub' = toStub \o q
  BY <1>0, <1>1, <1>2, TransmitSends
<1>4. SessionTypes'
  BY <1>0, <1>1, <1>2, <1>3, SendGrows DEF SessionTypes
<1>5. NoNak(<<>>) /\ NoNak(<<Answer(id)>>) /\ NoNak(<<TrapReply>>)
  <2>1. /\ <<Answer(id)>>[1] = Answer(id) /\ Len(<<Answer(id)>>) = 1 /\ <<TrapReply>>[1] = TrapReply
        /\ Len(<<TrapReply>>) = 1 /\ Len(<<>>) = 0
    OBVIOUS
  <2> QED
    BY <2>1, TokenKinds DEF NoNak
<1>6. NoNak(toClient') /\ (Behind(q)' \/ (Runs' /\ line' = q))
  <2>1. CASE cst = "stopped"
    <3>1. toClient = <<>> /\ Behind(<<>>)
      BY <2>1 DEF LinkInv, StoppedInv
    <3> QED
      BY <1>0, <1>1, <1>3, <1>5, <3>1, SendGrows
  <2>2. CASE cst = "wait"
    <3>1. cmd # "none"
      BY <1>0, <2>2 DEF LinkInv, StopInv
    <3>2. \/ Runs /\ toClient = <<>> /\ line = <<>>
          \/ HoldsAt("recv") /\ line = <<>> /\ toClient \in {<<Answer(id)>>, <<TrapReply>>}
      BY <1>0, <2>2, <3>1 DEF LinkInv, WaitInv
    <3>3. NoNak(toClient')
      BY <1>0, <1>5, <3>2
    <3>4. line' = q /\ (Runs' \/ HoldsAt("recv")')
      BY <1>0, <1>1, <1>3, <3>2, SendGrows
    <3> QED
      BY <3>3, <3>4 DEF Behind
  <2> QED
    BY <1>0, <2>1, <2>2
<1>7. KillInv'
  BY <1>3, <1>6 DEF KillInv
<1>8. AckInv' /\ StoppedInv' /\ AnswerInv' /\ RawInv' /\ WaitInv' /\ StopInv' /\ LeftInv'
  BY <1>0 DEF AckInv, StoppedInv, AnswerInv, RawInv, WaitInv, StopInv, LeftInv
<1> QED
  BY <1>0, <1>4, <1>7, <1>8 DEF LinkInv

\* What an action of the client leaves of the stub.
LEMMA StubStays ==
  ASSUME UNCHANGED stub, toStub' = toStub
  PROVE  /\ UNCHANGED <<on, lock, ack, pc, input>> /\ line' = line
         /\ \A p : HoldsAt(p)' <=> HoldsAt(p)
         /\ (Runs' <=> Runs) /\ (Attaching' <=> Attaching) /\ (Gone' <=> Gone) /\ (Waits' <=> Waits)
         /\ \A r : Behind(r)' <=> Behind(r)
         /\ \A r : Left(r) /\ toClient' = <<>> => Left(r)'
<1>1. UNCHANGED <<on, lock, ack, pc, input>> /\ line' = line
  BY DEF stub, line
<1>2. /\ \A p : HoldsAt(p)' <=> HoldsAt(p)
      /\ (Runs' <=> Runs) /\ (Attaching' <=> Attaching) /\ (Gone' <=> Gone) /\ (Waits' <=> Waits)
      /\ \A r : Behind(r)' <=> Behind(r)
  BY <1>1 DEF HoldsAt, Holds, Runs, Attaching, Gone, Outside, Waits, Behind
<1>3. \A r : Left(r) /\ toClient' = <<>> => Left(r)'
  BY <1>1, <1>2 DEF Left
<1> QED
  BY <1>1, <1>2, <1>3

\* The packets under way to a client that waits for the end of its command.
LEMMA Replies ==
  ASSUME SessionTypes
  PROVE  /\ Head(<<Minus>>) = Minus /\ Tail(<<Minus>>) = <<>>
         /\ Head(<<Plus, Answer(id)>>) = Plus /\ Tail(<<Plus, Answer(id)>>) = <<Answer(id)>>
         /\ Head(<<Plus>>) = Plus /\ Tail(<<Plus>>) = <<>>
         /\ Head(<<Plus, TrapReply>>) = Plus /\ Tail(<<Plus, TrapReply>>) = <<TrapReply>>
         /\ Head(<<Answer(id)>>) = Answer(id) /\ Tail(<<Answer(id)>>) = <<>>
         /\ Head(<<RawData>>) = RawData /\ Tail(<<RawData>>) = <<>>
         /\ Head(<<TrapReply>>) = TrapReply /\ Tail(<<TrapReply>>) = <<>>
         /\ Head(<<IntReply>>) = IntReply /\ Tail(<<IntReply>>) = <<>>
         /\ Head(<<TrapReply, IntReply>>) = TrapReply /\ Tail(<<TrapReply, IntReply>>) = <<IntReply>>
         /\ Head(<<Answer(id), IntReply>>) = Answer(id)
OBVIOUS

\* The ack, or the nak after which the packet is sent again.
LEMMA GetAckKeeps == LinkInv /\ GetAck => LinkInv'
<1> SUFFICES ASSUME LinkInv, GetAck, upset = {}
             PROVE  LinkInv'
  BY DEF LinkInv, GetAck
<1>0. cst = "ack" /\ toClient # <<>> /\ UNCHANGED stub /\ UNCHANGED <<cmd, id, stops, intr>>
  BY DEF GetAck
<1>1. SessionTypes /\ toClient \in Seq(Token) /\ Tail(toClient) \in Seq(Token) /\ ~intr
  BY <1>0, HeadTailProperties DEF LinkInv, SessionTypes
<1>2. cmd \in Cmds \cup {"k"} /\ cmd' \in Cmds \cup {"k"} /\ id' \in 0..1
  BY <1>0, <1>1 DEF SessionTypes
<1>3. Plus.t = "+" /\ Minus.t = "-" /\ Plus # Minus
  BY TokenKinds
<1>4. CASE Head(toClient).t = "-"
  <2>0. cst' = cst /\ odd' = odd /\ want' = want /\ toClient' = Tail(toClient) /\ Transmit(cmd', id')
    BY <1>0, <1>4 DEF GetAck
  <2>1. PICK q \in Sent' : q \in Seq(Token) /\ toStub' = toStub \o q
    BY <1>0, <1>1, <1>2, <2>0, TransmitSends
  <2>2. SessionTypes'
    BY <1>0, <1>1, <2>0, <2>1, SendGrows DEF SessionTypes
  <2>3. ASSUME cmd # "k"
        PROVE  AckInv'
    <3>1. toClient = <<Minus>> /\ Waits
      BY <1>0, <1>1, <1>3, <1>4, <2>3, Replies DEF LinkInv, AckInv
    <3>2. line' = q /\ HoldsAt("recv")' /\ toClient' = <<>>
      BY <1>0, <1>1, <2>0, <2>1, <3>1, SendGrows, Replies DEF Waits
    <3> QED
      BY <2>1, <3>2 DEF AckInv, Behind
  <2>4. ASSUME cmd = "k"
        PROVE  KillInv'
    <3>1. ~NoNak(toClient)
      BY <1>0, <1>1, <1>4, NoNakTail
    <3>2. NoNak(Tail(toClient)) /\ line = <<>> /\ (Runs \/ HoldsAt("recv"))
      BY <1>0, <2>4, <3>1 DEF LinkInv, KillInv
    <3>3. line' = q /\ (Runs' \/ HoldsAt("recv")')
      BY <1>0, <1>1, <2>1, <3>2, SendGrows
    <3> QED
      BY <2>0, <2>1, <3>2, <3>3 DEF KillInv, Behind
  <2>5. AckInv' /\ KillInv'
    BY <1>0, <2>3, <2>4 DEF AckInv, KillInv
  <2>6. StoppedInv' /\ AnswerInv' /\ RawInv' /\ WaitInv' /\ StopInv' /\ LeftInv'
    BY <1>0, <2>0 DEF StoppedInv, AnswerInv, RawInv, WaitInv, StopInv, LeftInv
  <2> QED
    BY <1>0, <1>1, <2>0, <2>2, <2>5, <2>6 DEF LinkInv
<1>5. CASE Head(toClient).t # "-"
  <2>0. /\ cst' \in AfterAck /\ want' = "any" /\ toStub' = toStub
        /\ IF Head(toClient).t = "+" THEN toClient' = Tail(toClient) /\ odd' = odd
           ELSE odd' = TRUE /\ toClient' = toClient
    BY <1>0, <1>5 DEF GetAck
  <2>1. cst' \in {"wait", "answer", "off"}
    BY <2>0 DEF AfterAck
  <2>2. SessionTypes'
    <3>1. toClient' \in Seq(Token)
      BY <1>1, <2>0
    <3> QED
      BY <1>0, <1>1, <1>2, <2>0, <2>1, <3>1 DEF SessionTypes, stub
  <2>3. CASE cmd # "k"
    <3>1. \/ toClient = <<Plus, Answer(id)>> /\ Answered
          \/ cmd \in Resume /\ toClient = <<Plus>> /\ Runs /\ line = <<>>
          \/ cmd \in Resume /\ toClient = <<Plus, TrapReply>> /\ Waits
      BY <1>0, <1>1, <1>3, <1>5, <2>3, Replies DEF LinkInv, AckInv
    <3>2. odd' = odd /\ toClient' = Tail(toClient)
      BY <1>1, <1>3, <2>0, <3>1, Replies
    <3>3. CASE cmd \in Resume
      <4>0. cst' = "wait" /\ cmd # "none"
        BY <2>0, <3>3 DEF AfterAck, Resume
      <4>1. Answered => HoldsAt("recv") /\ line = <<>>
        BY <3>3 DEF Answered, Resume, RawRead, RawWrite
      <4>2. \/ Runs /\ toClient' = <<>> /\ line = <<>>
            \/ HoldsAt("recv") /\ line = <<>> /\ toClient' \in {<<Answer(id)>>, <<TrapReply>>}
        BY <1>1, <3>1, <3>2, <4>1, Replies DEF Waits
      <4>3. \/ Runs' /\ toClient' = <<>> /\ line' = <<>>
            \/ HoldsAt("recv")' /\ line' = <<>> /\ toClient' \in {<<Answer(id)>>, <<TrapReply>>}
        BY <1>0, <2>0, <4>2, StubStays
      <4>4. WaitInv'
        BY <1>0, <1>1, <2>0, <3>3, <4>3 DEF WaitInv
      <4>5. StoppedInv' /\ AckInv' /\ AnswerInv' /\ RawInv' /\ StopInv' /\ LeftInv' /\ KillInv'
        BY <1>0, <4>0 DEF StoppedInv, AckInv, AnswerInv, RawInv, StopInv, LeftInv, KillInv
      <4> QED
        BY <1>0, <1>1, <2>2, <2>3, <3>2, <4>0, <4>4, <4>5 DEF LinkInv
    <3>4. CASE cmd \notin Resume
      <4>0. cst' = "answer"
        BY <2>0, <2>3, <3>4 DEF AfterAck
      <4>1. toClient' = <<Answer(id)>> /\ Answered
        BY <1>1, <3>1, <3>2, <3>4, Replies
      <4>2. Answered'
        BY <1>0, <2>0, <4>1, StubStays DEF Answered
      <4>3. AnswerInv'
        BY <1>0, <3>4, <4>1, <4>2 DEF AnswerInv
      <4>5. StoppedInv' /\ AckInv' /\ RawInv' /\ WaitInv' /\ StopInv' /\ LeftInv' /\ KillInv'
        BY <1>0, <2>3, <4>0 DEF StoppedInv, AckInv, RawInv, WaitInv, StopInv, LeftInv, KillInv
      <4> QED
        BY <1>0, <1>1, <2>2, <2>3, <3>2, <4>0, <4>3, <4>5 DEF LinkInv
    <3> QED
      BY <3>3, <3>4
  <2>4. CASE cmd = "k"
    <3>0. cst' \in {"answer", "off"}
      BY <2>0, <2>4 DEF AfterAck, Resume
    <3>1. /\ NoNak(toClient)
          /\ (\E p \in Sent : Behind(p) \/ (Runs /\ line = p)) \/ (Gone /\ line = <<>>)
      BY <1>0, <1>3, <1>5, <2>4 DEF LinkInv, KillInv
    <3>2. NoNak(toClient')
      BY <1>0, <1>1, <2>0, <3>1, NoNakTail
    <3>3. (\E p \in Sent : Behind(p)' \/ (Runs' /\ line' = p)) \/ (Gone' /\ line' = <<>>)
      BY <1>0, <2>0, <3>1, StubStays
    <3>4. Sent' = Sent
      BY <1>0 DEF Sent
    <3>5. KillInv'
      BY <3>2, <3>3, <3>4 DEF KillInv
    <3>6. StoppedInv' /\ AckInv' /\ AnswerInv' /\ RawInv' /\ WaitInv' /\ StopInv' /\ LeftInv'
      BY <1>0, <2>4, <3>0 DEF StoppedInv, AckInv, AnswerInv, RawInv, WaitInv, StopInv, LeftInv
    <3> QED
      BY <1>0, <1>1, <2>2, <2>4, <3>5, <3>6 DEF LinkInv
  <2> QED
    BY <2>3, <2>4
<1> QED
  BY <1>4, <1>5

\* Only a "k" finds acks and stop replies before its answer.
LEMMA PoolOtherKeeps == LinkInv /\ PoolOther => LinkInv'
<1> SUFFICES ASSUME LinkInv, PoolOther, upset = {}
             PROVE  LinkInv'
  BY DEF LinkInv, PoolOther
<1>0. /\ cst = "answer" /\ toClient # <<>> /\ Head(toClient).t \in {"+", "-", "stop"} /\ toClient' = Tail(toClient)
      /\ UNCHANGED stub /\ UNCHANGED <<cst, cmd, id, want, intr, odd>>
  BY DEF PoolOther
<1>1. SessionTypes /\ toClient \in Seq(Token) /\ Tail(toClient) \in Seq(Token)
  BY <1>0, HeadTailProperties DEF LinkInv, SessionTypes
<1>2. cmd = "k"
  BY <1>0, <1>1, Replies, TokenKinds DEF LinkInv, AnswerInv
<1>3. toStub' = toStub
  BY <1>0, <1>2 DEF PoolOther
<1>4. SessionTypes'
  BY <1>0, <1>1, <1>3, StubStays DEF SessionTypes
<1>5. NoNak(toClient) /\ ((\E p \in Sent : Behind(p) \/ (Runs /\ line = p)) \/ (Gone /\ line = <<>>))
  BY <1>0, <1>2 DEF LinkInv, KillInv
<1>6. NoNak(toClient') /\ ((\E p \in Sent : Behind(p)' \/ (Runs' /\ line' = p)) \/ (Gone' /\ line' = <<>>))
  BY <1>0, <1>1, <1>3, <1>5, StubStays, NoNakTail
<1>7. KillInv'
  BY <1>0, <1>6 DEF KillInv, Sent
<1>8. StoppedInv' /\ AckInv' /\ AnswerInv' /\ RawInv' /\ WaitInv' /\ StopInv' /\ LeftInv'
  BY <1>0, <1>2 DEF StoppedInv, AckInv, AnswerInv, RawInv, WaitInv, StopInv, LeftInv
<1> QED
  BY <1>0, <1>2, <1>4, <1>7, <1>8 DEF LinkInv

\* The client acks the answer and has the VM, or the memory it asked for is next.
LEMMA GetAnswerKeeps == LinkInv /\ GetAnswer => LinkInv'
<1> SUFFICES ASSUME LinkInv, GetAnswer, upset = {}
             PROVE  LinkInv'
  BY DEF LinkInv, GetAnswer
<1>0. /\ cst = "answer" /\ toClient # <<>> /\ toClient' = Tail(toClient)
      /\ cst' = (CASE cmd = "k" -> "off" [] cmd \in RawRead -> "raw" [] OTHER -> "stopped")
      /\ toStub' = toStub \o (CASE cmd = "k" -> <<>>
                                [] cmd \in RawWrite -> <<Plus, RawData>>
                                [] OTHER -> <<Plus>>)
      /\ UNCHANGED stub /\ UNCHANGED <<cmd, id, want, stops, intr, odd>>
  BY DEF GetAnswer
<1>1. SessionTypes /\ toClient \in Seq(Token) /\ Tail(toClient) \in Seq(Token) /\ cmd \in Cmds \cup {"k"} /\ ~intr
  BY <1>0, HeadTailProperties DEF LinkInv, SessionTypes
<1>2. /\ <<>> \in Seq(Token) /\ <<Plus>> \in Seq(Token) /\ <<Plus, RawData>> \in Seq(Token) /\ toStub \o <<>> = toStub
      /\ <<Plus>> \o <<>> = <<Plus>> /\ <<Plus, RawData>> \o <<>> = <<Plus, RawData>>
  BY <1>1, TokenTypes, LineEmpty DEF SessionTypes
<1>3. CASE cmd = "k"
  <2>0. cst' = "off" /\ toStub' = toStub
    BY <1>0, <1>2, <1>3 DEF RawRead, RawWrite
  <2>1. SessionTypes'
    BY <1>0, <1>1, <2>0, StubStays DEF SessionTypes
  <2>2. NoNak(toClient) /\ ((\E p \in Sent : Behind(p) \/ (Runs /\ line = p)) \/ (Gone /\ line = <<>>))
    BY <1>0, <1>3 DEF LinkInv, KillInv
  <2>3. NoNak(toClient') /\ ((\E p \in Sent : Behind(p)' \/ (Runs' /\ line' = p)) \/ (Gone' /\ line' = <<>>))
    BY <1>0, <1>1, <2>0, <2>2, StubStays, NoNakTail
  <2>4. KillInv'
    BY <1>0, <2>3 DEF KillInv, Sent
  <2>5. StoppedInv' /\ AckInv' /\ AnswerInv' /\ RawInv' /\ WaitInv' /\ StopInv' /\ LeftInv'
    BY <1>0, <1>3, <2>0 DEF StoppedInv, AckInv, AnswerInv, RawInv, WaitInv, StopInv, LeftInv
  <2> QED
    BY <1>0, <1>1, <1>3, <2>1, <2>4, <2>5 DEF LinkInv
<1>4. CASE cmd # "k"
  <2>0. toClient = <<Answer(id)>> /\ Answered /\ line = <<>> /\ toClient' = <<>>
    BY <1>0, <1>1, <1>4, Replies DEF LinkInv, AnswerInv, Answered
  <2>1. cst' = (IF cmd \in RawRead THEN "raw" ELSE "stopped")
    BY <1>0, <1>4
  <2>2. toStub' = toStub \o (IF cmd \in RawWrite THEN <<Plus, RawData>> ELSE <<Plus>>)
    BY <1>0, <1>4
  <2>3. SessionTypes'
    <3>1. toStub' \in Seq(Token)
      BY <1>0, <1>1, <1>2, <2>2, SendGrows
    <3> QED
      BY <1>0, <1>1, <2>0, <2>1, <3>1 DEF SessionTypes, stub
  <2>4. CASE cmd \in RawRead
    <3>0. cst' = "raw" /\ toStub' = toStub \o <<Plus>> /\ HoldsAt("ack_rd")
      BY <2>0, <2>1, <2>2, <2>4 DEF Answered, RawRead, RawWrite
    <3>1. HoldsAt("ack_rd")' /\ input' = <<>> /\ toStub' = <<Plus>>
      BY <1>0, <1>1, <1>2, <2>0, <3>0, SendGrows
    <3>2. RawInv'
      BY <1>0, <2>0, <2>4, <3>1 DEF RawInv
    <3>3. StoppedInv' /\ AckInv' /\ AnswerInv' /\ KillInv' /\ WaitInv' /\ StopInv' /\ LeftInv'
      BY <3>0 DEF StoppedInv, AckInv, AnswerInv, KillInv, WaitInv, StopInv, LeftInv
    <3> QED
      BY <1>0, <1>1, <1>4, <2>3, <3>2, <3>3 DEF LinkInv
  <2>5. CASE cmd \notin RawRead
    <3>0. cst' = "stopped"
      BY <2>1, <2>5
    <3>1. Behind(<<>>)'
      <4>1. CASE cmd \in RawWrite
        <5>1. HoldsAt("ack_wr") /\ toStub' = toStub \o <<Plus, RawData>>
          BY <2>0, <2>2, <2>5, <4>1 DEF Answered
        <5>2. HoldsAt("ack_wr")' /\ input' = <<>> /\ toStub' = <<Plus, RawData>>
          BY <1>0, <1>1, <1>2, <2>0, <5>1, SendGrows
        <5> QED
          BY <1>2, <5>2 DEF Behind
      <4>2. CASE cmd \notin RawWrite
        <5>1. HoldsAt("recv") /\ toStub' = toStub \o <<Plus>>
          BY <2>0, <2>2, <2>5, <4>2 DEF Answered
        <5>2. HoldsAt("recv")' /\ line' = <<Plus>>
          BY <1>0, <1>1, <1>2, <2>0, <5>1, SendGrows
        <5> QED
          BY <1>2, <5>2 DEF Behind
      <4> QED
        BY <4>1, <4>2
    <3>2. StoppedInv'
      BY <1>0, <1>4, <2>0, <3>1 DEF StoppedInv
    <3>3. RawInv' /\ AckInv' /\ AnswerInv' /\ KillInv' /\ WaitInv' /\ StopInv' /\ LeftInv'
      BY <3>0 DEF RawInv, AckInv, AnswerInv, KillInv, WaitInv, StopInv, LeftInv
    <3> QED
      BY <1>0, <1>1, <1>4, <2>3, <3>2, <3>3 DEF LinkInv
  <2> QED
    BY <2>4, <2>5
<1> QED
  BY <1>3, <1>4

\* The client has the memory it asked for.
LEMMA GetRawKeeps == LinkInv /\ GetRaw => LinkInv'
<1> SUFFICES ASSUME LinkInv, GetRaw, upset = {}
             PROVE  LinkInv'
  BY DEF LinkInv, GetRaw
<1>0. /\ cst = "raw" /\ toClient # <<>> /\ toClient' = Tail(toClient) /\ cst' = "stopped" /\ toStub' = toStub
      /\ UNCHANGED stub /\ UNCHANGED <<cmd, id, want, stops, intr, odd>>
  BY DEF GetRaw
<1>1. SessionTypes /\ ~intr
  BY <1>0 DEF LinkInv
<1>2. cmd \in RawRead /\ Waits /\ toClient = <<RawData>>
  BY <1>0 DEF LinkInv, RawInv
<1>3. cmd # "k" /\ toClient' = <<>>
  BY <1>0, <1>1, <1>2, Replies DEF RawRead
<1>4. SessionTypes'
  BY <1>0, <1>1, <1>3, StubStays DEF SessionTypes
<1>5. Behind(<<>>)'
  BY <1>0, <1>2, StubStays DEF Waits, Behind
<1>6. StoppedInv'
  BY <1>0, <1>3, <1>5 DEF StoppedInv
<1>7. RawInv' /\ AckInv' /\ AnswerInv' /\ KillInv' /\ WaitInv' /\ StopInv' /\ LeftInv'
  BY <1>0 DEF RawInv, AckInv, AnswerInv, KillInv, WaitInv, StopInv, LeftInv
<1> QED
  BY <1>0, <1>1, <1>3, <1>4, <1>6, <1>7 DEF LinkInv

\* The client has the VM once the stub has nothing more to tell it.
LEMMA ControlKeeps ==
  ASSUME LinkInv, upset = {}, UNCHANGED stub, toStub' = toStub, cst' = "stopped", toClient' = <<>>,
         UNCHANGED <<cmd, id, stops, odd>>, intr' = FALSE, cmd # "k", HoldsAt("recv"), line = <<>>
  PROVE  LinkInv'
<1>1. SessionTypes
  BY DEF LinkInv
<1>2. SessionTypes'
  <2>1. <<>> \in Seq(Token)
    BY EmptySeq
  <2> QED
    BY <1>1, <2>1 DEF SessionTypes, stub
<1>3. Behind(<<>>)'
  BY StubStays DEF Behind
<1>4. StoppedInv' /\ RawInv' /\ AckInv' /\ AnswerInv' /\ KillInv' /\ WaitInv' /\ StopInv' /\ LeftInv'
  BY <1>3 DEF StoppedInv, RawInv, AckInv, AnswerInv, KillInv, WaitInv, StopInv, LeftInv
<1> QED
  BY <1>2, <1>4 DEF LinkInv

\* A stop reply gives control, or is dropped while the interrupt is awaited.
LEMMA GetStopKeeps == LinkInv /\ GetStop => LinkInv'
<1> SUFFICES ASSUME LinkInv, GetStop, upset = {}, upset' = {}
             PROVE  LinkInv'
  <2>1. GetStop /\ upset' = {} => upset = {}
    BY DEF GetStop, Taken
  <2> QED
    BY <2>1 DEF LinkInv
<1>0. cst = "wait" /\ toStub' = toStub /\ UNCHANGED stub /\ UNCHANGED <<cmd, id, want, odd>>
  BY DEF GetStop
<1>1. SessionTypes
  BY DEF LinkInv
<1>2. cmd # "k" /\ stops = <<>> /\ ~odd
  BY <1>0 DEF LinkInv, WaitInv, Resume
<1>3. toClient # <<>> /\ stops' = stops /\ toClient' = Tail(toClient)
  BY <1>2 DEF GetStop
<1>4. /\ TrapReply.t = "stop" /\ TrapReply.k = "trap" /\ IntReply.t = "stop" /\ IntReply.k = "int"
      /\ Answer(id).t = "answer"
  BY TokenKinds
<1>5. Head(toClient).t = "stop" =>
        /\ cst' = IF want = "int" /\ Head(toClient).k # "int" THEN "wait" ELSE "stopped"
        /\ intr' = (intr /\ Head(toClient).k # "int")
        /\ want # "int" => intr' # TRUE
  BY <1>1, <1>2 DEF GetStop, Taken, SessionTypes
<1>6. Head(toClient).t = "answer" => cst' = "stopped" /\ intr' = FALSE
  BY <1>1, <1>2 DEF GetStop, SessionTypes
<1>7. CASE cmd # "none"
  <2>1. /\ want # "int"
        /\ \/ HoldsAt("recv") /\ line = (IF intr THEN <<CtrlC>> ELSE <<>>) /\ toClient \in {<<Answer(id)>>, <<TrapReply>>}
           \/ Waits /\ intr /\ toClient \in {<<IntReply>>, <<Answer(id), IntReply>>, <<TrapReply, IntReply>>}
    BY <1>0, <1>3, <1>7 DEF LinkInv, WaitInv
  <2>2. CASE HoldsAt("recv") /\ line = (IF intr THEN <<CtrlC>> ELSE <<>>) /\ toClient \in {<<Answer(id)>>, <<TrapReply>>}
    <3>1. ~intr /\ cst' = "stopped" /\ intr' = FALSE /\ toClient' = <<>>
      <4>1. CASE toClient = <<Answer(id)>>
        <5>1. Head(toClient).t = "answer" /\ Tail(toClient) = <<>>
          BY <1>1, <1>4, <4>1, Replies
        <5>2. ~intr
          BY <1>2, <1>3, <5>1 DEF GetStop
        <5> QED
          BY <1>3, <1>6, <5>1, <5>2
      <4>2. CASE toClient = <<TrapReply>>
        <5>1. Head(toClient).t = "stop" /\ Head(toClient).k = "trap" /\ Tail(toClient) = <<>>
          BY <1>1, <1>4, <4>2, Replies
        <5> QED
          BY <1>1, <1>3, <1>5, <2>1, <5>1 DEF SessionTypes
      <4> QED
        BY <2>2, <4>1, <4>2
    <3> QED
      BY <1>0, <1>2, <1>3, <2>2, <3>1, ControlKeeps
  <2>3. CASE Waits /\ intr /\ toClient \in {<<IntReply>>, <<Answer(id), IntReply>>, <<TrapReply, IntReply>>}
    <3>1. toClient = <<IntReply>>
      <4>1. toClient # <<Answer(id), IntReply>>
        BY <1>1, <1>2, <1>3, <1>4, <2>3, Replies DEF GetStop
      <4>2. toClient # <<TrapReply, IntReply>>
        BY <1>1, <1>4, <1>5, <2>1, <2>3, Replies
      <4> QED
        BY <2>3, <4>1, <4>2
    <3>2. cst' = "stopped" /\ intr' = FALSE /\ toClient' = <<>>
      BY <1>1, <1>3, <1>4, <1>5, <3>1, Replies
    <3> QED
      BY <1>0, <1>2, <1>3, <2>3, <3>2, ControlKeeps DEF Waits
  <2> QED
    BY <2>1, <2>2, <2>3
<1>8. CASE cmd = "none"
  <2>1. /\ want = "int" /\ intr = TRUE
        /\ \/ toClient = <<TrapReply>> /\ Left(<<CtrlC>>)
           \/ Waits /\ toClient \in {<<IntReply>>, <<TrapReply, IntReply>>}
    BY <1>0, <1>1, <1>3, <1>8 DEF LinkInv, StopInv, Left, SessionTypes
  <2>2. CASE toClient = <<IntReply>> /\ Waits
    <3>1. cst' = "stopped" /\ intr' = FALSE /\ toClient' = <<>>
      BY <1>1, <1>3, <1>4, <1>5, <2>2, Replies
    <3> QED
      BY <1>0, <1>2, <1>3, <2>2, <3>1, ControlKeeps DEF Waits
  <2>3. CASE \/ toClient = <<TrapReply>> /\ Left(<<CtrlC>>)
             \/ toClient = <<TrapReply, IntReply>> /\ Waits
    <3>1. cst' = "wait" /\ intr' = TRUE /\ toClient' \in {<<>>, <<IntReply>>}
      BY <1>1, <1>3, <1>4, <1>5, <2>1, <2>3, Replies
    <3>2. Left(<<CtrlC>>)' \/ (Waits' /\ toClient' = <<IntReply>>)
      BY <1>0, <1>1, <1>3, <2>3, StubStays, Replies
    <3>3. StopInv'
      BY <1>0, <2>1, <3>1, <3>2 DEF StopInv
    <3>4. SessionTypes'
      <4>1. toClient' \in Seq(Token)
        <5>1. <<>> \in Seq(Token) /\ <<IntReply>> \in Seq(Token)
          BY TokenTypes
        <5> QED
          BY <3>1, <5>1
      <4> QED
        BY <1>0, <1>1, <3>1, <4>1, StubStays DEF SessionTypes
    <3>5. StoppedInv' /\ RawInv' /\ AckInv' /\ AnswerInv' /\ KillInv' /\ WaitInv' /\ LeftInv'
      BY <1>0, <1>8, <3>1 DEF StoppedInv, RawInv, AckInv, AnswerInv, KillInv, WaitInv, LeftInv
    <3> QED
      BY <1>0, <1>2, <1>3, <3>1, <3>3, <3>4, <3>5 DEF LinkInv
  <2> QED
    BY <2>1, <2>2, <2>3
<1> QED
  BY <1>7, <1>8

\* A client that dies between two commands leaves what a quiet one leaves.
LEMMA CrashKeeps == LinkInv /\ Crash => LinkInv'
<1> SUFFICES ASSUME LinkInv, Crash, upset = {}, upset' = {}
             PROVE  LinkInv'
  <2>1. Crash /\ upset' = {} => upset = {}
    BY DEF Crash
  <2> QED
    BY <2>1 DEF LinkInv
<1>0. /\ cst # "off" /\ cst' = "off" /\ toClient' = <<>> /\ cmd' = "" /\ toStub' = toStub
      /\ cst \notin {"ack", "answer", "raw"} /\ intr # TRUE
      /\ UNCHANGED stub /\ UNCHANGED <<id, want, stops, intr, odd>>
  BY DEF Crash
<1>1. SessionTypes
  BY DEF LinkInv
<1>2. cst \in {"attached", "stopped", "wait"}
  BY <1>0, <1>1 DEF SessionTypes
<1>3. <<>> \in Seq({Plus}) /\ <<>> \in Seq(Token) /\ <<>> \o <<>> = <<>>
  BY EmptySeq, LineEmpty
<1>4. Left(<<>>)'
  <2>1. CASE cst = "attached"
    BY <1>0, <2>1, StubStays DEF LinkInv, LeftInv
  <2>2. CASE cst = "stopped"
    <3>1. Behind(<<>>)'
      BY <1>0, <2>2, StubStays DEF LinkInv, StoppedInv
    <3> QED
      BY <1>0, <1>3, <3>1 DEF Left
  <2>3. CASE cst = "wait"
    <3>1. cmd # "none"
      BY <1>0, <2>3 DEF LinkInv, StopInv
    <3>2. line = <<>> /\ (Runs \/ HoldsAt("recv"))
      BY <1>0, <2>3, <3>1 DEF LinkInv, WaitInv
    <3>3. line' = <<>> /\ (Runs' \/ HoldsAt("recv")')
      BY <1>0, <3>2, StubStays
    <3> QED
      BY <1>0, <1>3, <3>3 DEF Left, Behind
  <2> QED
    BY <1>2, <2>1, <2>2, <2>3
<1>5. cmd # "k"
  BY <1>0, <1>2 DEF LinkInv, StoppedInv, WaitInv, LeftInv, Resume
<1>6. SessionTypes'
  BY <1>0, <1>1, <1>3, StubStays DEF SessionTypes
<1>7. StoppedInv' /\ RawInv' /\ AckInv' /\ AnswerInv' /\ KillInv' /\ WaitInv' /\ StopInv' /\ LeftInv'
  BY <1>0, <1>4 DEF StoppedInv, RawInv, AckInv, AnswerInv, KillInv, WaitInv, StopInv, LeftInv
<1> QED
  BY <1>0, <1>5, <1>6, <1>7 DEF LinkInv

(***************************************************************************)
(* The theorems.                                                           *)
(***************************************************************************)
\* Nobody is attached yet and nothing is under way.
LEMMA LinkInitInv == LinkInit => LinkInv
<1> SUFFICES ASSUME LinkInit
             PROVE  LinkInv
  OBVIOUS
<1>1. <<>> \in Seq(Token) /\ <<>> \o <<>> = <<>>
  BY EmptySeq, LineEmpty
<1>2. SessionTypes
  <2>1. input \in Seq(Token) /\ toStub \in Seq(Token) /\ toClient \in Seq(Token)
    BY <1>1, Zenon DEF LinkInit
  <2>2. on \in BOOLEAN /\ lock \in BOOLEAN /\ ack \in BOOLEAN /\ intr \in BOOLEAN /\ ~lock
    BY DEF LinkInit
  <2>3. id \in 0..1
    BY DEF LinkInit
  <2>4. pc = "guest" /\ cst = "off"
    BY DEF LinkInit
  <2> QED
    BY <2>1, <2>2, <2>3, <2>4 DEF SessionTypes
<1>3. Gone /\ line = <<>> /\ NoNak(toClient)
  BY <1>1 DEF LinkInit, Gone, Outside, line, NoNak
<1>4. KillInv
  BY <1>3 DEF KillInv
<1>5. StoppedInv /\ RawInv /\ AckInv /\ AnswerInv /\ WaitInv /\ StopInv /\ LeftInv
  BY DEF LinkInit, StoppedInv, RawInv, AckInv, AnswerInv, WaitInv, StopInv, LeftInv
<1> QED
  BY <1>2, <1>4, <1>5 DEF LinkInit, LinkInv

\* A step of neither.
LEMMA LinkStutters == LinkInv /\ UNCHANGED linkvars => LinkInv'
<1> SUFFICES ASSUME LinkInv, UNCHANGED linkvars, upset = {}
             PROVE  LinkInv'
  BY DEF LinkInv, linkvars
<1>0. /\ UNCHANGED stub /\ UNCHANGED client /\ UNCHANGED <<toStub, toClient, upset>>
      /\ UNCHANGED <<on, lock, ack, pc, input, cst, cmd, id, want, stops, intr, odd>>
  BY DEF linkvars, stub, client
<1>1. line' = line
  BY <1>0 DEF line
<1> QED
  BY <1>0, <1>1 DEF LinkInv, SessionTypes, StoppedInv, AckInv, AnswerInv, RawInv, WaitInv, StopInv, LeftInv, KillInv,
                    Behind, Holds, HoldsAt, Waits, Runs, Gone, Attaching, Outside, Answered, Left, Sent, NoNak

\* Every step of stub, guest and client keeps the invariant.
LEMMA LinkStep == LinkInv /\ [LinkNext]_linkvars => LinkInv'
<1> SUFFICES ASSUME LinkInv, [LinkNext]_linkvars
             PROVE  LinkInv'
  OBVIOUS
<1>1. CASE StubStep
  BY <1>1, ExitKeeps, RecvKeeps, LeaveKeeps, ConsumeByteKeeps, ConsumeDamagedKeeps, ProcessKeeps,
     WaitAckKeeps, RawSendKeeps, RawRecvKeeps DEF StubStep
<1>2. CASE GuestEvent \/ RawFault \/ GetDamaged
  BY <1>2, GuestEventKeeps, MarkedKeeps
<1>3. CASE ClientStep
  BY <1>3, StopKeeps, GetAckKeeps, PoolOtherKeeps, GetAnswerKeeps, GetRawKeeps, GetStopKeeps DEF ClientStep
<1>4. CASE Connect \/ Interrupt \/ Quit \/ Crash
  BY <1>4, ConnectKeeps, InterruptKeeps, QuitKeeps, CrashKeeps
<1>5. ASSUME NEW k \in Cmds, Send(k)
      PROVE  LinkInv'
  BY <1>5, CommandKeeps
<1>6. CASE UNCHANGED linkvars
  BY <1>6, LinkStutters
<1> QED
  BY <1>1, <1>2, <1>3, <1>4, <1>5, <1>6 DEF LinkNext

\* The invariant names what may be under way to the client.
LEMMA LinkInvAnswers == LinkInv => AnswersMatch
<1> SUFFICES ASSUME LinkInv, upset = {}
             PROVE  /\ cst \in {"ack", "answer"} /\ cmd # "k" =>
                         \A i \in 1..Len(toClient) : toClient[i].t = "answer" => toClient[i].n = id
                    /\ odd => cmd = "k"
  BY DEF AnswersMatch
<1>1. ASSUME cst \in {"ack", "answer"}, cmd # "k"
      PROVE  toClient \in {<<>>, <<Minus>>, <<Plus, Answer(id)>>, <<Plus>>, <<Plus, TrapReply>>, <<Answer(id)>>}
  BY <1>1 DEF LinkInv, AckInv, AnswerInv
<1>2. /\ Minus.t # "answer" /\ Plus.t # "answer" /\ TrapReply.t # "answer" /\ Answer(id).n = id
  BY TokenKinds
<1>3. ASSUME NEW s \in {<<>>, <<Minus>>, <<Plus, Answer(id)>>, <<Plus>>, <<Plus, TrapReply>>, <<Answer(id)>>},
             NEW i \in 1..Len(s), s[i].t = "answer"
      PROVE  s[i].n = id
  <2>1. CASE s = <<>>
    BY <2>1
  <2>2. CASE s = <<Minus>>
    BY <1>2, <1>3, <2>2
  <2>3. CASE s = <<Plus, Answer(id)>>
    BY <1>2, <1>3, <2>3
  <2>4. CASE s = <<Plus>>
    BY <1>2, <1>3, <2>4
  <2>5. CASE s = <<Plus, TrapReply>>
    BY <1>2, <1>3, <2>5
  <2>6. CASE s = <<Answer(id)>>
    BY <1>2, <1>3, <2>6
  <2> QED
    BY <2>1, <2>2, <2>3, <2>4, <2>5, <2>6
<1> QED
  BY <1>1, <1>3 DEF LinkInv

\* The invariant says who holds the VM.
LEMMA LinkInvInStep == LinkInv => InStep
<1> SUFFICES ASSUME LinkInv, upset = {}
             PROVE  /\ cst \in {"stopped", "answer", "raw"} /\ cmd # "k" =>
                         /\ on /\ lock /\ pc # "guest"
                         /\ stops = <<>> /\ \A i \in 1..Len(toClient) : toClient[i].t # "stop"
                    /\ cst = "off" /\ cmd = "k" => (~on /\ ~lock) \/ KillUnderWay
  BY DEF InStep
<1>1. SessionTypes
  BY DEF LinkInv
<1>2. ASSUME cst \in {"stopped", "answer", "raw"}, cmd # "k"
      PROVE  /\ on /\ lock /\ pc # "guest"
             /\ stops = <<>> /\ \A i \in 1..Len(toClient) : toClient[i].t # "stop"
  <2>1. on /\ lock /\ pc # "guest"
    BY <1>1, <1>2 DEF LinkInv, StoppedInv, AnswerInv, RawInv, Behind, Answered, Waits, HoldsAt, Holds, SessionTypes
  <2>2. toClient \in {<<>>, <<Answer(id)>>, <<RawData>>}
    BY <1>2 DEF LinkInv, StoppedInv, AnswerInv, RawInv
  <2>3. Answer(id).t # "stop" /\ RawData.t # "stop"
    BY TokenKinds
  <2>4. \A i \in 1..Len(toClient) : toClient[i].t # "stop"
    BY <2>2, <2>3
  <2> QED
    BY <1>2, <2>1, <2>4 DEF LinkInv
<1>3. ASSUME cst = "off", cmd = "k"
      PROVE  (~on /\ ~lock) \/ KillUnderWay
  <2>1. CASE \E p \in Sent : Behind(p) \/ line = p
    <3>1. \E i \in Unread : line[i].k = cmd
      BY <1>1, <1>3, <2>1, CommandOnLine
    <3> QED
      BY <1>3, <3>1 DEF KillUnderWay, line
  <2>2. CASE Gone
    BY <2>2 DEF Gone
  <2> QED
    BY <1>3, <2>1, <2>2 DEF LinkInv, KillInv
<1> QED
  BY <1>2, <1>3

\* The two channels, the loop of the stub (gdb_recv_packet, gdb_wait_ack, a raw
\* transfer) and what the client waits for fit together in every session that
\* nothing has disturbed.
THEOREM LinkSafe == LinkSpec => []LinkInv
<1> QED
  BY LinkInitInv, LinkStep, PTL DEF LinkSpec

\* An answer gdb_send_packet wrote meets the command the client of __recv_pkt
\* waits about, and wait_ack meets an ack, through packets damaged and sent again,
\* interrupts, events, raw transfers and clients that left or died.
THEOREM AnswersSafe == LinkSpec => []AnswersMatch
<1> QED
  BY LinkSafe, LinkInvAnswers, PTL

\* A client that has control holds the VM (gdb_preempt locked the stub, the guest
\* does not run, no stop reply is left over), and one that left with "k" has
\* freed it or its packet is still to be read.
THEOREM InStepSafe == LinkSpec => []InStep
<1> QED
  BY LinkSafe, LinkInvInStep, PTL

(***************************************************************************)
(* The kinds of values, whatever disturbs the link.                        *)
(***************************************************************************)
LinkTypeInv ==
    /\ on \in BOOLEAN /\ lock \in BOOLEAN /\ ack \in BOOLEAN /\ tick \in 0..(Rate - 1)
    /\ pc \in {"guest", "poll", "recv", "ack_rd", "ack_wr", "rd", "wr"}
    /\ cst \in {"off", "attached", "stopped", "ack", "answer", "raw", "wait"}
    /\ input \in Seq(Token) /\ Len(input) <= InputSz /\ toStub \in Seq(Token)
    /\ cmd \in Sendable /\ id \in 0..1

\* They are those of LinkTypeOK.
LEMMA TypesAre == LinkTypeInv => LinkTypeOK
<1> SUFFICES ASSUME LinkTypeInv
             PROVE  LinkTypeOK
  OBVIOUS
<1>1. ASSUME NEW i \in 1..Len(toStub)
      PROVE  toStub[i].t \in Tokens
  <2>1. toStub[i] \in Token
    BY ElementOfSeq DEF LinkTypeInv
  <2> QED
    BY <2>1 DEF Token
<1> QED
  BY <1>1 DEF LinkTypeInv, LinkTypeOK

\* The end of the packet in gdb_input is a place in it.
LEMMA EndIn ==
  ASSUME input \in Seq(Token), Ends # {}
  PROVE  End \in 1..Len(input)
<1>1. Ends \in SUBSET Nat
  BY LenProperties DEF Ends
<1>2. \E j \in Ends : \A i \in Ends : j <= i
  <2>1. Min(Ends) \in Ends /\ \A y \in Ends : Min(Ends) <= y
    BY <1>1, MinIsLeast
  <2> QED
    BY <2>1
<1>3. End \in Ends
  BY <1>2, Zenon DEF End
<1> QED
  BY <1>3 DEF Ends

\* What is left of gdb_input behind a place in it.
LEMMA InputRest ==
  ASSUME input \in Seq(Token), NEW e \in 1..Len(input)
  PROVE  SubSeq(input, e + 1, Len(input)) \in Seq(Token) /\ Len(SubSeq(input, e + 1, Len(input))) <= Len(input)
<1>1. Len(input) \in Nat /\ e + 1 \in Int /\ \A i \in e + 1..Len(input) : input[i] \in Token
  <2>1. Len(input) \in Nat
    BY LenProperties
  <2>2. ASSUME NEW i \in e + 1..Len(input)
        PROVE  i \in 1..Len(input)
    BY <2>1
  <2> QED
    BY <2>1, <2>2, ElementOfSeq
<1>2. /\ SubSeq(input, e + 1, Len(input)) \in Seq(Token)
      /\ Len(SubSeq(input, e + 1, Len(input))) = IF e + 1 <= Len(input) THEN Len(input) - (e + 1) + 1 ELSE 0
  BY <1>1, SubSeqProperties
<1> QED
  BY <1>1, <1>2

\* The stub keeps them.
LEMMA StubTypes == LinkTypeInv /\ (StubStep \/ GuestEvent \/ RawFault) => LinkTypeInv'
<1> SUFFICES ASSUME LinkTypeInv, StubStep \/ GuestEvent \/ RawFault
             PROVE  LinkTypeInv'
  OBVIOUS
<1> USE DEF LinkTypeInv
<1>0. /\ UNCHANGED <<cst, cmd, id>> /\ input \in Seq(Token) /\ toStub \in Seq(Token)
      /\ Len(input) \in Nat /\ Len(toStub) \in Nat
  <2>1. UNCHANGED client
    BY DEF StubStep, Exit, Recv, Leave, ConsumeByte, ConsumeDamaged, Process, WaitAck, RawSend, RawRecv, GuestEvent, RawFault
  <2> QED
    BY <2>1, LenProperties DEF client
<1>1. CASE Exit
  <2>1. tick' \in 0..(Rate - 1)
    BY <1>1, LinkAssumption DEF Exit
  <2> QED
    BY <1>0, <1>1, <2>1 DEF Exit
<1>2. ASSUME NEW n \in 1..InputSz, Recv(n)
      PROVE  LinkTypeInv'
  <2>0. n \in Nat /\ n <= Len(toStub) /\ Len(input) + n <= InputSz
    BY <1>2, LinkAssumption DEF Recv
  <2>1. SubSeq(toStub, 1, n) \in Seq(Token) /\ SubSeq(toStub, n + 1, Len(toStub)) \in Seq(Token)
    BY <1>0, <2>0, LineMoves
  <2>2. Len(SubSeq(toStub, 1, n)) = n
    BY <1>0, <2>0
  <2>3. input' \in Seq(Token) /\ Len(input') = Len(input) + n /\ toStub' \in Seq(Token)
    BY <1>0, <1>2, <2>1, <2>2, ConcatProperties DEF Recv
  <2> QED
    BY <1>0, <1>2, <2>0, <2>3 DEF Recv
<1>3. CASE Leave
  BY <1>0, <1>3 DEF Leave
<1>4. CASE ConsumeByte
  <2>1. input' \in Seq(Token) /\ Len(input') = Len(input) - 1
    BY <1>0, <1>4, HeadTailProperties DEF ConsumeByte
  <2>2. on' \in BOOLEAN /\ lock' \in BOOLEAN /\ ack' \in BOOLEAN
    BY <1>4 DEF ConsumeByte, Preempt, SendPacket
  <2> QED
    BY <1>0, <1>4, <2>1, <2>2, LinkAssumption DEF ConsumeByte
<1>5. CASE ConsumeDamaged
  <2>1. input' = SubSeq(input, End + 1, Len(input)) /\ End \in 1..Len(input)
    BY <1>0, <1>5, EndIn DEF ConsumeDamaged, Complete
  <2>2. input' \in Seq(Token) /\ Len(input') <= Len(input) /\ Len(input') \in Nat
    BY <1>0, <2>1, InputRest, LenProperties
  <2> QED
    BY <1>0, <1>5, <2>2, LinkAssumption DEF ConsumeDamaged
<1>6. CASE Process
  <2>1. 3 \in 1..Len(input)
    <3>1. End = 3 /\ End \in 1..Len(input)
      BY <1>0, <1>6, EndIn DEF Process, Complete, Sound
    <3> QED
      BY <3>1
  <2>2. input' = SubSeq(input, 3 + 1, Len(input))
    BY <1>6 DEF Process
  <2>3. input' \in Seq(Token) /\ Len(input') <= Len(input) /\ Len(input') \in Nat
    BY <1>0, <2>1, <2>2, InputRest, LenProperties
  <2>4. on' \in BOOLEAN /\ lock' \in BOOLEAN /\ ack' \in BOOLEAN /\ pc' \in {"recv", "ack_rd", "ack_wr"}
    BY <1>6 DEF Process, CmdResume, CmdKill, CmdOther, CmdRefused, CmdRaw, SendPacket
  <2>5. tick' = tick /\ toStub' = toStub
    BY <1>6 DEF Process
  <2> QED
    BY <1>0, <2>3, <2>4, <2>5, LinkAssumption
<1>7. CASE WaitAck \/ RawRecv
  <2>1. toStub' \in Seq(Token)
    BY <1>0, <1>7, HeadTailProperties DEF WaitAck, RawRecv
  <2> QED
    BY <1>0, <1>7, <2>1 DEF WaitAck, RawRecv
<1>8. CASE RawSend \/ RawFault
  BY <1>0, <1>8 DEF RawSend, RawFault
<1>9. CASE GuestEvent
  BY <1>0, <1>9 DEF GuestEvent, Preempt, SendPacket
<1> QED
  BY <1>1, <1>2, <1>3, <1>4, <1>5, <1>6, <1>7, <1>8, <1>9 DEF StubStep

\* The client keeps the kinds of values when what it sends is made of tokens.
LEMMA ClientTypes ==
  ASSUME LinkTypeInv, UNCHANGED stub, NEW x \in Seq(Token), toStub' = toStub \o x,
         cst' \in {"off", "attached", "stopped", "ack", "answer", "raw", "wait"}, cmd' \in Sendable, id' \in 0..1
  PROVE  LinkTypeInv'
<1>1. toStub' \in Seq(Token)
  BY ConcatProperties DEF LinkTypeInv
<1> QED
  BY <1>1 DEF LinkTypeInv, stub

\* A packet is made of tokens, whole or damaged.
LEMMA TransmitTypes ==
  ASSUME NEW k \in Sendable, NEW n \in 0..1, Transmit(k, n)
  PROVE  \E x \in Seq(Token) : toStub' = toStub \o x
BY TokenTypes DEF Transmit

\* Every action of the client keeps them.
LEMMA ClientStepTypes ==
  ASSUME LinkTypeInv, ClientStep \/ Connect \/ Interrupt \/ Quit \/ GetDamaged \/ Crash \/ \E k \in Cmds : Send(k)
  PROVE  LinkTypeInv'
<1>1. /\ UNCHANGED stub /\ toStub \in Seq(Token) /\ cst \in {"off", "attached", "stopped", "ack", "answer", "raw", "wait"}
      /\ cmd \in Sendable /\ id \in 0..1
  BY DEF ClientStep, Stop, GetAck, PoolOther, GetAnswer, GetRaw, GetStop, Connect, Interrupt, Quit, GetDamaged,
         Crash, Send, LinkTypeInv
<1>2. /\ <<>> \in Seq(Token) /\ toStub \o <<>> = toStub
      /\ \A a \in Token : <<a>> \in Seq(Token) /\ Append(toStub, a) = toStub \o <<a>>
  BY <1>1, LineEmpty, EmptySeq, AppendIsConcat
<1>3. /\ Plus \in Token /\ CtrlC \in Token /\ Minus \in Token /\ Tok("$", "", 0) \in Token
      /\ <<Plus, RawData>> \in Seq(Token)
  <2>1. Plus \in Token /\ RawData \in Token
    BY TokenTypes
  <2>2. <<Plus, RawData>> \in Seq(Token)
    BY <2>1
  <2> QED
    BY <2>2, TokenTypes, MarkTypes
<1>4. 1 - id \in 0..1
  BY <1>1
<1>5. \E x \in Seq(Token) : toStub' = toStub \o x
  <2>1. CASE Stop \/ Interrupt
    BY <1>2, <1>3, <2>1 DEF Stop, Interrupt
  <2>2. CASE Connect
    BY <1>2, <1>3, <2>2 DEF Connect
  <2>3. CASE GetDamaged
    BY <1>2, <1>3, <2>3 DEF GetDamaged
  <2>4. CASE GetRaw \/ GetStop
    BY <1>2, <2>4 DEF GetRaw, GetStop
  <2>5. CASE PoolOther
    BY <1>2, <1>3, <2>5 DEF PoolOther
  <2>6. CASE Crash
    BY <1>2, <1>3, <2>6 DEF Crash
  <2>7. CASE GetAck
    BY <1>1, <1>2, <2>7, TransmitTypes DEF GetAck
  <2>8. ASSUME NEW k \in Cmds, Send(k)
        PROVE  \E x \in Seq(Token) : toStub' = toStub \o x
    <3>1. k \in Sendable /\ 1 - id \in 0..1 /\ Transmit(k, 1 - id)
      BY <1>1, <1>4, <2>8 DEF Send, Sendable
    <3> QED
      BY <3>1, TransmitTypes
  <2>9. CASE Quit
    <3>1. "k" \in Sendable /\ 1 - id \in 0..1 /\ Transmit("k", 1 - id)
      BY <1>4, <2>9 DEF Quit, Sendable
    <3> QED
      BY <3>1, TransmitTypes
  <2>10. CASE GetAnswer
    <3>1. \/ toStub' = toStub \o <<>> \/ toStub' = toStub \o <<Plus, RawData>> \/ toStub' = toStub \o <<Plus>>
      <4>1. "k" \notin RawWrite
        BY DEF RawWrite
      <4> QED
        BY <2>10, <4>1 DEF GetAnswer
    <3> QED
      BY <1>2, <1>3, <3>1
  <2> QED
    BY <2>1, <2>2, <2>3, <2>4, <2>5, <2>6, <2>7, <2>8, <2>9, <2>10 DEF ClientStep
<1>6. cmd' \in Sendable /\ id' \in 0..1
  <2>1. ASSUME NEW k \in Cmds, Send(k)
        PROVE  cmd' \in Sendable /\ id' \in 0..1
    BY <1>4, <2>1 DEF Send, Sendable
  <2>2. CASE Quit \/ Connect \/ Crash
    BY <1>1, <1>4, <2>2 DEF Quit, Connect, Crash, Sendable
  <2>3. CASE ClientStep \/ Interrupt \/ GetDamaged
    <3>1. cmd' = cmd /\ id' = id
      BY <2>3 DEF ClientStep, Stop, GetAck, PoolOther, GetAnswer, GetRaw, GetStop, Interrupt, GetDamaged, client
    <3> QED
      BY <1>1, <3>1
  <2> QED
    BY <2>1, <2>2, <2>3
<1>7. cst' \in {"off", "attached", "stopped", "ack", "answer", "raw", "wait"}
  <2>1. CASE GetAck
    BY <1>1, <2>1 DEF GetAck, AfterAck
  <2>2. CASE GetAnswer
    <3>1. "k" \notin RawRead
      BY DEF RawRead
    <3> QED
      BY <2>2, <3>1 DEF GetAnswer
  <2>3. CASE GetStop
    BY <2>3 DEF GetStop, Taken
  <2> QED
    BY <1>1, <2>1, <2>2, <2>3 DEF ClientStep, Stop, PoolOther, GetRaw, Connect, Interrupt, Quit, GetDamaged,
                                  Crash, Send, client
<1> QED
  BY <1>1, <1>5, <1>6, <1>7, ClientTypes

\* Whatever disturbs the link, gdb_recv_packet never puts more than GDB_INPUT_SZ
\* into gdb_input, and its reader and its writers are in one of their loops.
THEOREM LinkTypes == LinkSpec => []LinkTypeOK
<1>1. LinkInit => LinkTypeInv
  <2> SUFFICES ASSUME LinkInit
               PROVE  LinkTypeInv
    OBVIOUS
  <2>1. <<>> \in Seq(Token) /\ Len(<<>>) = 0
    BY EmptySeq
  <2>2. input \in Seq(Token) /\ toStub \in Seq(Token) /\ Len(input) <= InputSz
    BY <2>1, LinkAssumption DEF LinkInit
  <2>3. on \in BOOLEAN /\ lock \in BOOLEAN /\ ack \in BOOLEAN
    BY DEF LinkInit
  <2>4. tick \in 0..(Rate - 1)
    BY LinkAssumption DEF LinkInit
  <2>5. id \in 0..1
    BY DEF LinkInit
  <2>6. pc = "guest" /\ cst = "off" /\ cmd \in Sendable
    BY DEF LinkInit, Sendable
  <2> QED
    BY <2>2, <2>3, <2>4, <2>5, <2>6 DEF LinkTypeInv
<1>2. LinkTypeInv /\ [LinkNext]_linkvars => LinkTypeInv'
  <2>1. LinkTypeInv /\ UNCHANGED linkvars => LinkTypeInv'
    BY DEF LinkTypeInv, linkvars, stub, client
  <2> QED
    BY <2>1, StubTypes, ClientStepTypes DEF LinkNext
<1> QED
  BY <1>1, <1>2, TypesAre, PTL DEF LinkSpec

(***************************************************************************)
(* Dbgp: the call stack of the driver.                                     *)
(***************************************************************************)

\* Depths of the stack.
LEMMA PositiveCases == \A n \in Nat \ {0} : n = 1 \/ n > 1
OBVIOUS

LEMMA MoreThanOne == \A n \in Nat : n > 1 => n # 1
OBVIOUS

LEMMA TwoOrMore == \A n \in Nat : n > 1 => n = 2 \/ n > 2
OBVIOUS

LEMMA NotOne == \A n \in Nat : n >= 2 => n # 1
OBVIOUS

IsInit(f) == f.fn \in {"full_init", "fast_init"}
OnUsb(f) == f.fn = "emit" /\ f.req \in UsbRequests
OnData(f) == f.fn = "emit" /\ f.req \in {"OUT", "IN"}

\* The frames at the bottom of a stack: called by the VMM or by the boot.
AtBottom(f) == f.fn \in {"write", "read", "boot", "fast_init", "panic"}

\* What dbgp_configure asks where it waits.
Asks(l, req) ==
    \/ l = "descriptor" /\ req = "get_descriptor"
    \/ l = "answer" /\ req = "read_descriptor"
    \/ l = "addr" /\ req = "set_addr"
    \/ l \in {"mode", "mode_old"} /\ req = "set_debug_mode"

\* Frame f waits for the call c.  Only a packet of the VMM finds the debug
\* port disabled when it starts.
WaitsFor(c, f) ==
    \/ c.fn = "emit" /\ f.fn = "write" /\ f.at = "wait" /\ c.req = "OUT"
    \/ c.fn = "emit" /\ f.fn = "read" /\ f.at = "wait" /\ c.req = "IN"
    \/ c.fn = "emit" /\ f.fn = "configure" /\ Asks(f.at, c.req)
    \/ c.fn = "configure" /\ IsInit(f) /\ f.at = "configure"
    \/ c.fn = "full_init" /\ f.fn = "emit" /\ (f.at = "reinit" \/ (f.at = "init" /\ OnData(f)))
    \/ c.fn = "full_init" /\ f.fn = "boot" /\ f.at = "wait"

FrameOK(f) ==
    /\ f \in Frames
    /\ f.fn = "emit" /\ f.at \in {"start", "init", "go"} => f.retry >= 1
    /\ f.fn = "configure" =>
         /\ f.times >= 1
         /\ f.at # "probe" => f.dev < NADDR
         /\ f.at \in {"addr", "mode"} => SETADDR

StackOK(s) ==
    /\ s \in Seq(Frames)
    /\ \A i \in 1..Len(s) : FrameOK(s[i])
    /\ \A i \in 1..Len(s) - 1 : WaitsFor(s[i], s[i + 1])
    /\ s # <<>> => AtBottom(s[Len(s)])

\* A write that waits has a packet left to write.
WriteLeft ==
    stack # <<>> /\ stack[Len(stack)].fn = "write" /\ stack[Len(stack)].at = "wait"
        => io.out < io.goal

DbgpTypes == DbgpTypeOK /\ StackOK(stack) /\ WriteLeft

(***************************************************************************)
(* The address: what holds of the innermost configuration, and outside.    *)
(***************************************************************************)

Agreed == dev.mode /\ dev.steady => drv.addr = dev.addr

\* Outside any configuration the driver and the device agree.
Quiet(s) == \A i \in 1..Len(s) : s[i].fn \notin {"configure", "panic"}
QuietAgrees == Quiet(stack) => Agreed

PendingKnown == dev.pend \in {NoAddr, DBGP_DEV_ADDR} /\ (~SETADDR => dev.pend = NoAddr)

\* A request back from an initialisation that failed, which it calls again.
Broken == Top.at = "reinit" /\ ret = "fail"

PortEnabled ==
    /\ stack # <<>>
    /\ \/ Top.fn = "configure"
       \/ IsInit(Top) /\ Top.at = "configure"
       \/ OnUsb(Top) /\ ~Broken
    => ctrl.enbl /\ ctrl.ownd

\* The address a request goes to.
RequestAddress ==
    stack # <<>> /\ OnUsb(Top) /\ Top.at \in {"start", "init", "go"}
        => drv.addr = IF stack[2].at = "mode" THEN DBGP_DEV_ADDR ELSE stack[2].dev

\* A device still at the address it was found at will move with its next request.
Moving(d, f) == d.steady /\ d.addr = f.dev => f.dev = DBGP_DEV_ADDR \/ d.pend = DBGP_DEV_ADDR
Moves(d, f) == SETADDR /\ f.at \in {"mode", "mode_old"} => Moving(d, f)

DeviceMoves ==
    stack # <<>> =>
        /\ OnUsb(Top) /\ ~Broken => Moves(dev, stack[2])
        /\ Top.fn = "configure" => Moves(dev, Top)

Configured(a) == dev.steady => dev.mode /\ dev.addr = a

RequestDone ==
    stack # <<>> /\ ret = "done" =>
        /\ Top.fn = "configure" =>
             /\ Top.at \in {"descriptor", "answer"} => drv.addr = Top.dev
             /\ Top.at = "addr" => Moving(dev, Top)
             /\ Top.at \in {"mode", "mode_old"}
                   => Configured(IF SETADDR THEN DBGP_DEV_ADDR ELSE Top.dev)
        /\ IsInit(Top) /\ Top.at = "configure" =>
             /\ Configured(drv.addr)
             /\ SETADDR => drv.addr = DBGP_DEV_ADDR

AddressInv ==
    /\ QuietAgrees /\ PendingKnown /\ PortEnabled /\ RequestAddress
    /\ DeviceMoves /\ RequestDone

(***************************************************************************)
(* The streams.                                                            *)
(***************************************************************************)

B2N(b) == IF b THEN 1 ELSE 0
Repeated(s) == Len(s) - Cardinality(ToSet(s))
Missing == (1..io.out) \ ToSet(dev.got)

\* A packet is being written; the frame that emits it.
Writing(s) == Len(s) >= 2 /\ s[Len(s)].fn = "write"
PacketFrame(s) == s[Len(s) - 1]
WriteDone == At("write", "wait") /\ ret = "done"
WriteFailing == Writing(stack) /\ PacketFrame(stack).at = "failure"

\* The packet under way, or the next one, has reached the device.
Delivered == io.out + 1 \in ToSet(dev.got)

Ordered ==
    /\ \A i \in 1..Len(dev.got) : dev.got[i] <= io.out + 1
    /\ \A i \in 1..Len(dev.got) - 1 : dev.got[i] <= dev.got[i + 1]
    /\ \A i \in 1..Len(io.taken) : io.taken[i] <= dev.next
    /\ io.taken # <<>> => io.taken[Len(io.taken)] >= dev.next - 1
    /\ \A i \in 1..Len(io.taken) - 1 : io.taken[i + 1] - io.taken[i] \in {0, 1}

RepeatedOut ==
    LET n == Repeated(dev.got) + B2N(Delivered /\ ~WriteDone)
    IN  /\ n <= faults
        /\ harm < HarmCap => Repeated(dev.got) <= harm /\ n <= harm + B2N(WriteFailing)

RepeatedIn ==
    LET n == Repeated(io.taken) + B2N(dev.next \in ToSet(io.taken))
    IN  n <= faults /\ (harm < HarmCap => n <= harm)

\* The next packet is taken for a repetition: w the toggle last sent, t the
\* one the device expects.
Differ(w, t) == B2N(1 - w # t)
AfterPacket(p) == IF p = dev.tog THEN 1 - dev.tog ELSE dev.tog

\* Packets the device may still discard before a transfer fails.
Discards ==
    IF stack # <<>> /\ Top.fn = "panic" THEN 0
    ELSE IF Writing(stack) THEN
        IF PacketFrame(stack).at = "failure" THEN 0
        ELSE IF PacketFrame(stack).at = "reinit" \/ PacketFrame(stack).pid = 2 THEN 2
        ELSE B2N(PacketFrame(stack).pid # dev.tog) + Differ(drv.wr_toggle, AfterPacket(PacketFrame(stack).pid))
    ELSE IF WriteDone THEN Differ(drv.wr_toggle, dev.tog) + B2N(~Delivered)
    ELSE IF At("write", "wait") \/ ~drv.status THEN 2
    ELSE Differ(drv.wr_toggle, dev.tog)

MissingOut == harm < HarmCap => Cardinality(Missing) + Discards <= 2 * harm

\* A device that is not there, and one no packet was sent to, expects DATA0.
ToggleKnown ==
    /\ ~dev.in \/ dev.speed # "high" => dev.tog = 0
    /\ harm = 0 /\ io.out = 0 /\ ~WriteDone /\ ~WriteFailing => dev.tog = 0

StreamInv == Ordered /\ RepeatedOut /\ RepeatedIn /\ MissingOut /\ ToggleKnown

-----------------------------------------------------------------------------
(* A call, a step and a return of the driver on its stack. *)

\* A call: the new frame, the caller, and what was under it.
LEMMA StackPush ==
  ASSUME NEW S, NEW s \in Seq(S), s # <<>>, NEW c \in S, NEW g \in S,
         NEW t, t = <<c, g>> \o Tail(s)
  PROVE  /\ t \in Seq(S) /\ Len(t) = Len(s) + 1 /\ Len(s) \in Nat \ {0}
         /\ t[1] = c /\ t[2] = g
         /\ \A i \in 3..Len(t) : t[i] = s[i - 1]
<1>1. Tail(s) \in Seq(S) /\ Len(Tail(s)) = Len(s) - 1 /\ Len(s) \in Nat \ {0}
      /\ \A i \in 1..Len(Tail(s)) : Tail(s)[i] = s[i + 1]
  OBVIOUS
<1>2. <<c, g>> \in Seq(S) /\ Len(<<c, g>>) = 2 /\ <<c, g>>[1] = c /\ <<c, g>>[2] = g
  OBVIOUS
<1>3. /\ t \in Seq(S) /\ Len(t) = Len(s) + 1
      /\ \A i \in 1..Len(t) : t[i] = IF i <= 2 THEN <<c, g>>[i] ELSE Tail(s)[i - 2]
  BY <1>1, <1>2, ConcatProperties
<1>4. \A i \in 3..Len(t) : t[i] = s[i - 1]
  BY <1>1, <1>3
<1> QED
  BY <1>1, <1>2, <1>3, <1>4

\* A step of the frame on top.
LEMMA StackTop ==
  ASSUME NEW S, NEW s \in Seq(S), s # <<>>, NEW g \in S, NEW t, t = [s EXCEPT ![1] = g]
  PROVE  /\ t \in Seq(S) /\ Len(t) = Len(s) /\ t # <<>> /\ Len(s) \in Nat \ {0}
         /\ t[1] = g
         /\ \A i \in 2..Len(t) : t[i] = s[i]
OBVIOUS

\* A return.
LEMMA StackPop ==
  ASSUME NEW S, NEW s \in Seq(S), s # <<>>, NEW t, t = Tail(s)
  PROVE  /\ t \in Seq(S) /\ Len(t) = Len(s) - 1 /\ Len(s) \in Nat \ {0}
         /\ \A i \in 1..Len(t) : t[i] = s[i + 1]
OBVIOUS

\* Frame g is frame f, further on.
Onward(g, f) == FrameOK(g) /\ g.fn = f.fn /\ (f.fn = "emit" => g.req = f.req)

(* What a call, a step and a return leave on the stack. *)

\* The bottom frame, and the one above it when it is not on top.
SameBottom(s, t) ==
    /\ Len(s) >= 2 /\ t # <<>> => t[Len(t)] = s[Len(s)]
    /\ Len(s) >= 3 /\ Len(t) >= 2 => t[Len(t) - 1] = s[Len(s) - 1]

Pushes(s, t, c, g) ==
    /\ StackOK(t) /\ Len(t) = Len(s) + 1 /\ t # <<>> /\ Len(s) \in Nat \ {0}
    /\ t[1] = c /\ t[2] = g /\ Onward(g, s[1]) /\ WaitsFor(c, g)
    /\ SameBottom(s, t) /\ (Quiet(t) => Quiet(s))

Steps(s, t, g) ==
    /\ StackOK(t) /\ Len(t) = Len(s) /\ t # <<>> /\ Len(s) \in Nat \ {0}
    /\ t[1] = g /\ Onward(g, s[1]) /\ (Len(s) >= 2 => t[2] = s[2])
    /\ SameBottom(s, t) /\ (Quiet(t) => Quiet(s))

Pops(s, t) ==
    /\ StackOK(t) /\ Len(t) = Len(s) - 1 /\ Len(s) \in Nat \ {0} /\ Len(t) \in Nat
    /\ (t = <<>> <=> Len(s) = 1) /\ (Len(s) >= 2 => t[1] = s[2] /\ WaitsFor(s[1], s[2]))
    /\ SameBottom(s, t)
    /\ Quiet(t) /\ s[1].fn \notin {"configure", "panic"} => Quiet(s)

\* A frame further on is waited for as before.
LEMMA WaitsOnward ==
  ASSUME NEW f, NEW g, NEW h, Onward(g, f), WaitsFor(f, h)
  PROVE  WaitsFor(g, h)
BY DEF Onward, WaitsFor

\* What waits is no write, read or boot, and only those are at the bottom.
LEMMA WaitsBottom ==
  ASSUME NEW c, NEW f, WaitsFor(c, f)
  PROVE  ~AtBottom(c)
BY DEF WaitsFor, AtBottom

\* A call is well formed, and adds nothing but its frame.
LEMMA CallShape ==
  ASSUME NEW s, StackOK(s), s # <<>>, NEW c, FrameOK(c), NEW g, Onward(g, s[1]), WaitsFor(c, g),
         NEW t, t \in Seq(Frames), Len(t) = Len(s) + 1, Len(s) \in Nat \ {0},
         t[1] = c, t[2] = g, \A i \in 3..Len(t) : t[i] = s[i - 1]
  PROVE  Pushes(s, t, c, g)
<1>1. /\ t \in Seq(Frames) /\ Len(t) = Len(s) + 1 /\ Len(s) \in Nat \ {0}
      /\ t[1] = c /\ t[2] = g
      /\ \A i \in 3..Len(t) : t[i] = s[i - 1]
  OBVIOUS
<1>2. t # <<>>
  BY <1>1
<1>3. \A i \in 1..Len(t) : FrameOK(t[i])
  <2> TAKE i \in 1..Len(t)
  <2>1. CASE i = 1
    BY <2>1, <1>1
  <2>2. CASE i = 2
    BY <2>2, <1>1 DEF Onward
  <2>3. CASE i >= 3
    <3>1. t[i] = s[i - 1] /\ i - 1 \in 1..Len(s)
      BY <2>3, <1>1
    <3> QED
      BY <3>1 DEF StackOK
  <2> QED
    BY <2>1, <2>2, <2>3
<1>4. \A i \in 1..Len(t) - 1 : WaitsFor(t[i], t[i + 1])
  <2> TAKE i \in 1..Len(t) - 1
  <2>1. CASE i = 1
    BY <2>1, <1>1
  <2>2. CASE i = 2
    <3>1. t[2] = g /\ t[3] = s[2] /\ WaitsFor(s[1], s[2])
      BY <2>2, <1>1 DEF StackOK
    <3> QED
      BY <2>2, <3>1, WaitsOnward
  <2>3. CASE i >= 3
    <3>1. t[i] = s[i - 1] /\ t[i + 1] = s[i] /\ i - 1 \in 1..Len(s) - 1 /\ (i - 1) + 1 = i
      BY <2>3, <1>1
    <3> QED
      BY <3>1 DEF StackOK
  <2> QED
    BY <2>1, <2>2, <2>3
<1>5. AtBottom(t[Len(t)])
  <2>1. CASE Len(s) = 1
    BY <2>1, <1>1 DEF StackOK, Onward, AtBottom
  <2>2. CASE Len(s) > 1
    <3>1. t[Len(t)] = s[Len(s)]
      BY <2>2, <1>1
    <3> QED
      BY <3>1 DEF StackOK
  <2>3. Len(s) = 1 \/ Len(s) > 1
    BY PositiveCases
  <2> QED
    BY <2>1, <2>2, <2>3
<1>6. Quiet(t) => Quiet(s)
  <2> SUFFICES ASSUME Quiet(t), NEW i \in 1..Len(s) PROVE s[i].fn \notin {"configure", "panic"}
    BY DEF Quiet
  <2>1. CASE i = 1
    BY <2>1, <1>1 DEF Quiet, Onward
  <2>2. CASE i > 1
    <3>1. i + 1 \in 3..Len(t) /\ t[i + 1] = s[i]
      BY <2>2, <1>1
    <3> QED
      BY <3>1, <1>1 DEF Quiet
  <2> QED
    BY <2>1, <2>2, <1>1
<1>7. StackOK(t)
  BY <1>1, <1>2, <1>3, <1>4, <1>5 DEF StackOK
<1>8. Len(s) >= 2 => t[Len(t)] = s[Len(s)]
  BY <1>1
<1>9. Len(s) >= 3 => t[Len(t) - 1] = s[Len(s) - 1]
  BY <1>1
<1> QED
  BY <1>1, <1>2, <1>6, <1>7, <1>8, <1>9 DEF Pushes, SameBottom

\* The same, of the stack a call makes.
LEMMA CallPushes ==
  ASSUME NEW s, StackOK(s), s # <<>>, NEW c, FrameOK(c), NEW g, Onward(g, s[1]), WaitsFor(c, g)
  PROVE  Pushes(s, <<c, g>> \o Tail(s), c, g)
<1> DEFINE u == <<c, g>> \o Tail(s)
<1>1. s \in Seq(Frames) /\ c \in Frames /\ g \in Frames
  BY DEF StackOK, FrameOK, Onward
<1>2. /\ u \in Seq(Frames) /\ Len(u) = Len(s) + 1 /\ Len(s) \in Nat \ {0}
      /\ u[1] = c /\ u[2] = g
      /\ \A i \in 3..Len(u) : u[i] = s[i - 1]
  BY <1>1, StackPush
<1> HIDE DEF u
<1>3. Pushes(s, u, c, g)
  BY <1>2, CallShape
<1> QED
  BY <1>3 DEF u

\* A step of the frame on top keeps the stack well formed.
LEMMA TopShape ==
  ASSUME NEW s, StackOK(s), s # <<>>, NEW g, Onward(g, s[1]), NEW t,
         t \in Seq(Frames), Len(t) = Len(s), t # <<>>, Len(s) \in Nat \ {0},
         t[1] = g, \A i \in 2..Len(t) : t[i] = s[i]
  PROVE  Steps(s, t, g)
<1>1. /\ t \in Seq(Frames) /\ Len(t) = Len(s) /\ t # <<>> /\ Len(s) \in Nat \ {0}
      /\ t[1] = g
      /\ \A i \in 2..Len(t) : t[i] = s[i]
  OBVIOUS
<1>2. \A i \in 1..Len(t) : FrameOK(t[i])
  BY <1>1 DEF StackOK, Onward
<1>3. \A i \in 1..Len(t) - 1 : WaitsFor(t[i], t[i + 1])
  <2> TAKE i \in 1..Len(t) - 1
  <2>1. WaitsFor(s[i], s[i + 1]) /\ t[i + 1] = s[i + 1]
    BY <1>1 DEF StackOK
  <2>2. CASE i = 1
    BY <2>1, <2>2, <1>1, WaitsOnward
  <2>3. CASE i > 1
    BY <2>1, <2>3, <1>1
  <2> QED
    BY <2>2, <2>3
<1>4. AtBottom(t[Len(t)])
  BY <1>1 DEF StackOK, Onward, AtBottom
<1>5. Quiet(t) => Quiet(s)
  <2> SUFFICES ASSUME Quiet(t), NEW i \in 1..Len(s) PROVE s[i].fn \notin {"configure", "panic"}
    BY DEF Quiet
  <2> QED
    BY <1>1 DEF Quiet, Onward
<1>6. StackOK(t)
  BY <1>1, <1>2, <1>3, <1>4 DEF StackOK
<1>7. Len(s) >= 2 => t[Len(t)] = s[Len(s)] /\ t[2] = s[2]
  BY <1>1
<1>8. Len(s) >= 3 => t[Len(t) - 1] = s[Len(s) - 1]
  BY <1>1
<1> QED
  BY <1>1, <1>5, <1>6, <1>7, <1>8 DEF Steps, SameBottom

\* The same, of the stack a step makes.
LEMMA TopSteps ==
  ASSUME NEW s, StackOK(s), s # <<>>, NEW g, Onward(g, s[1])
  PROVE  Steps(s, [s EXCEPT ![1] = g], g)
<1> DEFINE u == [s EXCEPT ![1] = g]
<1>1. s \in Seq(Frames) /\ g \in Frames
  BY DEF StackOK, FrameOK, Onward
<1>2. /\ u \in Seq(Frames) /\ Len(u) = Len(s) /\ u # <<>> /\ Len(s) \in Nat \ {0}
      /\ u[1] = g /\ \A i \in 2..Len(u) : u[i] = s[i]
  BY <1>1, StackTop
<1> HIDE DEF u
<1>3. Steps(s, u, g)
  BY <1>2, TopShape
<1> QED
  BY <1>3 DEF u

\* A return leaves a well formed stack.
LEMMA PopShape ==
  ASSUME NEW s, StackOK(s), s # <<>>, NEW t, t \in Seq(Frames),
         Len(t) = Len(s) - 1, Len(s) \in Nat \ {0}, \A i \in 1..Len(t) : t[i] = s[i + 1]
  PROVE  Pops(s, t)
<1>1. /\ t \in Seq(Frames) /\ Len(t) = Len(s) - 1 /\ Len(s) \in Nat \ {0} /\ Len(t) \in Nat
      /\ \A i \in 1..Len(t) : t[i] = s[i + 1]
  OBVIOUS
<1>2. t = <<>> <=> Len(s) = 1
  <2>1. t = <<>> <=> Len(t) = 0
    BY <1>1
  <2> QED
    BY <1>1, <2>1
<1>3. \A i \in 1..Len(t) : FrameOK(t[i])
  BY <1>1 DEF StackOK
<1>4. \A i \in 1..Len(t) - 1 : WaitsFor(t[i], t[i + 1])
  <2> TAKE i \in 1..Len(t) - 1
  <2>1. t[i] = s[i + 1] /\ t[i + 1] = s[(i + 1) + 1] /\ i + 1 \in 1..Len(s) - 1
    BY <1>1
  <2> QED
    BY <2>1 DEF StackOK
<1>5. t # <<>> => AtBottom(t[Len(t)])
  <2> SUFFICES ASSUME t # <<>> PROVE AtBottom(t[Len(t)])
    OBVIOUS
  <2>1. t[Len(t)] = s[Len(s)]
    BY <1>1, <1>2
  <2> QED
    BY <2>1 DEF StackOK
<1>6. ASSUME Quiet(t), s[1].fn \notin {"configure", "panic"} PROVE Quiet(s)
  <2> SUFFICES ASSUME NEW i \in 1..Len(s) PROVE s[i].fn \notin {"configure", "panic"}
    BY DEF Quiet
  <2>1. CASE i = 1
    BY <2>1, <1>6
  <2>2. CASE i > 1
    <3>1. i - 1 \in 1..Len(t) /\ t[i - 1] = s[i]
      BY <2>2, <1>1
    <3> QED
      BY <3>1, <1>6 DEF Quiet
  <2> QED
    BY <2>1, <2>2
<1>7. StackOK(t)
  BY <1>1, <1>3, <1>4, <1>5 DEF StackOK
<1>8. Len(s) >= 2 => t[1] = s[2] /\ WaitsFor(s[1], s[2])
  BY <1>1 DEF StackOK
<1>9. Len(s) >= 2 /\ t # <<>> => t[Len(t)] = s[Len(s)]
  BY <1>1
<1>10. Len(s) >= 3 => t[Len(t) - 1] = s[Len(s) - 1]
  BY <1>1
<1> QED
  BY <1>1, <1>2, <1>6, <1>7, <1>8, <1>9, <1>10 DEF Pops, SameBottom

\* The same, of the stack a return makes.
LEMMA ReturnPops ==
  ASSUME NEW s, StackOK(s), s # <<>>
  PROVE  Pops(s, Tail(s))
<1> DEFINE u == Tail(s)
<1>1. s \in Seq(Frames)
  BY DEF StackOK
<1>2. /\ u \in Seq(Frames) /\ Len(u) = Len(s) - 1 /\ Len(s) \in Nat \ {0}
      /\ \A i \in 1..Len(u) : u[i] = s[i + 1]
  BY <1>1, StackPop
<1> HIDE DEF u
<1>3. Pops(s, u)
  BY <1>2, PopShape
<1> QED
  BY <1>3 DEF u

\* A stack of one frame, called by the VMM or the panic.
LEMMA SingleOK ==
  ASSUME NEW c, FrameOK(c), AtBottom(c), NEW t, t = <<c>>
  PROVE  StackOK(t) /\ Len(t) = 1 /\ t # <<>> /\ t[1] = c
<1>1. t \in Seq(Frames) /\ Len(t) = 1 /\ t # <<>> /\ t[1] = c
  BY DEF FrameOK
<1> QED
  BY <1>1 DEF StackOK

\* The empty stack: nothing called.
LEMMA EmptyOK == StackOK(<<>>) /\ Quiet(<<>>)
<1>1. <<>> \in Seq(Frames) /\ Len(<<>>) = 0
  OBVIOUS
<1> QED
  BY <1>1 DEF StackOK, Quiet

\* The frame on top, and the one that waits for it.
LEMMA TopFacts ==
  ASSUME NEW s, StackOK(s), s # <<>>
  PROVE  /\ Len(s) \in Nat \ {0} /\ FrameOK(s[1]) /\ s[1] \in Frames
         /\ Len(s) > 1 => FrameOK(s[2]) /\ WaitsFor(s[1], s[2]) /\ ~AtBottom(s[1])
         /\ ~AtBottom(s[1]) => Len(s) > 1
         /\ Len(s) = 1 => AtBottom(s[1])
         /\ AtBottom(s[1]) => Len(s) = 1
<1>1. Len(s) \in Nat \ {0}
  BY DEF StackOK
<1>2. FrameOK(s[1]) /\ s[1] \in Frames
  BY <1>1 DEF StackOK, FrameOK
<1>3. Len(s) > 1 => FrameOK(s[2]) /\ WaitsFor(s[1], s[2]) /\ ~AtBottom(s[1])
  BY <1>1, WaitsBottom DEF StackOK
<1>4. Len(s) = 1 => AtBottom(s[1])
  BY DEF StackOK
<1> QED
  BY <1>1, <1>2, <1>3, <1>4

(* The frames by their function. *)

\* A frame by the name of its function.
LEMMA FrameKinds ==
  ASSUME NEW f \in Frames
  PROVE  /\ f.fn = "emit" => f \in EmitFrames
         /\ f.fn \in {"write", "read", "boot"} => f \in CallFrames
         /\ f.fn \in {"full_init", "fast_init"} => f \in InitFrames
         /\ f.fn = "configure" => f \in ConfigureFrames
         /\ f.fn \in {"emit", "write", "read", "boot", "full_init", "fast_init",
                      "configure", "panic"}
BY DEF Frames, EmitFrames, CallFrames, InitFrames, ConfigureFrames, PanicFrames

\* A frame further on its way, function by function.
LEMMA EmitAt ==
  ASSUME NEW f, FrameOK(f), f.fn = "emit",
         NEW l \in {"start", "init", "go", "failure", "reinit"},
         l \in {"start", "init", "go"} => f.at \in {"start", "init", "go"}
  PROVE  LET g == [f EXCEPT !.at = l] IN
         /\ Onward(g, f) /\ g.at = l /\ g.req = f.req /\ g.pid = f.pid /\ g.fn = "emit"
<1>1. f \in EmitFrames
  BY FrameKinds DEF FrameOK
<1> DEFINE g == [f EXCEPT !.at = l]
<1>2. g \in EmitFrames /\ g.at = l /\ g.req = f.req /\ g.pid = f.pid /\ g.fn = "emit"
      /\ g.retry = f.retry
  BY <1>1 DEF EmitFrames
<1> QED
  BY <1>2 DEF Onward, FrameOK, Frames

LEMMA InitAt ==
  ASSUME NEW f, FrameOK(f), IsInit(f),
         NEW l \in {"warm_up", "acquire", "reset", "setup", "detect", "debounce",
                    "port_reset", "enable", "configure"}
  PROVE  LET g == [f EXCEPT !.at = l] IN Onward(g, f) /\ g.at = l /\ g.fn = f.fn /\ IsInit(g)
<1>1. f \in InitFrames
  BY FrameKinds DEF FrameOK, IsInit
<1> DEFINE g == [f EXCEPT !.at = l]
<1>2. g \in InitFrames /\ g.at = l /\ g.fn = f.fn
  BY <1>1 DEF InitFrames
<1> QED
  BY <1>2 DEF Onward, FrameOK, Frames, IsInit, InitFrames

LEMMA CallAt ==
  ASSUME NEW f, FrameOK(f), f.fn \in {"write", "read", "boot"}, NEW l \in {"call", "wait"}
  PROVE  LET g == [f EXCEPT !.at = l] IN Onward(g, f) /\ g.at = l /\ g.fn = f.fn
<1>1. f \in CallFrames
  BY FrameKinds DEF FrameOK
<1> DEFINE g == [f EXCEPT !.at = l]
<1>2. g \in CallFrames /\ g.at = l /\ g.fn = f.fn
  BY <1>1 DEF CallFrames
<1> QED
  BY <1>2 DEF Onward, FrameOK, Frames

LEMMA ConfigureAt ==
  ASSUME NEW f, FrameOK(f), f.fn = "configure",
         NEW l \in {"descriptor", "answer", "addr", "mode", "mode_old"},
         f.dev < NADDR, l \in {"addr", "mode"} => SETADDR
  PROVE  LET g == [f EXCEPT !.at = l] IN
         Onward(g, f) /\ g.at = l /\ g.fn = f.fn /\ g.dev = f.dev
<1>1. f \in ConfigureFrames
  BY FrameKinds DEF FrameOK
<1> DEFINE g == [f EXCEPT !.at = l]
<1>2. g \in ConfigureFrames /\ g.at = l /\ g.fn = f.fn /\ g.dev = f.dev /\ g.times = f.times
  BY <1>1 DEF ConfigureFrames
<1> QED
  BY <1>1, <1>2 DEF Onward, FrameOK, Frames, ConfigureFrames

(* The same of the operators of the driver. *)

LEMMA GotoSteps ==
  ASSUME StackOK(stack), stack # <<>>, NEW l, Onward([Top EXCEPT !.at = l], Top), Goto(l)
  PROVE  Steps(stack, stack', [Top EXCEPT !.at = l])
BY TopSteps DEF Goto, Top

LEMMA CalledPushes ==
  ASSUME StackOK(stack), stack # <<>>, NEW c, FrameOK(c), NEW l,
         Onward([Top EXCEPT !.at = l], Top), WaitsFor(c, [Top EXCEPT !.at = l]), Call(c, l)
  PROVE  Pushes(stack, stack', c, [Top EXCEPT !.at = l])
BY CallPushes DEF Call, Top

LEMMA ReturnedPops ==
  ASSUME StackOK(stack), stack # <<>>, NEW v, Return(v)
  PROVE  /\ Pops(stack, stack')
         /\ ret' = IF Len(stack) = 1 THEN "none" ELSE v
BY ReturnPops DEF Return

\* A return of a frame that is not at the bottom.
LEMMA ReturnsTo ==
  ASSUME StackOK(stack), stack # <<>>, ~AtBottom(Top), NEW v, Return(v)
  PROVE  /\ Pops(stack, stack') /\ ret' = v /\ stack' # <<>> /\ Len(stack) >= 2
         /\ stack'[1] = stack[2] /\ WaitsFor(stack[1], stack'[1])
<1>1. Pops(stack, stack') /\ ret' = IF Len(stack) = 1 THEN "none" ELSE v
  BY ReturnedPops
<1>2. Len(stack) \in Nat \ {0} /\ Len(stack) > 1
  BY TopFacts DEF Top
<1> QED
  BY <1>1, <1>2 DEF Pops

\* The frames the driver calls.
LEMMA CalleesOK ==
  /\ FrameOK(full_init)
  /\ \A req \in UsbRequests \cup {"OUT", "IN"}, p \in Pids :
       LET e == Emission(req, p) IN
       /\ FrameOK(e) /\ e.fn = "emit" /\ e.req = req /\ e.pid = p /\ e.at = "start"
  /\ LET c == [fn |-> "configure", dev |-> 0, times |-> RETRY, at |-> "probe"] IN FrameOK(c)
<1>1. full_init \in InitFrames /\ full_init.fn = "full_init"
  BY DEF full_init, InitFrames
<1>2. \A req \in UsbRequests \cup {"OUT", "IN"}, p \in Pids :
       LET e == Emission(req, p) IN
       /\ e \in EmitFrames /\ e.fn = "emit" /\ e.req = req /\ e.pid = p /\ e.at = "start"
       /\ e.retry >= 1
  BY DbgpAssumption DEF Emission, EmitFrames
<1>3. LET c == [fn |-> "configure", dev |-> 0, times |-> RETRY, at |-> "probe"] IN
        c \in ConfigureFrames /\ c.fn = "configure" /\ c.times >= 1 /\ c.at = "probe"
  BY DbgpAssumption DEF ConfigureFrames
<1>4. FrameOK(full_init)
  BY <1>1 DEF FrameOK, Frames
<1>5. \A req \in UsbRequests \cup {"OUT", "IN"}, p \in Pids : FrameOK(Emission(req, p))
  BY <1>2 DEF FrameOK, Frames
<1>6. LET c == [fn |-> "configure", dev |-> 0, times |-> RETRY, at |-> "probe"] IN FrameOK(c)
  BY <1>3 DEF FrameOK, Frames
<1> QED
  BY <1>2, <1>4, <1>5, <1>6

(* The steps of each kind of frame. *)

\* Goto moves the top alone, function by function.
LEMMA InitGoto ==
  ASSUME StackOK(stack), stack # <<>>, IsInit(Top),
         NEW l \in {"warm_up", "acquire", "reset", "setup", "detect", "debounce",
                    "port_reset", "enable", "configure"}, Goto(l)
  PROVE  /\ Steps(stack, stack', stack'[1])
         /\ IsInit(stack'[1]) /\ stack'[1].at = l /\ stack'[1].fn = Top.fn
<1> DEFINE g == [Top EXCEPT !.at = l]
<1>1. Onward(g, Top) /\ g.at = l /\ g.fn = Top.fn /\ IsInit(g)
  BY TopFacts, InitAt DEF Top
<1>2. Steps(stack, stack', g)
  BY <1>1, GotoSteps
<1>3. stack'[1] = g
  BY <1>2 DEF Steps
<1> QED
  BY <1>1, <1>2, <1>3

LEMMA EmitGoto ==
  ASSUME StackOK(stack), stack # <<>>, Top.fn = "emit",
         NEW l \in {"start", "init", "go", "failure", "reinit"},
         l \in {"start", "init", "go"} => Top.at \in {"start", "init", "go"}, Goto(l)
  PROVE  /\ Steps(stack, stack', stack'[1])
         /\ stack'[1].at = l /\ stack'[1].fn = "emit" /\ stack'[1].req = Top.req
         /\ stack'[1].pid = Top.pid
<1> DEFINE g == [Top EXCEPT !.at = l]
<1>1. Onward(g, Top) /\ g.at = l /\ g.fn = "emit" /\ g.req = Top.req /\ g.pid = Top.pid
  BY TopFacts, EmitAt DEF Top
<1>2. Steps(stack, stack', g)
  BY <1>1, GotoSteps
<1>3. stack'[1] = g
  BY <1>2 DEF Steps
<1> QED
  BY <1>1, <1>2, <1>3

LEMMA CallGoto ==
  ASSUME StackOK(stack), stack # <<>>, Top.fn \in {"write", "read", "boot"},
         NEW l \in {"call", "wait"}, Goto(l)
  PROVE  /\ Steps(stack, stack', stack'[1])
         /\ stack'[1].at = l /\ stack'[1].fn = Top.fn
<1> DEFINE g == [Top EXCEPT !.at = l]
<1>1. Onward(g, Top) /\ g.at = l /\ g.fn = Top.fn
  BY TopFacts, CallAt DEF Top
<1>2. Steps(stack, stack', g)
  BY <1>1, GotoSteps
<1>3. stack'[1] = g
  BY <1>2 DEF Steps
<1> QED
  BY <1>1, <1>2, <1>3

\* dbgp_enable
LEMMA InitCalls ==
  ASSUME StackOK(stack), stack # <<>>, IsInit(Top),
         Call([fn |-> "configure", dev |-> 0, times |-> RETRY, at |-> "probe"], "configure")
  PROVE  /\ Pushes(stack, stack', stack'[1], stack'[2])
         /\ stack'[1].fn = "configure" /\ stack'[1].dev = 0 /\ stack'[1].at = "probe"
         /\ IsInit(stack'[2]) /\ stack'[2].at = "configure"
<1> DEFINE c == [fn |-> "configure", dev |-> 0, times |-> RETRY, at |-> "probe"]
           g == [Top EXCEPT !.at = "configure"]
<1>1. Onward(g, Top) /\ g.at = "configure" /\ g.fn = Top.fn /\ IsInit(g)
  BY TopFacts, InitAt DEF Top
<1>2. FrameOK(c) /\ c.fn = "configure" /\ c.dev = 0 /\ c.at = "probe"
  BY CalleesOK
<1>3. WaitsFor(c, g)
  BY <1>1, <1>2 DEF WaitsFor
<1>4. Pushes(stack, stack', c, g)
  BY <1>1, <1>2, <1>3, CalledPushes
<1>5. stack'[1] = c /\ stack'[2] = g
  BY <1>4 DEF Pushes
<1> QED
  BY <1>1, <1>2, <1>4, <1>5

\* ehci_init
LEMMA BootCalls ==
  ASSUME StackOK(stack), stack # <<>>, Top.fn = "boot", Call(full_init, "wait")
  PROVE  /\ Pushes(stack, stack', stack'[1], stack'[2])
         /\ stack'[1].fn = "full_init" /\ stack'[1].at = "warm_up"
         /\ stack'[2].fn = "boot"
<1> DEFINE g == [Top EXCEPT !.at = "wait"]
<1>1. Onward(g, Top) /\ g.at = "wait" /\ g.fn = "boot"
  BY TopFacts, CallAt DEF Top
<1>2. FrameOK(full_init) /\ full_init.fn = "full_init" /\ full_init.at = "warm_up"
  BY CalleesOK DEF full_init
<1>3. WaitsFor(full_init, g)
  BY <1>1, <1>2 DEF WaitsFor
<1>4. Pushes(stack, stack', full_init, g)
  BY <1>1, <1>2, <1>3, CalledPushes
<1>5. stack'[1] = full_init /\ stack'[2] = g
  BY <1>4 DEF Pushes
<1> QED
  BY <1>1, <1>2, <1>4, <1>5

\* An emission that initialises the controller.
LEMMA EmitCalls ==
  ASSUME StackOK(stack), stack # <<>>, Top.fn = "emit", NEW l \in {"init", "reinit"},
         l = "init" => OnData(Top) /\ Top.at = "start", Call(full_init, l)
  PROVE  /\ Pushes(stack, stack', stack'[1], stack'[2])
         /\ stack'[1].fn = "full_init" /\ stack'[1].at = "warm_up"
         /\ stack'[2].fn = "emit" /\ stack'[2].at = l /\ stack'[2].req = Top.req
         /\ stack'[2].pid = Top.pid
<1> DEFINE g == [Top EXCEPT !.at = l]
<1>0. FrameOK(Top) /\ l \in {"start", "init", "go", "failure", "reinit"}
      /\ (l \in {"start", "init", "go"} => Top.at \in {"start", "init", "go"})
  BY TopFacts DEF Top
<1>1. Onward(g, Top) /\ g.at = l /\ g.fn = "emit" /\ g.req = Top.req /\ g.pid = Top.pid
  BY <1>0, EmitAt
<1>2. FrameOK(full_init) /\ full_init.fn = "full_init" /\ full_init.at = "warm_up"
  BY CalleesOK DEF full_init
<1>3. WaitsFor(full_init, g)
  BY <1>1, <1>2 DEF WaitsFor, OnData
<1>4. Pushes(stack, stack', full_init, g)
  BY <1>1, <1>2, <1>3, CalledPushes
<1>5. stack'[1] = full_init /\ stack'[2] = g
  BY <1>4 DEF Pushes
<1> QED
  BY <1>1, <1>2, <1>4, <1>5

\* A request of dbgp_configure.
LEMMA ConfigureCalls ==
  ASSUME StackOK(stack), stack # <<>>, Top.fn = "configure", NEW req \in UsbRequests,
         NEW l \in {"descriptor", "answer", "addr", "mode", "mode_old"}, Asks(l, req),
         Top.dev < NADDR, l \in {"addr", "mode"} => SETADDR, Request(req, l)
  PROVE  /\ Pushes(stack, stack', stack'[1], stack'[2])
         /\ stack'[1].fn = "emit" /\ stack'[1].req = req /\ stack'[1].at = "start"
         /\ stack'[2].fn = "configure" /\ stack'[2].at = l /\ stack'[2].dev = Top.dev
<1> DEFINE c == Emission(req, 0)
           g == [Top EXCEPT !.at = l]
<1>1. Onward(g, Top) /\ g.at = l /\ g.fn = "configure" /\ g.dev = Top.dev
  BY TopFacts, ConfigureAt DEF Top
<1>2. FrameOK(c) /\ c.fn = "emit" /\ c.req = req /\ c.at = "start"
  BY CalleesOK DEF Pids
<1>3. WaitsFor(c, g)
  BY <1>1, <1>2 DEF WaitsFor
<1>4. Pushes(stack, stack', c, g)
  BY <1>1, <1>2, <1>3, CalledPushes DEF Request
<1>5. stack'[1] = c /\ stack'[2] = g
  BY <1>4 DEF Pushes
<1> QED
  BY <1>1, <1>2, <1>4, <1>5

\* A packet of dbgp_write or dbgp_read.
LEMMA PacketCalls ==
  ASSUME StackOK(stack), stack # <<>>, NEW p \in Pids, NEW req \in {"OUT", "IN"},
         Top.fn = (IF req = "OUT" THEN "write" ELSE "read"), Call(Emission(req, p), "wait")
  PROVE  /\ Pushes(stack, stack', stack'[1], stack'[2]) /\ Len(stack) = 1
         /\ stack'[1].fn = "emit" /\ stack'[1].req = req /\ stack'[1].at = "start"
         /\ stack'[1].pid = p
         /\ stack'[2].fn = Top.fn /\ stack'[2].at = "wait"
<1> DEFINE c == Emission(req, p)
           g == [Top EXCEPT !.at = "wait"]
<1>1. Onward(g, Top) /\ g.at = "wait" /\ g.fn = Top.fn
  BY TopFacts, CallAt DEF Top
<1>2. FrameOK(c) /\ c.fn = "emit" /\ c.req = req /\ c.at = "start" /\ c.pid = p
  BY CalleesOK
<1>3. WaitsFor(c, g)
  BY <1>1, <1>2 DEF WaitsFor
<1>4. Pushes(stack, stack', c, g)
  BY <1>1, <1>2, <1>3, CalledPushes
<1>5. stack'[1] = c /\ stack'[2] = g
  BY <1>4 DEF Pushes
<1>6. Len(stack) = 1
  BY TopFacts DEF Top, AtBottom
<1> QED
  BY <1>1, <1>2, <1>4, <1>5, <1>6

\* The next address, or the next round.
LEMMA ConfigureMoves ==
  ASSUME StackOK(stack), stack # <<>>, Top.fn = "configure", Top.dev < NADDR, NextAddress
  PROVE  /\ Steps(stack, stack', stack'[1])
         /\ stack'[1].fn = "configure" /\ stack'[1].at = "probe"
<1> DEFINE g == [Top EXCEPT !.dev = @ + 1, !.at = "probe"]
<1>1. FrameOK(Top) /\ Top \in ConfigureFrames
  BY TopFacts, FrameKinds DEF Top
<1>a. Top.dev + 1 \in 0..NADDR
  BY <1>1, DbgpAssumption DEF ConfigureFrames
<1>2. g \in ConfigureFrames /\ g.fn = "configure" /\ g.at = "probe" /\ g.times = Top.times
  BY <1>1, <1>a DEF ConfigureFrames
<1>3. Onward(g, Top)
  BY <1>1, <1>2 DEF Onward, FrameOK, Frames
<1>4. stack' = [stack EXCEPT ![1] = g]
  BY DEF NextAddress, Top, StackOK
<1>5. Steps(stack, stack', g)
  BY <1>3, <1>4, TopSteps DEF Top
<1>6. stack'[1] = g
  BY <1>5 DEF Steps
<1> QED
  BY <1>2, <1>5, <1>6

\* A configuration that fails starts another round, or panics.
LEMMA ConfigureRestarts ==
  ASSUME StackOK(stack), stack # <<>>, Top.fn = "configure", ConfigureFails
  PROVE  \/ /\ Steps(stack, stack', stack'[1])
            /\ stack'[1].fn = "configure" /\ stack'[1].at = "probe"
         \/ /\ StackOK(stack') /\ Len(stack') = 1 /\ stack' # <<>>
            /\ stack'[1].fn = "panic"
<1>1. FrameOK(Top) /\ Top \in ConfigureFrames
  BY TopFacts, FrameKinds DEF Top
<1>2. CASE Top.times = 1
  <2> DEFINE c == [fn |-> "panic", at |-> "panic"]
  <2>1. FrameOK(c) /\ AtBottom(c) /\ c.fn = "panic"
    BY DEF FrameOK, Frames, PanicFrames, AtBottom
  <2>2. stack' = <<c>>
    BY <1>2 DEF ConfigureFails
  <2> QED
    BY <2>1, <2>2, SingleOK
<1>3. CASE Top.times # 1
  <2> DEFINE g == [Top EXCEPT !.times = @ - 1, !.dev = 0, !.at = "probe"]
  <2>a. Top.times - 1 \in 0..RETRY /\ 0 \in 0..NADDR
    BY <1>1, <1>3, DbgpAssumption DEF ConfigureFrames, FrameOK
  <2>1. g \in ConfigureFrames /\ g.fn = "configure" /\ g.at = "probe" /\ g.times = Top.times - 1
    BY <1>1, <2>a DEF ConfigureFrames
  <2>2. Onward(g, Top)
    BY <1>1, <1>3, <2>1, DbgpAssumption DEF Onward, FrameOK, Frames, ConfigureFrames
  <2>3. stack' = [stack EXCEPT ![1] = g]
    BY <1>3 DEF ConfigureFails, Top, StackOK
  <2>4. Steps(stack, stack', g)
    BY <2>2, <2>3, TopSteps DEF Top
  <2>5. stack'[1] = g
    BY <2>4 DEF Steps
  <2> QED
    BY <2>1, <2>4, <2>5
<1> QED
  BY <1>2, <1>3

\* A NAK of a packet, sent again or not.
LEMMA NakGoes ==
  ASSUME StackOK(stack), stack # <<>>, Top.fn = "emit", Top.at = "go",
         stack' = [stack EXCEPT ![1].retry = @ - 1,
                                ![1].at = IF Top.retry = 1 THEN "failure" ELSE "go"]
  PROVE  /\ Steps(stack, stack', stack'[1])
         /\ stack'[1].fn = "emit" /\ stack'[1].at \in {"go", "failure"}
         /\ stack'[1].req = Top.req /\ stack'[1].pid = Top.pid
<1> DEFINE g == [Top EXCEPT !.retry = @ - 1, !.at = IF Top.retry = 1 THEN "failure" ELSE "go"]
<1>1. FrameOK(Top) /\ Top \in EmitFrames
  BY TopFacts, FrameKinds DEF Top
<1>2. Top.retry >= 1 /\ Top.retry \in Nat
  BY <1>1, DbgpAssumption DEF FrameOK, EmitFrames
<1>a. Top.retry - 1 \in 0..RETRY /\ (Top.retry # 1 => Top.retry - 1 >= 1)
  BY <1>1, <1>2, DbgpAssumption DEF EmitFrames
<1>3. /\ g \in EmitFrames /\ g.fn = "emit" /\ g.at \in {"go", "failure"}
      /\ g.req = Top.req /\ g.pid = Top.pid
      /\ g.at = "go" => g.retry >= 1
  BY <1>1, <1>a DEF EmitFrames
<1>4. Onward(g, Top)
  BY <1>3 DEF Onward, FrameOK, Frames
<1>5. stack' = [stack EXCEPT ![1] = g]
  BY DEF Top, StackOK
<1> HIDE DEF g
<1>b. Onward(g, stack[1])
  BY <1>4 DEF Top
<1>c. Steps(stack, [stack EXCEPT ![1] = g], g)
  BY <1>b, TopSteps, Zenon
<1>6. Steps(stack, stack', g)
  BY <1>5, <1>c, Zenon
<1>7. stack'[1] = g
  BY <1>6 DEF Steps
<1> QED
  BY <1>3, <1>6, <1>7

(* What each action does to the stack. *)

Moved == Steps(stack, stack', stack'[1])
Called == Pushes(stack, stack', stack'[1], stack'[2])
Returned(v) ==
    /\ Pops(stack, stack')
    /\ Len(stack) = 1 => stack' = <<>>
    /\ Len(stack) # 1 => /\ ret' = v /\ stack' # <<>> /\ stack'[1] = stack[2]
                         /\ WaitsFor(stack[1], stack'[1])

\* Return takes the top off and gives its value.
LEMMA Returns ==
  ASSUME StackOK(stack), stack # <<>>, NEW v, Return(v)
  PROVE  Returned(v)
<1>1. Pops(stack, stack') /\ ret' = IF Len(stack) = 1 THEN "none" ELSE v
  BY ReturnedPops
<1> QED
  BY <1>1 DEF Returned, Pops

\* A step of an initialisation, the configuration aside.
InitWalk ==
    /\ stack # <<>> /\ IsInit(Top) /\ Top.at # "configure"
    /\ \/ stack' = stack /\ ret' = ret
       \/ Moved /\ IsInit(stack'[1]) /\ stack'[1].at # "configure" /\ ret' = ret
       \/ Returned("fail")
    /\ drv' = drv /\ io' = io
    /\ \/ dev' = dev /\ harm' = harm
       \/ dev' = [Unconfigured(dev) EXCEPT !.steady = dev.in] /\ (io.out > 0 => Harmed)
          /\ (harm' = harm \/ Harmed)
    /\ faults' = faults \/ faults' = faults + 1

InitWalks ==
    \/ ehci_warm_up \/ ehci_acquire \/ WaitFails \/ ehci_reset \/ ehci_setup
    \/ ehci_port_leave_disabled \/ ehci_port_debounce \/ ehci_port_reset

\* An initialisation is of the full or of the fast kind.
LEMMA AtInit ==
  ASSUME NEW l, At_init(l)
  PROVE  stack # <<>> /\ IsInit(Top) /\ Top.at = l
BY DEF At_init, At, IsInit

\* One step of InitWalk, by the next label.
LEMMA InitMoved ==
  ASSUME StackOK(stack), NEW k, At_init(k),
         NEW l \in {"acquire", "reset", "setup", "detect", "debounce", "port_reset", "enable"},
         Goto(l)
  PROVE  Moved /\ IsInit(stack'[1]) /\ stack'[1].at # "configure"
<1>1. stack # <<>> /\ IsInit(Top)
  BY AtInit
<1>2. Steps(stack, stack', stack'[1]) /\ IsInit(stack'[1]) /\ stack'[1].at = l
  BY <1>1, InitGoto
<1> QED
  BY <1>2 DEF Moved

\* Every step of an initialisation before the debug port is enabled walks down its labels.
LEMMA InitWalkSteps ==
  ASSUME DbgpTypes, InitWalks
  PROVE  InitWalk
<1> USE DEF DbgpTypes
<1>1. ASSUME ehci_warm_up PROVE InitWalk
  <2>1. At_init("warm_up") /\ Goto("acquire") /\ drv' = drv /\ io' = io /\ dev' = dev
        /\ harm' = harm /\ faults' = faults /\ ret' = ret
    BY <1>1 DEF ehci_warm_up
  <2>2. stack # <<>> /\ IsInit(Top) /\ Top.at = "warm_up"
    BY <2>1, AtInit
  <2>3. Moved /\ IsInit(stack'[1]) /\ stack'[1].at # "configure"
    BY <2>1, InitMoved
  <2> QED
    BY <2>1, <2>2, <2>3 DEF InitWalk
<1>2. ASSUME ehci_acquire PROVE InitWalk
  <2>1. At_init("acquire") /\ (Goto("reset") \/ stack' = stack) /\ drv' = drv /\ io' = io
        /\ dev' = dev /\ harm' = harm /\ faults' = faults /\ ret' = ret
    BY <1>2 DEF ehci_acquire
  <2>2. stack # <<>> /\ IsInit(Top) /\ Top.at = "acquire"
    BY <2>1, AtInit
  <2>3. Goto("reset") => Moved /\ IsInit(stack'[1]) /\ stack'[1].at # "configure"
    BY <2>1, InitMoved
  <2> QED
    BY <2>1, <2>2, <2>3 DEF InitWalk
<1>3. ASSUME WaitFails PROVE InitWalk
  <2>1. PICK l \in {"reset", "setup", "port_reset"} : At_init(l)
    BY <1>3 DEF WaitFails
  <2>2. Return("fail") /\ drv' = drv /\ io' = io /\ dev' = dev /\ harm' = harm
        /\ faults' = faults + 1
    BY <1>3 DEF WaitFails, Fault
  <2>3. stack # <<>> /\ IsInit(Top) /\ Top.at # "configure"
    BY <2>1, AtInit
  <2>4. Returned("fail")
    BY <2>2, <2>3, Returns
  <2> QED
    BY <2>2, <2>3, <2>4 DEF InitWalk
<1>4. ASSUME ehci_reset PROVE InitWalk
  <2>1. At_init("reset") /\ Goto("setup") /\ drv' = drv /\ io' = io /\ dev' = dev
        /\ harm' = harm /\ faults' = faults /\ ret' = ret
    BY <1>4 DEF ehci_reset
  <2>2. stack # <<>> /\ IsInit(Top) /\ Top.at = "reset"
    BY <2>1, AtInit
  <2>3. Moved /\ IsInit(stack'[1]) /\ stack'[1].at # "configure"
    BY <2>1, InitMoved
  <2> QED
    BY <2>1, <2>2, <2>3 DEF InitWalk
<1>5. ASSUME ehci_setup PROVE InitWalk
  <2>1. At_init("setup") /\ Goto("detect") /\ drv' = drv /\ io' = io /\ dev' = dev
        /\ harm' = harm /\ faults' = faults /\ ret' = ret
    BY <1>5 DEF ehci_setup
  <2>2. stack # <<>> /\ IsInit(Top) /\ Top.at = "setup"
    BY <2>1, AtInit
  <2>3. Moved /\ IsInit(stack'[1]) /\ stack'[1].at # "configure"
    BY <2>1, InitMoved
  <2> QED
    BY <2>1, <2>2, <2>3 DEF InitWalk
<1>6. ASSUME ehci_port_leave_disabled PROVE InitWalk
  <2>1. At_init("detect") /\ drv' = drv /\ io' = io /\ dev' = dev
        /\ harm' = harm /\ faults' = faults
        /\ ((Goto("debounce") /\ ret' = ret) \/ Return("fail"))
    BY <1>6 DEF ehci_port_leave_disabled
  <2>2. stack # <<>> /\ IsInit(Top) /\ Top.at = "detect"
    BY <2>1, AtInit
  <2>3. Goto("debounce") => Moved /\ IsInit(stack'[1]) /\ stack'[1].at # "configure"
    BY <2>1, InitMoved
  <2>4. Return("fail") => Returned("fail")
    BY <2>2, Returns
  <2> QED
    BY <2>1, <2>2, <2>3, <2>4 DEF InitWalk
<1>7. ASSUME ehci_port_debounce PROVE InitWalk
  <2>1. At_init("debounce") /\ drv' = drv /\ io' = io /\ dev' = dev
        /\ harm' = harm /\ faults' = faults /\ ret' = ret
        /\ (Goto("port_reset") \/ Goto("detect"))
    BY <1>7 DEF ehci_port_debounce
  <2>2. stack # <<>> /\ IsInit(Top) /\ Top.at = "debounce"
    BY <2>1, AtInit
  <2>3. Moved /\ IsInit(stack'[1]) /\ stack'[1].at # "configure"
    BY <2>1, InitMoved
  <2> QED
    BY <2>1, <2>2, <2>3 DEF InitWalk
<1>8. ASSUME ehci_port_reset PROVE InitWalk
  <2>1. At_init("port_reset") /\ drv' = drv /\ io' = io /\ ret' = ret
        /\ dev' = [Unconfigured(dev) EXCEPT !.steady = dev.in]
        /\ (io.out > 0 => Harmed) /\ (harm' = harm \/ Harmed)
        /\ faults' = faults
        /\ (Goto("enable") \/ Goto("detect"))
    BY <1>8 DEF ehci_port_reset
  <2>2. stack # <<>> /\ IsInit(Top) /\ Top.at = "port_reset"
    BY <2>1, AtInit
  <2>3. Moved /\ IsInit(stack'[1]) /\ stack'[1].at # "configure"
    BY <2>1, InitMoved
  <2> QED
    BY <2>1, <2>2, <2>3 DEF InitWalk
<1> QED
  BY <1>1, <1>2, <1>3, <1>4, <1>5, <1>6, <1>7, <1>8 DEF InitWalks

\* A step that is not about the device or the streams.
Aside ==
    dev' = dev /\ io' = io /\ harm' = harm /\ faults' = faults

\* With the debug port enabled, the configuration is called.
LEMMA EnableCalls ==
  ASSUME DbgpTypes, dbgp_enable
  PROVE  /\ stack # <<>> /\ IsInit(Top) /\ Called
         /\ stack'[1].fn = "configure" /\ stack'[1].at = "probe"
         /\ IsInit(stack'[2])
         /\ ctrl'.ownd /\ ctrl'.enbl /\ drv' = drv /\ ret' = ret /\ Aside
<1>1. At_init("enable") /\ Aside /\ drv' = drv /\ ret' = ret /\ ctrl'.ownd /\ ctrl'.enbl
      /\ Call([fn |-> "configure", dev |-> 0, times |-> RETRY, at |-> "probe"], "configure")
  BY DEF dbgp_enable, Aside
<1>2. stack # <<>> /\ IsInit(Top)
  BY <1>1, AtInit
<1> QED
  BY <1>1, <1>2, InitCalls DEF DbgpTypes, Called

\* A configuration that succeeds ends the initialisation.
LEMMA PostInitReturns ==
  ASSUME DbgpTypes, ehci_controller_postinit
  PROVE  /\ stack # <<>> /\ IsInit(Top) /\ Top.at = "configure" /\ ret = "done"
         /\ Returned("done") /\ ctrl' = ctrl /\ drv' = drv /\ Aside
<1>1. At_init("configure") /\ ret = "done" /\ Return("done") /\ ctrl' = ctrl /\ drv' = drv /\ Aside
  BY DEF ehci_controller_postinit, Aside
<1>2. stack # <<>> /\ IsInit(Top) /\ Top.at = "configure"
  BY <1>1, AtInit
<1> QED
  BY <1>1, <1>2, Returns DEF DbgpTypes

\* The boot calls the full initialisation and gives up when it fails.
LEMMA BootSteps ==
  ASSUME DbgpTypes, ehci_init
  PROVE  /\ stack # <<>> /\ Top.fn = "boot" /\ ret' = "none"
         /\ \/ stack' = <<>>
            \/ Called /\ stack'[1].fn = "full_init" /\ stack'[1].at = "warm_up"
               /\ stack'[2].fn = "boot"
         /\ drv' = drv /\ ctrl' = ctrl /\ Aside
<1>1. /\ stack # <<>> /\ Top.fn = "boot" /\ ret' = "none"
      /\ (stack' = <<>> \/ Call(full_init, "wait"))
      /\ drv' = drv /\ ctrl' = ctrl /\ Aside
  BY DEF ehci_init, At, Aside, bus
<1> QED
  BY <1>1, BootCalls DEF DbgpTypes, Called

\* A request is emitted; a round of dbgp_configure fails.
Requested(req, l) ==
    /\ Called
    /\ stack'[1].fn = "emit" /\ stack'[1].req = req /\ stack'[1].at = "start"
    /\ stack'[2].fn = "configure" /\ stack'[2].at = l /\ stack'[2].dev = Top.dev

Probing == Moved /\ stack'[1].fn = "configure" /\ stack'[1].at = "probe"

RoundFailed ==
    \/ Probing
    \/ StackOK(stack') /\ Len(stack') = 1 /\ stack' # <<>> /\ stack'[1].fn = "panic"

\* The steps of a configuration, label by label.
LEMMA ConfigureTop ==
  ASSUME DbgpTypes, stack # <<>>, Top.fn = "configure"
  PROVE  /\ Top.at # "probe" => Top.dev < NADDR
         /\ Top.at \in {"addr", "mode"} => SETADDR
BY TopFacts DEF DbgpTypes, Top, FrameOK

LEMMA RequestsCall ==
  ASSUME DbgpTypes, stack # <<>>, Top.fn = "configure", NEW req \in UsbRequests,
         NEW l \in {"descriptor", "answer", "addr", "mode", "mode_old"}, Asks(l, req),
         Top.dev < NADDR, l \in {"addr", "mode"} => SETADDR, Request(req, l)
  PROVE  Requested(req, l)
BY ConfigureCalls DEF DbgpTypes, Requested, Called

LEMMA RoundFails ==
  ASSUME DbgpTypes, stack # <<>>, Top.fn = "configure", ConfigureFails
  PROVE  RoundFailed
BY ConfigureRestarts DEF DbgpTypes, RoundFailed, Probing, Moved

LEMMA ProbeSteps ==
  ASSUME DbgpTypes, dbgp_configure
  PROVE  /\ stack # <<>> /\ Top.fn = "configure" /\ ret' = ret /\ ctrl' = ctrl /\ Aside
         /\ \/ Requested("get_descriptor", "descriptor") /\ drv' = [drv EXCEPT !.addr = Top.dev]
            \/ RoundFailed /\ drv' = drv
<1>1. /\ stack # <<>> /\ Top.fn = "configure" /\ ret' = ret /\ ctrl' = ctrl /\ Aside
      /\ \/ /\ Top.dev < NADDR /\ drv' = [drv EXCEPT !.addr = Top.dev]
            /\ Request("get_descriptor", "descriptor")
         \/ ConfigureFails /\ drv' = drv
  BY DEF dbgp_configure, At, Aside, bus
<1>2. ASSUME Top.dev < NADDR, Request("get_descriptor", "descriptor")
      PROVE  Requested("get_descriptor", "descriptor")
  BY <1>1, <1>2, RequestsCall DEF UsbRequests, Asks
<1> QED
  BY <1>1, <1>2, RoundFails

LEMMA DescriptorSteps ==
  ASSUME DbgpTypes, dbgp_get_descriptor
  PROVE  /\ stack # <<>> /\ Top.fn = "configure" /\ ret' = "none" /\ ctrl' = ctrl /\ Aside
         /\ drv' = drv /\ Top.at \in {"descriptor", "answer"} /\ Top.dev < NADDR
         /\ \/ Probing
            \/ ret = "done" /\ Requested("read_descriptor", "answer")
            \/ ret = "done" /\ SETADDR /\ Requested("set_addr", "addr")
            \/ /\ ret = "done" /\ SETADDR /\ Top.dev = DBGP_DEV_ADDR
               /\ Requested("set_debug_mode", "mode")
            \/ ret = "done" /\ ~SETADDR /\ Requested("set_debug_mode", "mode_old")
<1>1. /\ stack # <<>> /\ Top.fn = "configure" /\ ret' = "none" /\ ctrl' = ctrl /\ Aside
      /\ drv' = drv /\ Top.at \in {"descriptor", "answer"}
      /\ \/ NextAddress
         \/ ret = "done" /\ Request("read_descriptor", "answer")
         \/ ret = "done" /\ SETADDR /\ Request("set_addr", "addr")
         \/ /\ ret = "done" /\ SETADDR /\ Top.dev = DBGP_DEV_ADDR
            /\ Request("set_debug_mode", "mode")
         \/ ret = "done" /\ ~SETADDR /\ Request("set_debug_mode", "mode_old")
  BY DEF dbgp_get_descriptor, At, Aside, bus, AfterDescriptor
<1>2. Top.dev < NADDR
  BY <1>1, ConfigureTop
<1>3. NextAddress => Probing
  BY <1>1, <1>2, ConfigureMoves DEF DbgpTypes, Probing, Moved
<1>4. Request("read_descriptor", "answer") => Requested("read_descriptor", "answer")
  BY <1>1, <1>2, RequestsCall DEF UsbRequests, Asks
<1>5. SETADDR /\ Request("set_addr", "addr") => Requested("set_addr", "addr")
  BY <1>1, <1>2, RequestsCall DEF UsbRequests, Asks
<1>6. SETADDR /\ Request("set_debug_mode", "mode") => Requested("set_debug_mode", "mode")
  BY <1>1, <1>2, RequestsCall DEF UsbRequests, Asks
<1>7. Request("set_debug_mode", "mode_old") => Requested("set_debug_mode", "mode_old")
  BY <1>1, <1>2, RequestsCall DEF UsbRequests, Asks
<1> QED
  BY <1>1, <1>2, <1>3, <1>4, <1>5, <1>6, <1>7

LEMMA SetAddrSteps ==
  ASSUME DbgpTypes, dbgp_set_addr
  PROVE  /\ stack # <<>> /\ Top.fn = "configure" /\ ret' = "none" /\ ctrl' = ctrl /\ Aside
         /\ Top.at = "addr" /\ SETADDR
         /\ \/ /\ ret = "done" /\ drv' = [drv EXCEPT !.addr = DBGP_DEV_ADDR]
               /\ Requested("set_debug_mode", "mode")
            \/ RoundFailed /\ drv' = drv
<1>1. /\ stack # <<>> /\ Top.fn = "configure" /\ ret' = "none" /\ ctrl' = ctrl /\ Aside
      /\ Top.at = "addr"
      /\ \/ /\ ret = "done" /\ drv' = [drv EXCEPT !.addr = DBGP_DEV_ADDR]
            /\ Request("set_debug_mode", "mode")
         \/ ConfigureFails /\ drv' = drv
  BY DEF dbgp_set_addr, At, Aside, bus
<1>2. Top.dev < NADDR /\ SETADDR
  BY <1>1, ConfigureTop
<1>3. Request("set_debug_mode", "mode") => Requested("set_debug_mode", "mode")
  BY <1>1, <1>2, RequestsCall DEF UsbRequests, Asks
<1> QED
  BY <1>1, <1>2, <1>3, RoundFails

LEMMA DebugModeSteps ==
  ASSUME DbgpTypes, dbgp_set_debug_mode
  PROVE  /\ stack # <<>> /\ Top.fn = "configure" /\ ctrl' = ctrl /\ Aside
         /\ Top.at \in {"mode", "mode_old"}
         /\ \/ /\ Top.at = "mode" /\ SETADDR /\ ret' = "none" /\ drv' = [drv EXCEPT !.addr = Top.dev]
               /\ Requested("set_debug_mode", "mode_old")
            \/ RoundFailed /\ drv' = drv /\ ret' = "none"
            \/ /\ ret = "done" /\ Returned("done")
               /\ drv' = [drv EXCEPT !.addr = IF SETADDR THEN DBGP_DEV_ADDR ELSE Top.dev]
<1>1. /\ stack # <<>> /\ Top.fn = "configure" /\ ctrl' = ctrl /\ Aside
      /\ Top.at \in {"mode", "mode_old"}
      /\ \/ /\ Top.at = "mode" /\ ret' = "none" /\ drv' = [drv EXCEPT !.addr = Top.dev]
            /\ Request("set_debug_mode", "mode_old")
         \/ ConfigureFails /\ drv' = drv /\ ret' = "none"
         \/ /\ ret = "done" /\ Return("done")
            /\ drv' = [drv EXCEPT !.addr = IF SETADDR THEN DBGP_DEV_ADDR ELSE Top.dev]
  BY DEF dbgp_set_debug_mode, At, Aside, bus
<1>2. Top.dev < NADDR /\ (Top.at = "mode" => SETADDR)
  BY <1>1, ConfigureTop
<1>3. Request("set_debug_mode", "mode_old") => Requested("set_debug_mode", "mode_old")
  BY <1>1, <1>2, RequestsCall DEF UsbRequests, Asks
<1>4. Return("done") => Returned("done")
  BY <1>1, Returns DEF DbgpTypes
<1> QED
  BY <1>1, <1>2, <1>3, <1>4, RoundFails

\* An emission goes on, or initialises the controller.
Emitting(L) ==
    /\ Moved /\ stack'[1].fn = "emit" /\ stack'[1].at \in L
    /\ stack'[1].req = Top.req /\ stack'[1].pid = Top.pid

EmitInits(l) ==
    /\ Called /\ stack'[1].fn = "full_init" /\ stack'[1].at = "warm_up"
    /\ stack'[2].fn = "emit" /\ stack'[2].at = l
    /\ stack'[2].req = Top.req /\ stack'[2].pid = Top.pid

\* How an emission moves, calls an initialisation and returns: one lemma for each step.
LEMMA EmitGoes ==
  ASSUME DbgpTypes, stack # <<>>, Top.fn = "emit",
         NEW l \in {"start", "init", "go", "failure", "reinit"},
         l \in {"start", "init", "go"} => Top.at \in {"start", "init", "go"}, Goto(l)
  PROVE  Emitting({l})
BY EmitGoto DEF DbgpTypes, Emitting, Moved

LEMMA EmitInitialises ==
  ASSUME DbgpTypes, stack # <<>>, Top.fn = "emit", NEW l \in {"init", "reinit"},
         l = "init" => OnData(Top) /\ Top.at = "start", Call(full_init, l)
  PROVE  EmitInits(l)
BY EmitCalls DEF DbgpTypes, EmitInits, Called

LEMMA EmitKinds ==
  ASSUME DbgpTypes, stack # <<>>, Top.fn = "emit"
  PROVE  /\ OnUsb(Top) \/ OnData(Top)
         /\ Top.req \in UsbRequests \cup {"OUT", "IN"} /\ Top.pid \in Pids
         /\ Top.at \in {"start", "init", "go", "failure", "reinit"}
         /\ Len(stack) > 1 /\ ~AtBottom(Top)
<1>1. Top \in EmitFrames
  BY TopFacts, FrameKinds DEF DbgpTypes, Top
<1>2. ~AtBottom(Top)
  BY DEF AtBottom
<1> QED
  BY <1>1, <1>2, TopFacts DEF DbgpTypes, Top, EmitFrames, OnUsb, OnData

\* Return of an emission, to what waits for it.
EmitReturns(v) == Returned(v) /\ ret' = v /\ stack' # <<>> /\ stack'[1] = stack[2]
                  /\ WaitsFor(stack[1], stack'[1])

LEMMA EmitReturned ==
  ASSUME DbgpTypes, stack # <<>>, Top.fn = "emit", NEW v, Return(v)
  PROVE  EmitReturns(v)
<1>1. Len(stack) > 1 /\ Len(stack) \in Nat
  BY EmitKinds, TopFacts DEF DbgpTypes
<1>2. Returned(v)
  BY Returns DEF DbgpTypes
<1>3. Len(stack) # 1
  BY <1>1, MoreThanOne
<1> QED
  BY <1>2, <1>3 DEF EmitReturns, Returned

\* Only a packet finds the debug port disabled.
LEMMA StartSteps ==
  ASSUME DbgpTypes, PortEnabled, EmitStart
  PROVE  /\ stack # <<>> /\ Top.fn = "emit" /\ Top.at = "start" /\ ret' = ret /\ Aside
         /\ drv' = drv /\ ctrl' = ctrl
         /\ Emitting({"go"}) \/ (OnData(Top) /\ EmitInits("init"))
<1>1. /\ stack # <<>> /\ Top.fn = "emit" /\ Top.at = "start" /\ ret' = ret /\ Aside
      /\ drv' = drv /\ ctrl' = ctrl
      /\ IF Enabled THEN Goto("go") ELSE Call(full_init, "init")
  BY DEF EmitStart, At, Aside, bus
<1>2. OnUsb(Top) \/ OnData(Top)
  BY <1>1, EmitKinds
<1>3. OnUsb(Top) => Enabled
  BY <1>1 DEF PortEnabled, Enabled, Broken
<1>4. Goto("go") => Emitting({"go"})
  BY <1>1, EmitGoes
<1>5. OnData(Top) /\ Call(full_init, "init") => EmitInits("init")
  BY <1>1, EmitInitialises
<1> QED
  BY <1>1, <1>2, <1>3, <1>4, <1>5

LEMMA AfterInitSteps ==
  ASSUME DbgpTypes, EmitAfterInit
  PROVE  /\ stack # <<>> /\ Top.fn = "emit" /\ Top.at = "init" /\ ret' = "none" /\ Aside
         /\ drv' = drv /\ ctrl' = ctrl /\ Emitting({"go", "failure"})
<1>1. /\ stack # <<>> /\ Top.fn = "emit" /\ Top.at = "init" /\ ret' = "none" /\ Aside
      /\ drv' = drv /\ ctrl' = ctrl /\ (Goto("go") \/ Goto("failure"))
  BY DEF EmitAfterInit, At, Aside, bus
<1>2. Goto("go") => Emitting({"go"})
  BY <1>1, EmitGoes
<1>3. Goto("failure") => Emitting({"failure"})
  BY <1>1, EmitGoes
<1> QED
  BY <1>1, <1>2, <1>3 DEF Emitting

LEMMA OkSteps ==
  ASSUME DbgpTypes, EmitOk
  PROVE  /\ stack # <<>> /\ Top.fn = "emit" /\ Top.at = "go" /\ Reaches(Top.req) /\ Top.pid # 2
         /\ Top.req = "IN" => dev.next <= MaxIn
         /\ dev' = Accepts(Top.req, Top.pid) /\ EmitReturns("done")
         /\ io' = IF Top.req = "IN" THEN [io EXCEPT !.taken = Append(@, dev.next)] ELSE io
         /\ drv' = drv /\ ctrl' = ctrl /\ faults' = faults /\ harm' = harm
<1>1. /\ stack # <<>> /\ Top.fn = "emit" /\ Top.at = "go" /\ Reaches(Top.req) /\ Top.pid # 2
      /\ Top.req = "IN" => dev.next <= MaxIn
      /\ dev' = Accepts(Top.req, Top.pid) /\ Return("done")
      /\ io' = IF Top.req = "IN" THEN [io EXCEPT !.taken = Append(@, dev.next)] ELSE io
      /\ drv' = drv /\ ctrl' = ctrl /\ faults' = faults /\ harm' = harm
  BY DEF EmitOk, At, bus
<1> QED
  BY <1>1, EmitReturned

LEMMA NakStep ==
  ASSUME DbgpTypes, EmitNak
  PROVE  /\ stack # <<>> /\ Top.fn = "emit" /\ Top.at = "go"
         /\ \/ IsRead(Top.req) /\ EmitReturns("nak")
            \/ Top.req = "OUT" /\ Emitting({"go", "failure"}) /\ ret' = ret
         /\ drv' = drv /\ ctrl' = ctrl /\ dev' = dev /\ io' = io /\ harm' = harm
         /\ faults' = faults \/ (faults < MaxFaults /\ faults' = faults + 1)
<1>1. /\ stack # <<>> /\ Top.fn = "emit" /\ Top.at = "go"
      /\ \/ IsRead(Top.req) /\ Return("nak")
         \/ /\ Top.req = "OUT" /\ ret' = ret
            /\ stack' = [stack EXCEPT ![1].retry = @ - 1,
                                      ![1].at = IF Top.retry = 1 THEN "failure" ELSE "go"]
      /\ drv' = drv /\ ctrl' = ctrl /\ dev' = dev /\ io' = io /\ harm' = harm
      /\ faults' = faults \/ (faults < MaxFaults /\ faults' = faults + 1)
  BY DEF EmitNak, At, bus, Fault, IsRead
<1>2. Return("nak") => EmitReturns("nak")
  BY <1>1, EmitReturned
<1>3. stack' = [stack EXCEPT ![1].retry = @ - 1,
                             ![1].at = IF Top.retry = 1 THEN "failure" ELSE "go"]
      => Emitting({"go", "failure"})
  BY <1>1, NakGoes DEF DbgpTypes, Emitting, Moved
<1> QED
  BY <1>1, <1>2, <1>3

LEMMA ErrSteps ==
  ASSUME DbgpTypes, EmitErr
  PROVE  /\ stack # <<>> /\ Top.fn = "emit" /\ Top.at = "go" /\ drv' = drv /\ ctrl' = ctrl
         /\ \/ /\ Emitting({"failure"}) /\ ret' = ret /\ Aside
            \/ /\ Emitting({"failure"}) /\ ret' = ret /\ harm' = harm /\ io' = io
               /\ Reaches(Top.req) /\ Top.pid # 2
               /\ dev' = dev \/ (~IsRead(Top.req) /\ dev' = Accepts(Top.req, Top.pid))
               /\ faults < MaxFaults /\ faults' = faults + 1
            \/ /\ EmitReturns("done") /\ dev' = dev /\ Harmed
               /\ Top.req = "IN" /\ dev.next <= MaxIn
               /\ io' = [io EXCEPT !.taken = Append(@, dev.next)]
               /\ faults < MaxFaults /\ faults' = faults + 1
<1>1. /\ stack # <<>> /\ Top.fn = "emit" /\ Top.at = "go" /\ drv' = drv /\ ctrl' = ctrl
      /\ \/ /\ Goto("failure") /\ ret' = ret /\ Aside
         \/ /\ Goto("failure") /\ ret' = ret /\ harm' = harm /\ io' = io
            /\ Reaches(Top.req) /\ Top.pid # 2
            /\ dev' = dev \/ (~IsRead(Top.req) /\ dev' = Accepts(Top.req, Top.pid))
            /\ faults < MaxFaults /\ faults' = faults + 1
         \/ /\ Return("done") /\ dev' = dev /\ Harmed
            /\ Top.req = "IN" /\ dev.next <= MaxIn
            /\ io' = [io EXCEPT !.taken = Append(@, dev.next)]
            /\ faults < MaxFaults /\ faults' = faults + 1
  BY DEF EmitErr, At, bus, Fault, Aside
<1>2. Return("done") => EmitReturns("done")
  BY <1>1, EmitReturned
<1>3. Goto("failure") => Emitting({"failure"})
  BY <1>1, EmitGoes
<1> QED
  BY <1>1, <1>2, <1>3

LEMMA FailureSteps ==
  ASSUME DbgpTypes, EmitFailure
  PROVE  /\ stack # <<>> /\ Top.fn = "emit" /\ Top.at = "failure"
         /\ \/ /\ drv.fails < FAIL_TRSH /\ drv' = [drv EXCEPT !.fails = @ + 1]
               /\ EmitReturns("fail") /\ ctrl' = ctrl
            \/ drv' = [drv EXCEPT !.fails = 0] /\ EmitInits("reinit") /\ ret' = ret
         /\ IF Top.req = "OUT" THEN Harmed ELSE harm' = harm
         /\ dev' = dev /\ io' = io /\ faults' = faults
<1>1. /\ stack # <<>> /\ Top.fn = "emit" /\ Top.at = "failure"
      /\ \/ /\ drv.fails < FAIL_TRSH /\ drv' = [drv EXCEPT !.fails = @ + 1]
            /\ Return("fail") /\ ctrl' = ctrl
         \/ drv' = [drv EXCEPT !.fails = 0] /\ Call(full_init, "reinit") /\ ret' = ret
      /\ IF Top.req = "OUT" THEN Harmed ELSE harm' = harm
      /\ dev' = dev /\ io' = io /\ faults' = faults
  BY DEF EmitFailure, At
<1>2. Return("fail") => EmitReturns("fail")
  BY <1>1, EmitReturned
<1>3. Call(full_init, "reinit") => EmitInits("reinit")
  BY <1>1, EmitInitialises
<1> QED
  BY <1>1, <1>2, <1>3

LEMMA ReinitSteps ==
  ASSUME DbgpTypes, EmitReinit
  PROVE  /\ stack # <<>> /\ Top.fn = "emit" /\ Top.at = "reinit" /\ drv' = drv /\ ctrl' = ctrl
         /\ Aside
         /\ \/ ret = "done" /\ EmitReturns("fail")
            \/ EmitInits("reinit") /\ ret' = "none"
<1>1. /\ stack # <<>> /\ Top.fn = "emit" /\ Top.at = "reinit" /\ drv' = drv /\ ctrl' = ctrl
      /\ Aside
      /\ \/ ret = "done" /\ Return("fail")
         \/ Call(full_init, "reinit") /\ ret' = "none"
  BY DEF EmitReinit, At, Aside, bus
<1>2. Return("fail") => EmitReturns("fail")
  BY <1>1, EmitReturned
<1>3. Call(full_init, "reinit") => EmitInits("reinit")
  BY <1>1, EmitInitialises
<1> QED
  BY <1>1, <1>2, <1>3

\* The calls of the VMM.
LEMMA VmmCalls ==
  ASSUME DbgpTypes, VmmWrites \/ VmmReads
  PROVE  /\ stack = <<>> /\ StackOK(stack') /\ Len(stack') = 1 /\ stack' # <<>>
         /\ stack'[1].fn \in {"write", "read"} /\ stack'[1].at = "call"
         /\ dev' = dev /\ drv' = drv /\ ctrl' = ctrl /\ ret' = ret
         /\ harm' = harm /\ faults' = faults
         /\ io' = io \/ \E n \in 1..2 : io.goal + n <= MaxOut /\ io' = [io EXCEPT !.goal = @ + n]
<1>1. PICK f \in {"write", "read"} : stack' = <<[fn |-> f, at |-> "call"]>>
  BY DEF VmmWrites, VmmReads
<1> DEFINE c == [fn |-> f, at |-> "call"]
<1>2. FrameOK(c) /\ AtBottom(c) /\ c.fn = f /\ c.at = "call"
  BY DEF FrameOK, Frames, CallFrames, AtBottom
<1>3. StackOK(stack') /\ Len(stack') = 1 /\ stack' # <<>> /\ stack'[1] = c
  BY <1>1, <1>2, SingleOK
<1>4. /\ stack = <<>> /\ dev' = dev /\ drv' = drv /\ ctrl' = ctrl /\ ret' = ret
      /\ harm' = harm /\ faults' = faults
      /\ io' = io \/ \E n \in 1..2 : io.goal + n <= MaxOut /\ io' = [io EXCEPT !.goal = @ + n]
  BY DEF VmmWrites, VmmReads, bus
<1> QED
  BY <1>2, <1>3, <1>4

\* A packet is emitted, below which only the caller is.
PacketSent(req, p) ==
    /\ Called /\ Len(stack) = 1
    /\ stack'[1].fn = "emit" /\ stack'[1].req = req /\ stack'[1].at = "start"
    /\ stack'[1].pid = p /\ stack'[2].fn = Top.fn /\ stack'[2].at = "wait"

\* The calls of the VMM: packet after packet of a write, one packet of a read.
LEMMA WriteSteps ==
  ASSUME DbgpTypes, dbgp_write
  PROVE  /\ stack # <<>> /\ Top.fn = "write" /\ Top.at = "call" /\ ctrl' = ctrl /\ Aside
         /\ ret' = ret /\ io.out < io.goal
         /\ \/ drv.status /\ drv' = [drv EXCEPT !.wr_toggle = 1 - @] /\ PacketSent("OUT", drv'.wr_toggle)
            \/ ~drv.status /\ drv' = drv /\ \E p \in Pids : PacketSent("OUT", p)
<1>1. /\ stack # <<>> /\ Top.fn = "write" /\ Top.at = "call" /\ ctrl' = ctrl /\ Aside
      /\ ret' = ret /\ io.out < io.goal
      /\ \/ drv.status /\ drv' = [drv EXCEPT !.wr_toggle = 1 - @]
            /\ Call(Emission("OUT", drv'.wr_toggle), "wait")
         \/ ~drv.status /\ drv' = drv /\ \E p \in Pids : Call(Emission("OUT", p), "wait")
  BY DEF dbgp_write, At, Aside, bus, ehci_pid_swap
<1>2. ASSUME NEW p \in Pids, Call(Emission("OUT", p), "wait") PROVE PacketSent("OUT", p)
  BY <1>1, <1>2, PacketCalls DEF DbgpTypes, PacketSent, Called
<1>3. drv' = [drv EXCEPT !.wr_toggle = 1 - @] => drv'.wr_toggle \in Pids
  BY DEF DbgpTypes, DbgpTypeOK, DbgpInfo, Pids
<1> QED
  BY <1>1, <1>2, <1>3

LEMMA RwSteps ==
  ASSUME DbgpTypes, dbgp_rw
  PROVE  /\ stack # <<>> /\ Top.fn = "write" /\ Top.at = "wait" /\ ctrl' = ctrl /\ ret' = "none"
         /\ Moved /\ stack'[1].fn = "write" /\ stack'[1].at = "call" /\ Len(stack) = 1
         /\ drv' = [drv EXCEPT !.status = (ret = "done")]
         /\ io' = IF ret = "done" THEN [io EXCEPT !.out = @ + 1] ELSE io
         /\ dev' = dev /\ harm' = harm /\ faults' = faults
<1>1. /\ stack # <<>> /\ Top.fn = "write" /\ Top.at = "wait" /\ ctrl' = ctrl /\ ret' = "none"
      /\ Goto("call")
      /\ drv' = [drv EXCEPT !.status = (ret = "done")]
      /\ io' = IF ret = "done" THEN [io EXCEPT !.out = @ + 1] ELSE io
      /\ dev' = dev /\ harm' = harm /\ faults' = faults
  BY DEF dbgp_rw, At, bus
<1>2. Moved /\ stack'[1].fn = "write" /\ stack'[1].at = "call"
  BY <1>1, CallGoto DEF DbgpTypes, Moved
<1>3. Len(stack) = 1
  BY <1>1, TopFacts DEF DbgpTypes, Top, AtBottom
<1> QED
  BY <1>1, <1>2, <1>3

LEMMA WriteReturnSteps ==
  ASSUME DbgpTypes, dbgp_write_returns
  PROVE  /\ stack # <<>> /\ Top.fn = "write" /\ Top.at = "call" /\ stack' = <<>>
         /\ Len(stack) = 1 /\ ctrl' = ctrl /\ drv' = drv /\ ret' = ret /\ Aside
<1>1. stack # <<>> /\ Top.fn = "write" /\ Top.at = "call" /\ stack' = <<>>
      /\ ctrl' = ctrl /\ drv' = drv /\ ret' = ret /\ Aside
  BY DEF dbgp_write_returns, At, bus, Aside
<1> QED
  BY <1>1, TopFacts DEF DbgpTypes, Top, AtBottom

LEMMA ReadSteps ==
  ASSUME DbgpTypes, dbgp_read
  PROVE  /\ stack # <<>> /\ Top.fn = "read" /\ ctrl' = ctrl /\ drv' = drv /\ Aside /\ Len(stack) = 1
         /\ \/ PacketSent("IN", 0) /\ ret' = ret
            \/ Moved /\ stack'[1].fn = "read" /\ stack'[1].at = "call" /\ ret' = "none"
            \/ stack' = <<>> /\ ret' = "none"
<1>1. /\ stack # <<>> /\ Top.fn = "read" /\ ctrl' = ctrl /\ drv' = drv /\ Aside
      /\ \/ Call(Emission("IN", 0), "wait") /\ ret' = ret
         \/ Goto("call") /\ ret' = "none"
         \/ stack' = <<>> /\ ret' = "none"
  BY DEF dbgp_read, At, bus, Aside
<1>2. Call(Emission("IN", 0), "wait") => PacketSent("IN", 0)
  BY <1>1, PacketCalls DEF DbgpTypes, PacketSent, Called, Pids
<1>3. Goto("call") => Moved /\ stack'[1].fn = "read" /\ stack'[1].at = "call"
  BY <1>1, CallGoto DEF DbgpTypes, Moved
<1>4. Len(stack) = 1
  BY <1>1, TopFacts DEF DbgpTypes, Top, AtBottom
<1> QED
  BY <1>1, <1>2, <1>3, <1>4

(***************************************************************************)
(* Types.                                                                  *)
(***************************************************************************)

FieldsOK ==
    /\ hc \in HcRegs /\ portsc \in PortRegs /\ ctrl \in CtrlRegs
    /\ dev \in DevState /\ drv \in DbgpInfo
    /\ ret \in {"none", "done", "nak", "fail"}
    /\ io \in [out : 0..MaxOut, goal : 0..MaxOut, taken : Seq(1..MaxIn)]
    /\ io.out <= io.goal
    /\ faults \in 0..MaxFaults /\ harm \in 0..HarmCap

\* The types, without the stack; then the effect of each step on them.
LEMMA FieldTypes == DbgpTypeOK <=> FieldsOK /\ stack \in Seq(Frames)
BY DEF DbgpTypeOK, FieldsOK

LEMMA HarmedType ==
  ASSUME harm \in 0..HarmCap, Harmed
  PROVE  harm' \in 0..HarmCap /\ harm' >= harm /\ (harm' < HarmCap => harm' = harm + 1)
BY DbgpAssumption DEF Harmed, HarmCap

LEMMA UnconfiguredType ==
  ASSUME NEW d \in DevState
  PROVE  /\ Unconfigured(d) \in DevState /\ Unconfigured(d).pend = NoAddr
         /\ ~Unconfigured(d).mode /\ ~Unconfigured(d).steady /\ Unconfigured(d).tog = 0
         /\ Unconfigured(d).got = d.got /\ Unconfigured(d).next = d.next
         /\ Unconfigured(d).in = d.in /\ Unconfigured(d).speed = d.speed
<1>1. NoAddr \in 0..NADDR /\ 0 \in 0..NADDR
  BY DbgpAssumption DEF NoAddr
<1> QED
  BY <1>1 DEF Unconfigured, DevState

LEMMA SettleType ==
  ASSUME NEW d \in DevState
  PROVE  /\ Settle(d) \in DevState /\ Settle(d).pend = NoAddr /\ Settle(d).mode = d.mode
         /\ Settle(d).steady = d.steady /\ Settle(d).tog = d.tog /\ Settle(d).got = d.got
         /\ Settle(d).next = d.next /\ Settle(d).in = d.in /\ Settle(d).speed = d.speed
         /\ Settle(d).addr = IF d.pend = NoAddr THEN d.addr ELSE d.pend
<1>1. NoAddr \in 0..NADDR
  BY DbgpAssumption DEF NoAddr
<1>2. CASE d.pend = NoAddr
  BY <1>2 DEF Settle, DevState
<1>3. CASE d.pend # NoAddr
  BY <1>1, <1>3 DEF Settle, DevState
<1> QED
  BY <1>2, <1>3

\* What a device makes of a request, and of a packet.
LEMMA AcceptsRequest ==
  ASSUME DbgpTypes, NEW req \in UsbRequests, NEW p
  PROVE  LET d == Accepts(req, p) IN
         /\ d \in DevState /\ d.steady = dev.steady /\ d.tog = dev.tog /\ d.got = dev.got
         /\ d.next = dev.next /\ d.in = dev.in /\ d.speed = dev.speed
         /\ req = "set_addr" =>
              /\ d.mode = dev.mode
              /\ \/ d.pend = DBGP_DEV_ADDR /\ d.addr = dev.addr
                 \/ d.addr = DBGP_DEV_ADDR /\ d.pend = dev.pend
         /\ req # "set_addr" =>
              /\ d.addr = IF dev.pend = NoAddr THEN dev.addr ELSE dev.pend
              /\ d.pend = NoAddr
         /\ req = "set_debug_mode" => d.mode = TRUE
<1>1. dev \in DevState /\ DBGP_DEV_ADDR \in 0..NADDR
  BY DbgpAssumption DEF DbgpTypes, DbgpTypeOK, DBGP_DEV_ADDR
<1>2. CASE req = "set_addr"
  BY <1>1, <1>2 DEF Accepts, DevState
<1>3. CASE req = "set_debug_mode"
  <2>1. Accepts(req, p) = [Settle(dev) EXCEPT !.mode = TRUE]
    BY <1>3 DEF Accepts
  <2> DEFINE e == Settle(dev)
  <2>2. /\ e \in DevState /\ e.pend = NoAddr /\ e.steady = dev.steady /\ e.tog = dev.tog
        /\ e.got = dev.got /\ e.next = dev.next /\ e.in = dev.in /\ e.speed = dev.speed
        /\ e.addr = IF dev.pend = NoAddr THEN dev.addr ELSE dev.pend
    BY <1>1, SettleType
  <2>3. Accepts(req, p) = [e EXCEPT !.mode = TRUE]
    BY <2>1
  <2> HIDE DEF e
  <2> QED
    BY <1>3, <2>2, <2>3 DEF DevState
<1>4. CASE req \notin {"set_addr", "set_debug_mode"}
  <2>1. Accepts(req, p) = Settle(dev)
    BY <1>4 DEF Accepts, UsbRequests
  <2> QED
    BY <1>1, <1>4, <2>1, SettleType
<1> QED
  BY <1>2, <1>3, <1>4

LEMMA AcceptsPacket ==
  ASSUME DbgpTypes, NEW req \in {"OUT", "IN"}, NEW p \in {0, 1},
         req = "OUT" => io.out < MaxOut, req = "IN" => dev.next <= MaxIn
  PROVE  LET d == Accepts(req, p) IN
         /\ d \in DevState /\ d.steady = dev.steady /\ d.in = dev.in /\ d.speed = dev.speed
         /\ d.mode = dev.mode /\ d.addr = dev.addr /\ d.pend = dev.pend
         /\ req = "IN" => d.next = dev.next + 1 /\ d.tog = dev.tog /\ d.got = dev.got
         /\ req = "OUT" =>
              /\ d.next = dev.next
              /\ p = dev.tog => d.tog = 1 - dev.tog /\ d.got = Append(dev.got, io.out + 1)
              /\ p # dev.tog => d = dev
<1>1. dev \in DevState /\ io.out \in 0..MaxOut
  BY DEF DbgpTypes, DbgpTypeOK
<1>2. CASE req = "IN"
  <2>1. Accepts(req, p) = [dev EXCEPT !.next = @ + 1]
    BY <1>2 DEF Accepts
  <2>2. dev.next + 1 \in 1..MaxIn + 1
    BY <1>1, <1>2, DbgpAssumption DEF DevState
  <2> QED
    BY <1>1, <1>2, <2>1, <2>2 DEF DevState
<1>3. CASE req = "OUT" /\ p = dev.tog
  <2>1. Accepts(req, p) = [dev EXCEPT !.tog = 1 - dev.tog, !.got = Append(@, io.out + 1)]
    BY <1>3 DEF Accepts
  <2>2. 1 - dev.tog \in {0, 1} /\ io.out + 1 \in 1..MaxOut /\ dev.got \in Seq(1..MaxOut)
    BY <1>1, <1>3, DbgpAssumption DEF DevState
  <2>3. Append(dev.got, io.out + 1) \in Seq(1..MaxOut)
    BY <2>2
  <2> QED
    BY <1>1, <1>3, <2>1, <2>2, <2>3 DEF DevState
<1>4. CASE req = "OUT" /\ p # dev.tog
  <2>1. Accepts(req, p) = dev
    BY <1>4 DEF Accepts
  <2> QED
    BY <1>1, <1>4, <2>1
<1> QED
  BY <1>2, <1>3, <1>4

\* A write has at most MaxOut packets.
LEMMA AskedBounds ==
  ASSUME NEW a \in 0..MaxOut, NEW b \in 0..MaxOut, a < b
  PROVE  a < MaxOut
BY DbgpAssumption

\* A packet under way is one of those asked for.
LEMMA OutBounded ==
  ASSUME DbgpTypes, stack # <<>>, Top.fn = "emit", Top.req = "OUT"
  PROVE  Len(stack) = 2 /\ stack[2].fn = "write" /\ stack[2].at = "wait" /\ io.out < MaxOut
         /\ io.out < io.goal
<1>1. Len(stack) \in Nat /\ Len(stack) > 1 /\ WaitsFor(Top, stack[2])
  BY EmitKinds, TopFacts DEF DbgpTypes, Top
<1>2. stack[2].fn = "write" /\ stack[2].at = "wait"
  BY <1>1 DEF WaitsFor, Asks
<1>3. Len(stack) = 2
  <2> SUFFICES ASSUME Len(stack) > 2 PROVE FALSE
    BY <1>1, TwoOrMore
  <2>1. WaitsFor(stack[2], stack[2 + 1])
    BY <1>1 DEF DbgpTypes, StackOK
  <2> QED
    BY <1>2, <2>1 DEF WaitsFor
<1>4. io.out < io.goal
  BY <1>2, <1>3 DEF DbgpTypes, WriteLeft
<1>5. io.out \in 0..MaxOut /\ io.goal \in 0..MaxOut
  BY DEF DbgpTypes, DbgpTypeOK
<1>6. io.out < MaxOut
  BY <1>4, <1>5, AskedBounds
<1> QED
  BY <1>2, <1>3, <1>4, <1>6

\* An IN packet is that of a read.
LEMMA InBottom ==
  ASSUME DbgpTypes, stack # <<>>, Top.fn = "emit", Top.req = "IN"
  PROVE  Len(stack) = 2 /\ stack[2].fn = "read"
<1>1. Len(stack) \in Nat /\ Len(stack) > 1 /\ WaitsFor(Top, stack[2])
  BY EmitKinds, TopFacts DEF DbgpTypes, Top
<1>2. stack[2].fn = "read"
  BY <1>1 DEF WaitsFor, Asks
<1>3. Len(stack) = 2
  <2> SUFFICES ASSUME Len(stack) > 2 PROVE FALSE
    BY <1>1, TwoOrMore
  <2>1. WaitsFor(stack[2], stack[2 + 1])
    BY <1>1 DEF DbgpTypes, StackOK
  <2> QED
    BY <1>2, <2>1 DEF WaitsFor
<1> QED
  BY <1>2, <1>3

\* The registers of the debug port and of the device, step by step.
LEMMA DisabledType == [ownd |-> FALSE, enbl |-> FALSE] \in CtrlRegs
BY DEF CtrlRegs

LEMMA CompanionType ==
  ASSUME Companion
  PROVE  portsc' \in PortRegs
BY DEF Companion, PortRegs

LEMMA EnvironmentFields ==
  ASSUME DbgpTypes, Environment
  PROVE  FieldsOK' /\ stack' = stack /\ io' = io
<1>1. FieldsOK /\ dev \in DevState
  BY FieldTypes DEF DbgpTypes, FieldsOK
<1>2. ASSUME Unplug PROVE FieldsOK' /\ stack' = stack /\ io' = io
  <2>1. harm' \in 0..HarmCap
    BY <1>1, <1>2, HarmedType DEF Unplug, FieldsOK
  <2>2. dev' \in DevState
    <3> DEFINE d == Unconfigured(dev)
    <3>1. d \in DevState /\ dev' = [d EXCEPT !.in = FALSE]
      BY <1>1, <1>2, UnconfiguredType DEF Unplug
    <3> HIDE DEF d
    <3> QED
      BY <3>1 DEF DevState
  <2>3. faults' \in 0..MaxFaults
    BY <1>1, <1>2, DbgpAssumption DEF Unplug, Fault, FieldsOK
  <2>4. portsc' \in PortRegs
    BY <1>1, <1>2 DEF Unplug, FieldsOK, PortRegs
  <2> QED
    BY <1>1, <1>2, <2>1, <2>2, <2>3, <2>4 DEF Unplug, FieldsOK
<1>3. ASSUME Plug PROVE FieldsOK' /\ stack' = stack /\ io' = io
  <2>1. PICK s \in Speeds : dev' = [Unconfigured(dev) EXCEPT !.in = TRUE, !.speed = s]
                            /\ (faults' = faults \/ Fault)
    BY <1>3 DEF Plug
  <2>2. dev' \in DevState
    <3> DEFINE d == Unconfigured(dev)
    <3>1. d \in DevState /\ dev' = [d EXCEPT !.in = TRUE, !.speed = s]
      BY <1>1, <2>1, UnconfiguredType
    <3> HIDE DEF d
    <3> QED
      BY <3>1 DEF DevState
  <2>3. faults' \in 0..MaxFaults
    BY <1>1, <2>1, DbgpAssumption DEF Fault, FieldsOK
  <2>4. portsc' \in PortRegs
    BY <1>3 DEF Plug, PortRegs
  <2> QED
    BY <1>1, <1>3, <2>2, <2>3, <2>4 DEF Plug, FieldsOK
<1>4. ASSUME GuestSleeps PROVE FieldsOK' /\ stack' = stack /\ io' = io
  <2>1. hc' \in HcRegs
    BY <1>1, <1>4 DEF GuestSleeps, FieldsOK, HcRegs
  <2>2. faults' \in 0..MaxFaults
    BY <1>1, <1>4, DbgpAssumption DEF GuestSleeps, Fault, FieldsOK
  <2> QED
    BY <1>1, <1>4, <2>1, <2>2 DEF GuestSleeps, FieldsOK
<1>5. ASSUME GuestResets PROVE FieldsOK' /\ stack' = stack /\ io' = io
  <2>1. hc' \in HcRegs /\ portsc' \in PortRegs
    BY <1>1, <1>5 DEF GuestResets, FieldsOK, HcRegs, PortRegs
  <2>2. ctrl' \in CtrlRegs
    BY <1>1, <1>5, DisabledType DEF GuestResets, FieldsOK
  <2>3. faults' \in 0..MaxFaults
    BY <1>1, <1>5, DbgpAssumption DEF GuestResets, Fault, FieldsOK
  <2> QED
    BY <1>1, <1>5, <2>1, <2>2, <2>3 DEF GuestResets, FieldsOK
<1>6. ASSUME BiosYields PROVE FieldsOK' /\ stack' = stack /\ io' = io
  <2>1. hc' \in HcRegs
    BY <1>1, <1>6 DEF BiosYields, FieldsOK, HcRegs
  <2> QED
    BY <1>1, <1>6, <2>1 DEF BiosYields, FieldsOK
<1> QED
  BY <1>2, <1>3, <1>4, <1>5, <1>6 DEF Environment

\* A returned value is one of the four.
LEMMA ReturnType ==
  ASSUME NEW v \in {"done", "nak", "fail"}, Return(v)
  PROVE  ret' \in {"none", "done", "nak", "fail"}
BY DEF Return

LEMMA InitFields ==
  ASSUME DbgpTypes, InitSteps
  PROVE  FieldsOK'
<1>1. FieldsOK /\ dev \in DevState
  BY FieldTypes DEF DbgpTypes, FieldsOK
<1>2. ASSUME ehci_warm_up PROVE FieldsOK'
  <2>1. hc' \in HcRegs
    <3>1. PICK b \in BOOLEAN : hc' = [hc EXCEPT !.power = "D0", !.mmio = TRUE, !.bios = b]
      BY <1>2 DEF ehci_warm_up
    <3> QED
      BY <1>1, <3>1 DEF FieldsOK, HcRegs
  <2> QED
    BY <1>1, <1>2, <2>1 DEF ehci_warm_up, FieldsOK
<1>3. ASSUME ehci_acquire PROVE FieldsOK'
  <2>1. hc' \in HcRegs
    BY <1>1, <1>3 DEF ehci_acquire, FieldsOK, HcRegs
  <2> QED
    BY <1>1, <1>3, <2>1 DEF ehci_acquire, FieldsOK
<1>4. ASSUME WaitFails PROVE FieldsOK'
  <2>1. faults' \in 0..MaxFaults
    BY <1>1, <1>4, DbgpAssumption DEF WaitFails, Fault, FieldsOK
  <2> QED
    BY <1>1, <1>4, <2>1, ReturnType DEF WaitFails, FieldsOK, bus
<1>5. ASSUME ehci_reset PROVE FieldsOK'
  <2>1. hc' \in HcRegs /\ portsc' \in PortRegs
    BY <1>1, <1>5 DEF ehci_reset, FieldsOK, HcRegs, PortRegs
  <2> QED
    BY <1>1, <1>5, <2>1 DEF ehci_reset, FieldsOK
<1>6. ASSUME ehci_setup PROVE FieldsOK'
  <2>1. hc' \in HcRegs
    BY <1>1, <1>6 DEF ehci_setup, FieldsOK, HcRegs
  <2>2. portsc' \in PortRegs
    BY <1>1, <1>6 DEF ehci_setup, FieldsOK, PortRegs, DevState
  <2>3. ctrl' \in CtrlRegs
    BY <1>1, <1>6 DEF ehci_setup, FieldsOK, CtrlRegs
  <2> QED
    BY <1>1, <1>6, <2>1, <2>2, <2>3 DEF ehci_setup, FieldsOK
<1>7. ASSUME ehci_port_leave_disabled PROVE FieldsOK'
  <2>1. portsc' \in PortRegs
    BY <1>1, <1>7 DEF ehci_port_leave_disabled, FieldsOK, PortRegs
  <2>2. ret' \in {"none", "done", "nak", "fail"}
    BY <1>1, <1>7, ReturnType DEF ehci_port_leave_disabled, FieldsOK
  <2> QED
    BY <1>1, <1>7, <2>1, <2>2 DEF ehci_port_leave_disabled, FieldsOK
<1>8. ASSUME ehci_port_debounce PROVE FieldsOK'
  <2>1. portsc' \in PortRegs
    <3>1. portsc' = portsc \/ portsc' = [portsc EXCEPT !.chg = FALSE] \/ Companion
      BY <1>8 DEF ehci_port_debounce
    <3> QED
      BY <1>1, <3>1, CompanionType DEF FieldsOK, PortRegs
  <2> QED
    BY <1>1, <1>8, <2>1 DEF ehci_port_debounce, FieldsOK
<1>9. ASSUME ehci_port_reset PROVE FieldsOK'
  <2>1. portsc' \in PortRegs
    <3>1. portsc' = portsc \/ portsc' = [portsc EXCEPT !.enbl = TRUE] \/ Companion
      BY <1>9 DEF ehci_port_reset
    <3> QED
      BY <1>1, <3>1, CompanionType DEF FieldsOK, PortRegs
  <2>2. harm' \in 0..HarmCap
    BY <1>1, <1>9, HarmedType DEF ehci_port_reset, FieldsOK
  <2>3. dev' \in DevState
    <3> DEFINE d == Unconfigured(dev)
    <3>1. d \in DevState /\ dev' = [d EXCEPT !.steady = dev.in] /\ dev.in \in BOOLEAN
      BY <1>1, <1>9, UnconfiguredType DEF ehci_port_reset, DevState
    <3> HIDE DEF d
    <3> QED
      BY <3>1 DEF DevState
  <2> QED
    BY <1>1, <1>9, <2>1, <2>2, <2>3 DEF ehci_port_reset, FieldsOK
<1>10. ASSUME dbgp_enable PROVE FieldsOK'
  <2>1. portsc' \in PortRegs
    BY <1>1, <1>10 DEF dbgp_enable, FieldsOK, PortRegs
  <2>2. ctrl' \in CtrlRegs
    BY <1>10 DEF dbgp_enable, CtrlRegs
  <2> QED
    BY <1>1, <1>10, <2>1, <2>2 DEF dbgp_enable, FieldsOK
<1>11. ASSUME ehci_controller_postinit PROVE FieldsOK'
  <2>1. hc' \in HcRegs
    BY <1>1, <1>11 DEF ehci_controller_postinit, FieldsOK, HcRegs
  <2>2. ret' \in {"none", "done", "nak", "fail"}
    BY <1>11, ReturnType DEF ehci_controller_postinit
  <2> QED
    BY <1>1, <1>11, <2>1, <2>2 DEF ehci_controller_postinit, FieldsOK
<1>12. ASSUME ehci_init PROVE FieldsOK'
  BY <1>1, <1>12 DEF ehci_init, FieldsOK, bus
<1> QED
  BY <1>2, <1>3, <1>4, <1>5, <1>6, <1>7, <1>8, <1>9, <1>10, <1>11, <1>12 DEF InitSteps

LEMMA ConfigureFields ==
  ASSUME DbgpTypes, ConfigureSteps
  PROVE  FieldsOK'
<1>1. FieldsOK /\ drv \in DbgpInfo /\ DBGP_DEV_ADDR \in 0..NADDR
  BY FieldTypes, DbgpAssumption DEF DbgpTypes, FieldsOK, DBGP_DEV_ADDR
<1>2. stack # <<>> /\ Top.fn = "configure" => Top.dev \in 0..NADDR
  BY TopFacts, FrameKinds DEF DbgpTypes, Top, ConfigureFrames
<1>3. \A a \in 0..NADDR : [drv EXCEPT !.addr = a] \in DbgpInfo
  BY <1>1 DEF DbgpInfo
<1>4. ASSUME dbgp_configure PROVE FieldsOK'
  <2>1. drv' \in DbgpInfo
    BY <1>1, <1>2, <1>3, <1>4, ProbeSteps
  <2> QED
    BY <1>1, <1>4, <2>1 DEF dbgp_configure, FieldsOK, bus
<1>5. ASSUME dbgp_get_descriptor PROVE FieldsOK'
  <2>1. drv' = drv
    BY <1>5, DescriptorSteps
  <2> QED
    BY <1>1, <1>5, <2>1 DEF dbgp_get_descriptor, FieldsOK, bus
<1>6. ASSUME dbgp_set_addr PROVE FieldsOK'
  <2>1. drv' \in DbgpInfo
    BY <1>1, <1>3, <1>6, SetAddrSteps
  <2> QED
    BY <1>1, <1>6, <2>1 DEF dbgp_set_addr, FieldsOK, bus
<1>7. ASSUME dbgp_set_debug_mode PROVE FieldsOK'
  <2>1. drv' \in DbgpInfo
    BY <1>1, <1>2, <1>3, <1>7, DebugModeSteps
  <2>2. ret' \in {"none", "done", "nak", "fail"}
    BY <1>7, ReturnType DEF dbgp_set_debug_mode
  <2> QED
    BY <1>1, <1>7, <2>1, <2>2 DEF dbgp_set_debug_mode, FieldsOK, bus
<1> QED
  BY <1>4, <1>5, <1>6, <1>7 DEF ConfigureSteps

\* A packet read is taken.
LEMMA TakenType ==
  ASSUME DbgpTypes, dev.next <= MaxIn
  PROVE  /\ Append(io.taken, dev.next) \in Seq(1..MaxIn)
         /\ [io EXCEPT !.taken = Append(@, dev.next)]
              \in [out : 0..MaxOut, goal : 0..MaxOut, taken : Seq(1..MaxIn)]
<1>1. io \in [out : 0..MaxOut, goal : 0..MaxOut, taken : Seq(1..MaxIn)] /\ dev \in DevState
  BY DEF DbgpTypes, DbgpTypeOK
<1>2. dev.next \in 1..MaxIn
  BY <1>1, DbgpAssumption DEF DevState
<1>3. Append(io.taken, dev.next) \in Seq(1..MaxIn)
  BY <1>1, <1>2
<1> QED
  BY <1>1, <1>3

\* What a device accepts leaves it well formed.
LEMMA AcceptsType ==
  ASSUME DbgpTypes, stack # <<>>, Top.fn = "emit", Top.pid # 2,
         Top.req = "IN" => dev.next <= MaxIn
  PROVE  Accepts(Top.req, Top.pid) \in DevState
<1>1. Top.req \in UsbRequests \cup {"OUT", "IN"} /\ Top.pid \in {0, 1}
  BY EmitKinds DEF Pids
<1>2. CASE Top.req \in UsbRequests
  BY <1>2, AcceptsRequest
<1>3. CASE Top.req \in {"OUT", "IN"}
  <2>1. Top.req = "OUT" => io.out < MaxOut
    BY OutBounded
  <2> QED
    BY <1>1, <1>3, <2>1, AcceptsPacket
<1> QED
  BY <1>1, <1>2, <1>3

LEMMA EmitFields ==
  ASSUME DbgpTypes, EmitSteps
  PROVE  FieldsOK'
<1>1. FieldsOK /\ drv \in DbgpInfo /\ faults \in 0..MaxFaults /\ harm \in 0..HarmCap
  BY FieldTypes DEF DbgpTypes, FieldsOK
<1>2. faults < MaxFaults => faults + 1 \in 0..MaxFaults
  BY <1>1, DbgpAssumption
<1>3. ASSUME EmitStart PROVE FieldsOK'
  BY <1>1, <1>3 DEF EmitStart, FieldsOK, bus
<1>4. ASSUME EmitAfterInit PROVE FieldsOK'
  BY <1>1, <1>4 DEF EmitAfterInit, FieldsOK, bus
<1>5. ASSUME EmitOk PROVE FieldsOK'
  <2>1. dev' \in DevState
    BY <1>5, OkSteps, AcceptsType
  <2>2. /\ io' \in [out : 0..MaxOut, goal : 0..MaxOut, taken : Seq(1..MaxIn)]
        /\ io'.out = io.out /\ io'.goal = io.goal
    BY <1>1, <1>5, OkSteps, TakenType DEF FieldsOK
  <2>3. ret' = "done"
    BY <1>5, OkSteps DEF EmitReturns
  <2> QED
    BY <1>1, <1>5, <2>1, <2>2, <2>3 DEF EmitOk, FieldsOK, bus
<1>6. ASSUME EmitNak PROVE FieldsOK'
  <2>1. ret' \in {"none", "done", "nak", "fail"} /\ faults' \in 0..MaxFaults
    BY <1>1, <1>2, <1>6, NakStep DEF EmitReturns, FieldsOK
  <2> QED
    BY <1>1, <1>6, <2>1 DEF EmitNak, FieldsOK, bus
<1>7. ASSUME EmitErr PROVE FieldsOK'
  <2>1. dev' \in DevState
    <3>1. Aside \/ (Top.pid # 2 /\ ~IsRead(Top.req) /\ dev' = Accepts(Top.req, Top.pid))
          \/ dev' = dev
      BY <1>7, ErrSteps
    <3>2. stack # <<>> /\ Top.fn = "emit"
      BY <1>7, ErrSteps
    <3> QED
      BY <1>1, <3>1, <3>2, AcceptsType DEF Aside, IsRead, FieldsOK
  <2>2. /\ io' \in [out : 0..MaxOut, goal : 0..MaxOut, taken : Seq(1..MaxIn)]
        /\ io'.out = io.out /\ io'.goal = io.goal
    <3>1. io' = io \/ (dev.next <= MaxIn /\ io' = [io EXCEPT !.taken = Append(@, dev.next)])
      BY <1>7, ErrSteps DEF Aside
    <3> QED
      BY <1>1, <3>1, TakenType DEF FieldsOK
  <2>3. ret' \in {"none", "done", "nak", "fail"} /\ faults' \in 0..MaxFaults
    BY <1>1, <1>2, <1>7, ErrSteps DEF EmitReturns, FieldsOK, Aside
  <2>4. harm' \in 0..HarmCap
    <3>1. harm' = harm \/ Harmed
      BY <1>7, ErrSteps DEF Aside
    <3> QED
      BY <1>1, <3>1, HarmedType
  <2> QED
    BY <1>1, <1>7, <2>1, <2>2, <2>3, <2>4 DEF EmitErr, FieldsOK, bus
<1>8. ASSUME EmitFailure PROVE FieldsOK'
  <2>1. drv' \in DbgpInfo
    <3>1. \/ drv.fails < FAIL_TRSH /\ drv' = [drv EXCEPT !.fails = @ + 1]
          \/ drv' = [drv EXCEPT !.fails = 0]
      BY <1>8, FailureSteps
    <3>2. 0 \in 0..FAIL_TRSH /\ (drv.fails < FAIL_TRSH => drv.fails + 1 \in 0..FAIL_TRSH)
      BY <1>1, DbgpAssumption DEF DbgpInfo
    <3> QED
      BY <1>1, <3>1, <3>2 DEF DbgpInfo
  <2>2. harm' \in 0..HarmCap
    BY <1>1, <1>8, HarmedType, FailureSteps
  <2>3. ctrl' \in CtrlRegs
    BY <1>1, <1>8, DisabledType DEF EmitFailure, FieldsOK
  <2>4. ret' \in {"none", "done", "nak", "fail"}
    BY <1>1, <1>8, FailureSteps DEF EmitReturns, FieldsOK
  <2> QED
    BY <1>1, <1>8, <2>1, <2>2, <2>3, <2>4 DEF EmitFailure, FieldsOK
<1>9. ASSUME EmitReinit PROVE FieldsOK'
  <2>1. ret' \in {"none", "done", "nak", "fail"}
    BY <1>9, ReinitSteps DEF EmitReturns
  <2> QED
    BY <1>1, <1>9, <2>1 DEF EmitReinit, FieldsOK, bus
<1> QED
  BY <1>3, <1>4, <1>5, <1>6, <1>7, <1>8, <1>9 DEF EmitSteps

LEMMA CallFields ==
  ASSUME DbgpTypes, CallSteps \/ Vmm
  PROVE  FieldsOK'
<1>1. FieldsOK /\ drv \in DbgpInfo
  BY FieldTypes DEF DbgpTypes, FieldsOK
<1>2. ASSUME dbgp_write PROVE FieldsOK'
  <2>1. drv' \in DbgpInfo
    BY <1>1, <1>2, WriteSteps DEF DbgpInfo
  <2> QED
    BY <1>1, <1>2, <2>1 DEF dbgp_write, FieldsOK, bus
<1>3. ASSUME dbgp_rw PROVE FieldsOK'
  <2>1. drv' \in DbgpInfo
    BY <1>1, <1>3, RwSteps DEF DbgpInfo
  <2>2. io.out < io.goal
    <3>1. stack # <<>> /\ Top.fn = "write" /\ Top.at = "wait" /\ Len(stack) = 1
      BY <1>3, RwSteps
    <3> QED
      BY <3>1 DEF DbgpTypes, WriteLeft, Top
  <2>3. /\ io' \in [out : 0..MaxOut, goal : 0..MaxOut, taken : Seq(1..MaxIn)]
        /\ io'.out <= io'.goal
    <3>1. io' = io \/ io' = [io EXCEPT !.out = @ + 1]
      BY <1>3, RwSteps
    <3>2. io.out + 1 \in 0..MaxOut /\ io.out + 1 <= io.goal
      BY <1>1, <2>2, DbgpAssumption DEF FieldsOK
    <3> QED
      BY <1>1, <3>1, <3>2 DEF FieldsOK
  <2> QED
    BY <1>1, <1>3, <2>1, <2>3 DEF dbgp_rw, FieldsOK, bus
<1>4. ASSUME dbgp_write_returns PROVE FieldsOK'
  BY <1>1, <1>4 DEF dbgp_write_returns, FieldsOK, bus
<1>5. ASSUME dbgp_read PROVE FieldsOK'
  BY <1>1, <1>5 DEF dbgp_read, FieldsOK, bus
<1>6. ASSUME VmmWrites \/ VmmReads PROVE FieldsOK'
  <2>1. /\ io' \in [out : 0..MaxOut, goal : 0..MaxOut, taken : Seq(1..MaxIn)]
        /\ io'.out <= io'.goal
    <3>1. io' = io \/ \E n \in 1..2 : io.goal + n <= MaxOut /\ io' = [io EXCEPT !.goal = @ + n]
      BY <1>6, VmmCalls
    <3>2. \A n \in 1..2 : io.goal + n <= MaxOut => io.goal + n \in 0..MaxOut /\ io.out <= io.goal + n
      BY <1>1, DbgpAssumption DEF FieldsOK
    <3> QED
      BY <1>1, <3>1, <3>2 DEF FieldsOK
  <2> QED
    BY <1>1, <1>6, <2>1 DEF VmmWrites, VmmReads, FieldsOK, bus
<1> QED
  BY <1>2, <1>3, <1>4, <1>5, <1>6 DEF CallSteps, Vmm

StackKept == StackOK(stack') /\ WriteLeft'

\* The stack, whatever step is taken.
LEMMA ShapesOK ==
  ASSUME Moved \/ Called \/ \E v : Returned(v)
  PROVE  StackOK(stack')
BY DEF Moved, Called, Returned, Steps, Pushes, Pops

\* A write that waits still has a packet left, whatever is on top of it.
LEMMA BottomLeft ==
  ASSUME DbgpTypes, Len(stack) >= 2, Moved \/ Called \/ \E v : Returned(v),
         io'.out = io.out, io'.goal = io.goal
  PROVE  StackKept
<1>1. StackOK(stack')
  BY ShapesOK
<1>2. SameBottom(stack, stack') /\ stack # <<>>
  BY DEF Moved, Called, Returned, Steps, Pushes, Pops, DbgpTypes, StackOK
<1>3. stack' # <<>> => stack'[Len(stack')] = stack[Len(stack)]
  BY <1>2 DEF SameBottom
<1> QED
  BY <1>1, <1>2, <1>3 DEF StackKept, WriteLeft, DbgpTypes

\* The bottom of a stack of one frame, after a step or a call.
LEMMA BottomMoved ==
  ASSUME DbgpTypes, Len(stack) = 1, Moved, stack'[1].fn # "write" \/ stack'[1].at # "wait"
  PROVE  StackKept
<1>1. StackOK(stack') /\ Len(stack') = 1
  BY DEF Moved, Steps
<1> QED
  BY <1>1 DEF StackKept, WriteLeft

LEMMA BottomCalled ==
  ASSUME DbgpTypes, Len(stack) = 1, Called,
         stack'[2].fn = "write" /\ stack'[2].at = "wait" => io'.out < io'.goal
  PROVE  StackKept
<1>1. StackOK(stack') /\ Len(stack') = 2
  BY DEF Called, Pushes
<1> QED
  BY <1>1 DEF StackKept, WriteLeft

\* The depth of the stack; an emission is never alone on it.
LEMMA OneOrMore ==
  ASSUME DbgpTypes, stack # <<>>
  PROVE  Len(stack) = 1 \/ Len(stack) >= 2
<1>1. Len(stack) \in Nat \ {0}
  BY TopFacts DEF DbgpTypes
<1>2. \A n \in Nat \ {0} : n = 1 \/ n >= 2
  OBVIOUS
<1> QED
  BY <1>1, <1>2

LEMMA EmitDeep ==
  ASSUME DbgpTypes, stack # <<>>, Top.fn \in {"emit", "configure"}
  PROVE  Len(stack) >= 2 /\ ~AtBottom(Top)
<1>1. ~AtBottom(Top)
  BY DEF AtBottom
<1>2. Len(stack) # 1
  BY <1>1, TopFacts DEF DbgpTypes, Top
<1> QED
  BY <1>1, <1>2, OneOrMore

LEMMA EmptyKept ==
  ASSUME stack' = <<>>
  PROVE  StackKept
BY EmptyOK DEF StackKept, WriteLeft

\* The shapes of a round of dbgp_configure.
LEMMA RequestKept ==
  ASSUME DbgpTypes, stack # <<>>, Top.fn = "configure", Aside,
         \/ Called \/ Probing \/ RoundFailed \/ \E v : Returned(v)
  PROVE  StackKept
<1>1. Len(stack) >= 2
  BY EmitDeep
<1>2. io'.out = io.out /\ io'.goal = io.goal
  BY DEF Aside
<1>3. CASE Called \/ Moved \/ \E v : Returned(v)
  BY <1>1, <1>2, <1>3, BottomLeft
<1>4. CASE StackOK(stack') /\ Len(stack') = 1 /\ stack' # <<>> /\ stack'[1].fn = "panic"
  BY <1>4 DEF StackKept, WriteLeft
<1> QED
  BY <1>3, <1>4 DEF Probing, RoundFailed

LEMMA StackStep ==
  ASSUME DbgpTypes, PortEnabled, Driver \/ Vmm
  PROVE  StackKept
<1>1. ASSUME InitWalks PROVE StackKept
  <2>1. InitWalk
    BY <1>1, InitWalkSteps
  <2>2. CASE stack' = stack
    BY <2>1, <2>2 DEF InitWalk, StackKept, WriteLeft, DbgpTypes
  <2>3. CASE Moved /\ IsInit(stack'[1])
    <3>1. CASE Len(stack) = 1
      BY <2>3, <3>1, BottomMoved DEF IsInit
    <3>2. CASE Len(stack) >= 2
      BY <2>1, <2>3, <3>2, BottomLeft DEF InitWalk
    <3> QED
      BY <2>1, <3>1, <3>2, OneOrMore DEF InitWalk
  <2>4. CASE Returned("fail")
    <3>1. CASE Len(stack) = 1
      BY <2>4, <3>1, EmptyKept DEF Returned
    <3>2. CASE Len(stack) >= 2
      BY <2>1, <2>4, <3>2, BottomLeft DEF InitWalk
    <3> QED
      BY <2>1, <3>1, <3>2, OneOrMore DEF InitWalk
  <2> QED
    BY <2>1, <2>2, <2>3, <2>4 DEF InitWalk
<1>2. ASSUME dbgp_enable PROVE StackKept
  <2>1. stack # <<>> /\ Called /\ IsInit(stack'[2]) /\ Aside
    BY <1>2, EnableCalls
  <2>2. CASE Len(stack) = 1
    BY <2>1, <2>2, BottomCalled DEF IsInit
  <2>3. CASE Len(stack) >= 2
    BY <2>1, <2>3, BottomLeft DEF Aside
  <2> QED
    BY <2>1, <2>2, <2>3, OneOrMore
<1>3. ASSUME ehci_controller_postinit PROVE StackKept
  <2>1. stack # <<>> /\ Returned("done") /\ Aside
    BY <1>3, PostInitReturns
  <2>2. CASE Len(stack) = 1
    BY <2>1, <2>2, EmptyKept DEF Returned
  <2>3. CASE Len(stack) >= 2
    BY <2>1, <2>3, BottomLeft DEF Aside
  <2> QED
    BY <2>1, <2>2, <2>3, OneOrMore
<1>4. ASSUME ehci_init PROVE StackKept
  <2>1. /\ stack # <<>> /\ Top.fn = "boot" /\ Aside
        /\ stack' = <<>> \/ (Called /\ stack'[2].fn = "boot")
    BY <1>4, BootSteps
  <2>2. Len(stack) = 1
    BY <2>1, TopFacts DEF DbgpTypes, Top, AtBottom
  <2> QED
    BY <2>1, <2>2, BottomCalled, EmptyKept
<1>5. ASSUME ConfigureSteps PROVE StackKept
  <2>1. /\ stack # <<>> /\ Top.fn = "configure" /\ Aside
        /\ Called \/ Probing \/ RoundFailed \/ \E v : Returned(v)
    BY <1>5, ProbeSteps, DescriptorSteps, SetAddrSteps, DebugModeSteps
       DEF ConfigureSteps, Requested
  <2> QED
    BY <2>1, RequestKept
<1>6. ASSUME EmitSteps PROVE StackKept
  <2>1. ASSUME EmitStart \/ EmitAfterInit \/ EmitReinit PROVE StackKept
    <3>1. /\ stack # <<>> /\ Top.fn = "emit" /\ Aside
          /\ Moved \/ Called \/ \E v : Returned(v)
      BY <2>1, StartSteps, AfterInitSteps, ReinitSteps DEF Emitting, EmitInits, EmitReturns
    <3> QED
      BY <3>1, EmitDeep, BottomLeft DEF Aside
  <2>2. ASSUME EmitOk \/ EmitNak \/ EmitErr \/ EmitFailure PROVE StackKept
    <3>1. /\ stack # <<>> /\ Top.fn = "emit"
          /\ Moved \/ Called \/ \E v : Returned(v)
      BY <2>2, OkSteps, NakStep, ErrSteps, FailureSteps DEF Emitting, EmitInits, EmitReturns
    <3>2. io' = io \/ io' = [io EXCEPT !.taken = Append(@, dev.next)]
      BY <2>2, OkSteps, NakStep, ErrSteps, FailureSteps DEF Aside
    <3>3. io'.out = io.out /\ io'.goal = io.goal
      BY <3>2 DEF DbgpTypes, DbgpTypeOK
    <3> QED
      BY <3>1, <3>3, EmitDeep, BottomLeft
  <2> QED
    BY <1>6, <2>1, <2>2 DEF EmitSteps
<1>7. ASSUME dbgp_write PROVE StackKept
  <2>1. /\ Called /\ Len(stack) = 1 /\ io' = io /\ io.out < io.goal
    BY <1>7, WriteSteps DEF Aside, PacketSent
  <2> QED
    BY <2>1, BottomCalled
<1>8. ASSUME dbgp_rw PROVE StackKept
  BY <1>8, RwSteps, BottomMoved
<1>9. ASSUME dbgp_write_returns PROVE StackKept
  BY <1>9, WriteReturnSteps, EmptyKept
<1>10. ASSUME dbgp_read PROVE StackKept
  <2>1. /\ Len(stack) = 1 /\ Top.fn = "read"
        /\ \/ Called /\ stack'[2].fn = "read"
           \/ Moved /\ stack'[1].fn = "read"
           \/ stack' = <<>>
    BY <1>10, ReadSteps DEF PacketSent
  <2> QED
    BY <2>1, BottomCalled, BottomMoved, EmptyKept
<1>11. ASSUME Vmm PROVE StackKept
  <2>1. StackOK(stack') /\ Len(stack') = 1 /\ stack'[1].at = "call"
    BY <1>11, VmmCalls DEF Vmm
  <2> QED
    BY <2>1 DEF StackKept, WriteLeft
<1> QED
  BY <1>1, <1>2, <1>3, <1>4, <1>5, <1>6, <1>7, <1>8, <1>9, <1>10, <1>11
     DEF Driver, InitSteps, InitWalks, CallSteps

\* The types and the stack are inductive.
LEMMA DbgpTypesStep ==
  ASSUME DbgpTypes, PortEnabled, [DbgpNext]_dbgpvars
  PROVE  DbgpTypes'
<1>1. CASE Driver \/ Vmm
  <2>1. StackKept
    BY <1>1, StackStep
  <2>2. FieldsOK'
    BY <1>1, InitFields, ConfigureFields, EmitFields, CallFields DEF Driver
  <2>3. DbgpTypeOK' <=> FieldsOK' /\ stack' \in Seq(Frames)
    BY DEF DbgpTypeOK, FieldsOK
  <2> QED
    BY <2>1, <2>2, <2>3 DEF StackKept, DbgpTypes, StackOK
<1>2. CASE Environment
  <2>1. FieldsOK' /\ stack' = stack /\ io' = io
    BY <1>2, EnvironmentFields
  <2>2. DbgpTypeOK' <=> FieldsOK' /\ stack' \in Seq(Frames)
    BY DEF DbgpTypeOK, FieldsOK
  <2> QED
    BY <2>1, <2>2 DEF DbgpTypes, StackOK, WriteLeft
<1>3. CASE UNCHANGED dbgpvars
  BY <1>3 DEF dbgpvars, DbgpTypes, DbgpTypeOK, WriteLeft
<1> QED
  BY <1>1, <1>2, <1>3 DEF DbgpNext, Panicked

LEMMA DbgpTypesInit == DbgpInit => DbgpTypes
<1> SUFFICES ASSUME DbgpInit PROVE DbgpTypes
  OBVIOUS
<1>1. FieldsOK
  <2>1. hc \in HcRegs /\ portsc \in PortRegs /\ ctrl \in CtrlRegs
    BY DEF DbgpInit, HcRegs, PortRegs, CtrlRegs
  <2>2. <<>> \in Seq(1..MaxOut) /\ <<>> \in Seq(1..MaxIn) /\ 1 \in 1..MaxIn + 1
        /\ NoAddr \in 0..NADDR /\ 0 \in 0..NADDR /\ 0 \in 0..FAIL_TRSH /\ 0 \in 0..MaxOut
        /\ 0 \in 0..MaxFaults /\ 0 \in 0..HarmCap
    BY DbgpAssumption DEF NoAddr, HarmCap
  <2>3. dev \in DevState
    BY <2>2 DEF DbgpInit, DevState, Speeds
  <2>4. drv \in DbgpInfo
    BY <2>2 DEF DbgpInit, DbgpInfo
  <2>5. io \in [out : 0..MaxOut, goal : 0..MaxOut, taken : Seq(1..MaxIn)] /\ io.out <= io.goal
    BY <2>2 DEF DbgpInit
  <2> QED
    BY <2>1, <2>2, <2>3, <2>4, <2>5 DEF DbgpInit, FieldsOK
<1>2. CASE stack = <<[fn |-> "fast_init", at |-> "port_reset"]>>
  <2> DEFINE c == [fn |-> "fast_init", at |-> "port_reset"]
  <2>1. FrameOK(c) /\ AtBottom(c) /\ c.fn = "fast_init"
    BY DEF FrameOK, Frames, InitFrames, AtBottom
  <2>2. StackOK(stack) /\ Len(stack) = 1 /\ stack[1] = c
    BY <1>2, <2>1, SingleOK
  <2> QED
    BY <1>1, <2>1, <2>2, FieldTypes DEF DbgpTypes, WriteLeft, StackOK
<1>3. CASE stack = <<full_init, [fn |-> "boot", at |-> "wait"]>>
  <2> DEFINE c == [fn |-> "boot", at |-> "wait"]
  <2>1. FrameOK(c) /\ AtBottom(c) /\ c.fn = "boot" /\ c.at = "wait"
    BY DEF FrameOK, Frames, CallFrames, AtBottom
  <2>2. FrameOK(full_init) /\ full_init.fn = "full_init"
    BY CalleesOK DEF full_init
  <2>3. WaitsFor(full_init, c)
    BY <2>1, <2>2 DEF WaitsFor
  <2>4. stack \in Seq(Frames) /\ Len(stack) = 2 /\ stack[1] = full_init /\ stack[2] = c
    BY <1>3, <2>1, <2>2 DEF FrameOK
  <2>5. StackOK(stack)
    BY <2>1, <2>2, <2>3, <2>4 DEF StackOK
  <2> QED
    BY <1>1, <2>1, <2>4, <2>5, FieldTypes DEF DbgpTypes, WriteLeft
<1> QED
  BY <1>2, <1>3 DEF DbgpInit

(***************************************************************************)
(* The address.                                                            *)
(***************************************************************************)

\* A step that leaves the device, the driver's address and what is outside
\* the configurations alone.
LEMMA QuietKept ==
  ASSUME QuietAgrees, PendingKnown, Quiet(stack') => Quiet(stack),
         dev'.mode = dev.mode, dev'.steady = dev.steady, dev'.addr = dev.addr,
         dev'.pend = dev.pend, drv'.addr = drv.addr
  PROVE  QuietAgrees' /\ PendingKnown'
BY DEF QuietAgrees, PendingKnown, Agreed

\* A step on a stack with a configuration is not outside them.
LEMMA NotQuiet ==
  ASSUME NEW s, StackOK(s), s # <<>>, OnUsb(s[1]) \/ s[1].fn \in {"configure", "panic"}
  PROVE  ~Quiet(s)
<1>1. Len(s) \in Nat \ {0}
  BY TopFacts
<1>2. CASE s[1].fn \in {"configure", "panic"}
  BY <1>1, <1>2 DEF Quiet
<1>3. CASE OnUsb(s[1])
  <2>1. ~AtBottom(s[1])
    BY <1>3 DEF OnUsb, AtBottom
  <2>2. Len(s) > 1 /\ WaitsFor(s[1], s[2])
    BY <2>1, TopFacts
  <2>3. s[2].fn = "configure"
    BY <1>3, <2>2 DEF WaitsFor, OnUsb, UsbRequests
  <2> QED
    BY <1>1, <2>2, <2>3 DEF Quiet
<1> QED
  BY <1>2, <1>3

\* Each part of AddressInv, action by action.
LEMMA AddressEnvironment ==
  ASSUME DbgpTypes, AddressInv, Environment
  PROVE  AddressInv'
<1>1. /\ stack' = stack /\ drv' = drv /\ ret' = ret
      /\ ctrl' = ctrl \/ stack = <<>>
      /\ dev' = dev \/ (dev'.steady = FALSE /\ dev'.pend = NoAddr)
  <2>1. dev \in DevState
    BY DEF DbgpTypes, DbgpTypeOK
  <2>2. ASSUME Unplug PROVE dev'.steady = FALSE /\ dev'.pend = NoAddr
    <3> DEFINE d == Unconfigured(dev)
    <3>1. d \in DevState /\ dev' = [d EXCEPT !.in = FALSE] /\ ~d.steady /\ d.pend = NoAddr
      BY <2>1, <2>2, UnconfiguredType DEF Unplug
    <3> HIDE DEF d
    <3> QED
      BY <3>1 DEF DevState
  <2>3. ASSUME Plug PROVE dev'.steady = FALSE /\ dev'.pend = NoAddr
    <3> DEFINE d == Unconfigured(dev)
    <3>1. PICK s \in Speeds : dev' = [d EXCEPT !.in = TRUE, !.speed = s]
      BY <2>3 DEF Plug
    <3>2. d \in DevState /\ ~d.steady /\ d.pend = NoAddr
      BY <2>1, UnconfiguredType
    <3> HIDE DEF d
    <3> QED
      BY <3>1, <3>2 DEF DevState
  <2> QED
    BY <2>2, <2>3 DEF Environment, Unplug, Plug, GuestSleeps, GuestResets, BiosYields
<1>2. QuietAgrees' /\ PendingKnown'
  BY <1>1 DEF AddressInv, QuietAgrees, Agreed, PendingKnown
<1>3. PortEnabled' /\ RequestAddress'
  BY <1>1 DEF AddressInv, PortEnabled, RequestAddress, Broken, Top
<1>4. DeviceMoves'
  BY <1>1 DEF AddressInv, DeviceMoves, Moves, Moving, Broken, Top
<1>5. RequestDone'
  BY <1>1 DEF AddressInv, RequestDone, Moving, Configured, Top
<1> QED
  BY <1>2, <1>3, <1>4, <1>5 DEF AddressInv

\* An initialisation that has not come to the configuration, or that returned.
LEMMA AddressInit ==
  ASSUME DbgpTypes, AddressInv, InitWalk
  PROVE  AddressInv'
<1>1. /\ dev \in DevState /\ drv' = drv
      /\ dev' = dev \/ (dev'.mode = FALSE /\ dev'.pend = NoAddr)
  <2>1. dev \in DevState
    BY DEF DbgpTypes, DbgpTypeOK
  <2>2. ASSUME dev' = [Unconfigured(dev) EXCEPT !.steady = dev.in]
        PROVE  dev'.mode = FALSE /\ dev'.pend = NoAddr
    <3> DEFINE d == Unconfigured(dev)
    <3>1. d \in DevState /\ dev' = [d EXCEPT !.steady = dev.in] /\ ~d.mode /\ d.pend = NoAddr
      BY <2>1, <2>2, UnconfiguredType
    <3> HIDE DEF d
    <3> QED
      BY <3>1 DEF DevState
  <2> QED
    BY <2>1, <2>2 DEF InitWalk
<1>2. stack # <<>> /\ IsInit(Top) /\ Top.at # "configure"
  BY DEF InitWalk
<1>3. Quiet(stack') => Quiet(stack)
  BY <1>2 DEF InitWalk, Moved, Returned, Steps, Pops, IsInit, Top
<1>4. QuietAgrees' /\ PendingKnown'
  BY <1>1, <1>3 DEF AddressInv, QuietAgrees, Agreed, PendingKnown
<1>5. CASE stack' = stack /\ ret' = ret
  BY <1>2, <1>4, <1>5 DEF AddressInv, PortEnabled, RequestAddress, DeviceMoves, RequestDone,
     OnUsb, IsInit, Top
<1>6. CASE stack' # <<>> /\ IsInit(stack'[1]) /\ stack'[1].at # "configure"
  BY <1>4, <1>6 DEF AddressInv, PortEnabled, RequestAddress, DeviceMoves, RequestDone,
     OnUsb, IsInit, Top
<1>7. CASE stack' = <<>>
  BY <1>4, <1>7 DEF AddressInv, PortEnabled, RequestAddress, DeviceMoves, RequestDone
<1>8. CASE ret' = "fail" /\ stack' # <<>> /\ WaitsFor(stack[1], stack'[1])
  <2>1. \/ stack'[1].fn = "emit" /\ stack'[1].at = "reinit"
        \/ stack'[1].fn = "emit" /\ OnData(stack'[1])
        \/ stack'[1].fn = "boot"
    BY <1>2, <1>8 DEF WaitsFor, IsInit, Top
  <2>2. OnData(stack'[1]) => ~OnUsb(stack'[1])
    BY DEF OnData, OnUsb, UsbRequests
  <2> QED
    BY <1>4, <1>8, <2>1, <2>2 DEF AddressInv, PortEnabled, RequestAddress, DeviceMoves,
       RequestDone, OnUsb, IsInit, Broken, Top
<1> QED
  BY <1>5, <1>6, <1>7, <1>8 DEF InitWalk, Moved, Steps, Returned

\* The configuration is entered, with the debug port enabled.
LEMMA AddressEnable ==
  ASSUME DbgpTypes, AddressInv, dbgp_enable
  PROVE  AddressInv'
<1>1. /\ StackOK(stack') /\ stack' # <<>> /\ stack'[1].fn = "configure"
      /\ stack'[1].at = "probe" /\ ctrl'.ownd /\ ctrl'.enbl /\ dev' = dev /\ drv' = drv
  BY EnableCalls DEF Called, Pushes, Aside
<1>2. ~Quiet(stack')
  BY <1>1, NotQuiet
<1> QED
  BY <1>1, <1>2 DEF AddressInv, QuietAgrees, PendingKnown, PortEnabled, RequestAddress,
     DeviceMoves, Moves, RequestDone, OnUsb, IsInit, Top

\* An initialisation is done: the device is where the driver expects it.
LEMMA AddressPostInit ==
  ASSUME DbgpTypes, AddressInv, ehci_controller_postinit
  PROVE  AddressInv'
<1>1. /\ stack # <<>> /\ IsInit(Top) /\ Top.at = "configure" /\ ret = "done"
      /\ Returned("done") /\ ctrl' = ctrl /\ drv' = drv /\ dev' = dev
  BY PostInitReturns DEF Aside
<1>2. /\ ctrl.enbl /\ ctrl.ownd /\ Configured(drv.addr)
      /\ SETADDR => drv.addr = DBGP_DEV_ADDR
  BY <1>1 DEF AddressInv, PortEnabled, RequestDone
<1>3. QuietAgrees' /\ PendingKnown'
  BY <1>1, <1>2 DEF AddressInv, QuietAgrees, Agreed, Configured, PendingKnown
<1>4. CASE stack' = <<>>
  BY <1>3, <1>4 DEF AddressInv, PortEnabled, RequestAddress, DeviceMoves, RequestDone
<1>5. CASE ret' = "done" /\ stack' # <<>> /\ WaitsFor(stack[1], stack'[1])
  <2>1. \/ stack'[1].fn = "emit" /\ stack'[1].at = "reinit"
        \/ stack'[1].fn = "emit" /\ OnData(stack'[1])
        \/ stack'[1].fn = "boot"
    BY <1>1, <1>5 DEF WaitsFor, IsInit, Top
  <2>2. OnData(stack'[1]) => ~OnUsb(stack'[1])
    BY DEF OnData, OnUsb, UsbRequests
  <2>3. PortEnabled'
    BY <1>1, <1>2 DEF PortEnabled
  <2>4. RequestAddress'
    BY <1>5, <2>1, <2>2 DEF RequestAddress, OnUsb, Top
  <2>5. DeviceMoves'
    BY <1>1, <1>2, <2>1 DEF DeviceMoves, Moves, Moving, Configured, Top
  <2>6. RequestDone'
    BY <1>5, <2>1 DEF RequestDone, IsInit, Top
  <2> QED
    BY <1>3, <2>3, <2>4, <2>5, <2>6 DEF AddressInv
<1> QED
  BY <1>1, <1>4, <1>5 DEF Returned

\* The boot and the calls of the configuration.
LEMMA AddressBoot ==
  ASSUME DbgpTypes, AddressInv, ehci_init
  PROVE  AddressInv'
<1>1. /\ stack # <<>> /\ Top.fn = "boot" /\ ret' = "none"
      /\ \/ stack' = <<>>
         \/ Called /\ stack'[1].fn = "full_init" /\ stack'[1].at = "warm_up"
      /\ drv' = drv /\ ctrl' = ctrl /\ dev' = dev
  BY BootSteps DEF Aside
<1>2. Quiet(stack)
  <2>1. Len(stack) = 1
    BY <1>1, TopFacts DEF DbgpTypes, Top, AtBottom
  <2> QED
    BY <1>1, <2>1 DEF Quiet, Top
<1>3. QuietAgrees' /\ PendingKnown'
  BY <1>1, <1>2 DEF AddressInv, QuietAgrees, Agreed, PendingKnown
<1> QED
  BY <1>1, <1>3 DEF AddressInv, PortEnabled, RequestAddress, DeviceMoves, RequestDone,
     OnUsb, IsInit, Top

\* A round of dbgp_configure that starts again, or the panic.
LEMMA AddressRound ==
  ASSUME DbgpTypes, AddressInv, stack # <<>>, Top.fn = "configure", RoundFailed, Aside,
         ctrl' = ctrl
  PROVE  AddressInv'
<1>1. /\ StackOK(stack') /\ stack' # <<>> /\ dev' = dev
      /\ \/ stack'[1].fn = "configure" /\ stack'[1].at = "probe"
         \/ stack'[1].fn = "panic"
  BY DEF RoundFailed, Probing, Moved, Steps, Aside
<1>2. ~Quiet(stack')
  BY <1>1, NotQuiet
<1>3. ctrl.enbl /\ ctrl.ownd
  BY DEF AddressInv, PortEnabled
<1> QED
  BY <1>1, <1>2, <1>3 DEF AddressInv, QuietAgrees, PendingKnown, PortEnabled, RequestAddress,
     DeviceMoves, Moves, RequestDone, OnUsb, IsInit, Top

\* A request goes to the address where the device was found, or to the new one.
LEMMA AddressRequest ==
  ASSUME DbgpTypes, AddressInv, stack # <<>>, Top.fn = "configure", Aside, ctrl' = ctrl,
         NEW req \in UsbRequests, NEW l, Requested(req, l),
         drv'.addr = IF l = "mode" THEN DBGP_DEV_ADDR ELSE Top.dev,
         l \in {"mode", "mode_old"} => Top.dev = DBGP_DEV_ADDR \/ ~SETADDR \/ Moving(dev, Top)
  PROVE  AddressInv'
<1>1. /\ StackOK(stack') /\ stack' # <<>> /\ dev' = dev
      /\ stack'[1].fn = "emit" /\ stack'[1].req = req /\ stack'[1].at = "start"
      /\ stack'[2].fn = "configure" /\ stack'[2].at = l /\ stack'[2].dev = Top.dev
  BY DEF Requested, Called, Pushes, Aside
<1>2. ~Quiet(stack')
  BY <1>1, NotQuiet DEF OnUsb
<1>3. ctrl.enbl /\ ctrl.ownd
  BY DEF AddressInv, PortEnabled
<1>4. QuietAgrees' /\ PendingKnown' /\ PortEnabled'
  BY <1>1, <1>2, <1>3 DEF AddressInv, QuietAgrees, PendingKnown, PortEnabled
<1>5. RequestAddress'
  BY <1>1 DEF RequestAddress, Top
<1>6. DeviceMoves'
  BY <1>1 DEF DeviceMoves, Moves, Moving, Top
<1>7. RequestDone'
  BY <1>1 DEF RequestDone, IsInit, Top
<1> QED
  BY <1>4, <1>5, <1>6, <1>7 DEF AddressInv

\* The steps of a configuration, label by label.
LEMMA AddressConfigure ==
  ASSUME DbgpTypes, AddressInv, ConfigureSteps
  PROVE  AddressInv'
<1>1. drv \in DbgpInfo
  BY DEF DbgpTypes, DbgpTypeOK
<1>2. ASSUME dbgp_configure PROVE AddressInv'
  <2>1. /\ stack # <<>> /\ Top.fn = "configure" /\ ctrl' = ctrl /\ Aside
        /\ \/ Requested("get_descriptor", "descriptor") /\ drv' = [drv EXCEPT !.addr = Top.dev]
           \/ RoundFailed
    BY <1>2, ProbeSteps
  <2>2. CASE RoundFailed
    BY <2>1, <2>2, AddressRound
  <2>3. CASE Requested("get_descriptor", "descriptor") /\ drv' = [drv EXCEPT !.addr = Top.dev]
    <3>1. drv'.addr = Top.dev
      BY <1>1, <2>3 DEF DbgpInfo
    <3> QED
      BY <2>1, <2>3, <3>1, AddressRequest DEF UsbRequests
  <2> QED
    BY <2>1, <2>2, <2>3
<1>3. ASSUME dbgp_get_descriptor PROVE AddressInv'
  <2>1. /\ stack # <<>> /\ Top.fn = "configure" /\ ctrl' = ctrl /\ Aside
        /\ drv' = drv /\ Top.at \in {"descriptor", "answer"}
    BY <1>3, DescriptorSteps
  <2>2. CASE Probing
    BY <2>1, <2>2, AddressRound DEF RoundFailed
  <2>3. ret = "done" => drv.addr = Top.dev
    BY <2>1 DEF AddressInv, RequestDone
  <2>4. CASE ret = "done" /\ Requested("read_descriptor", "answer")
    BY <2>1, <2>3, <2>4, AddressRequest DEF UsbRequests
  <2>5. CASE ret = "done" /\ Requested("set_addr", "addr")
    BY <2>1, <2>3, <2>5, AddressRequest DEF UsbRequests
  <2>6. CASE /\ ret = "done" /\ Top.dev = DBGP_DEV_ADDR
             /\ Requested("set_debug_mode", "mode")
    BY <2>1, <2>3, <2>6, AddressRequest DEF UsbRequests
  <2>7. CASE ret = "done" /\ ~SETADDR /\ Requested("set_debug_mode", "mode_old")
    BY <2>1, <2>3, <2>7, AddressRequest DEF UsbRequests
  <2> QED
    BY <1>3, <2>2, <2>4, <2>5, <2>6, <2>7, DescriptorSteps
<1>4. ASSUME dbgp_set_addr PROVE AddressInv'
  <2>1. /\ stack # <<>> /\ Top.fn = "configure" /\ ctrl' = ctrl /\ Aside /\ Top.at = "addr"
        /\ \/ /\ ret = "done" /\ drv' = [drv EXCEPT !.addr = DBGP_DEV_ADDR]
              /\ Requested("set_debug_mode", "mode")
           \/ RoundFailed
    BY <1>4, SetAddrSteps
  <2>2. CASE RoundFailed
    BY <2>1, <2>2, AddressRound
  <2>3. CASE /\ ret = "done" /\ drv' = [drv EXCEPT !.addr = DBGP_DEV_ADDR]
             /\ Requested("set_debug_mode", "mode")
    <3>1. drv'.addr = DBGP_DEV_ADDR
      BY <1>1, <2>3 DEF DbgpInfo
    <3>2. Moving(dev, Top)
      BY <2>1, <2>3 DEF AddressInv, RequestDone
    <3> QED
      BY <2>1, <2>3, <3>1, <3>2, AddressRequest DEF UsbRequests
  <2> QED
    BY <2>1, <2>2, <2>3
<1>5. ASSUME dbgp_set_debug_mode PROVE AddressInv'
  <2>1. /\ stack # <<>> /\ Top.fn = "configure" /\ ctrl' = ctrl /\ Aside
        /\ Top.at \in {"mode", "mode_old"}
        /\ \/ /\ Top.at = "mode" /\ SETADDR /\ drv' = [drv EXCEPT !.addr = Top.dev]
              /\ Requested("set_debug_mode", "mode_old")
           \/ RoundFailed
           \/ /\ ret = "done" /\ Returned("done")
              /\ drv' = [drv EXCEPT !.addr = IF SETADDR THEN DBGP_DEV_ADDR ELSE Top.dev]
    BY <1>5, DebugModeSteps
  <2>2. CASE RoundFailed
    BY <2>1, <2>2, AddressRound
  <2>3. CASE /\ Top.at = "mode" /\ SETADDR /\ drv' = [drv EXCEPT !.addr = Top.dev]
             /\ Requested("set_debug_mode", "mode_old")
    <3>1. drv'.addr = Top.dev
      BY <1>1, <2>3 DEF DbgpInfo
    <3>2. Moving(dev, Top)
      BY <2>1, <2>3 DEF AddressInv, DeviceMoves, Moves
    <3> QED
      BY <2>1, <2>3, <3>1, <3>2, AddressRequest DEF UsbRequests
  <2>4. CASE /\ ret = "done" /\ Returned("done")
             /\ drv' = [drv EXCEPT !.addr = IF SETADDR THEN DBGP_DEV_ADDR ELSE Top.dev]
    <3> DEFINE a == IF SETADDR THEN DBGP_DEV_ADDR ELSE Top.dev
    <3>1. drv'.addr = a /\ Configured(a) /\ ctrl.enbl /\ ctrl.ownd /\ dev' = dev
      BY <1>1, <2>1, <2>4 DEF DbgpInfo, AddressInv, RequestDone, PortEnabled, Aside
    <3>2. QuietAgrees' /\ PendingKnown' /\ PortEnabled'
      BY <2>1, <3>1 DEF AddressInv, QuietAgrees, Agreed, Configured, PendingKnown, PortEnabled
    <3>3. stack' # <<>> /\ IsInit(stack'[1]) /\ stack'[1].at = "configure"
      <4>1. Len(stack) >= 2 /\ Len(stack) \in Nat
        BY <2>1, EmitDeep, TopFacts DEF DbgpTypes
      <4>2. Len(stack) # 1
        BY <4>1, NotOne
      <4>3. stack' # <<>> /\ WaitsFor(stack[1], stack'[1])
        BY <2>4, <4>2 DEF Returned
      <4> QED
        BY <2>1, <4>3 DEF WaitsFor, Top
    <3>4. RequestAddress' /\ DeviceMoves'
      BY <3>3 DEF RequestAddress, DeviceMoves, OnUsb, IsInit, Top
    <3>5. RequestDone'
      BY <3>1, <3>3 DEF RequestDone, Configured, IsInit, Top
    <3> QED
      BY <3>2, <3>4, <3>5 DEF AddressInv
  <2> QED
    BY <2>1, <2>2, <2>3, <2>4
<1> QED
  BY <1>2, <1>3, <1>4, <1>5 DEF ConfigureSteps

\* Nothing more is said of a stack outside the configurations.
LEMMA AddressElsewhere ==
  ASSUME QuietAgrees', PendingKnown',
         stack' # <<>> => /\ stack'[1].fn # "configure" /\ ~OnUsb(stack'[1])
                          /\ IsInit(stack'[1]) => stack'[1].at # "configure"
  PROVE  AddressInv'
BY DEF AddressInv, PortEnabled, RequestAddress, DeviceMoves, RequestDone, Top

\* A frame that is no request of the configuration.
LEMMA NotUsb ==
  ASSUME NEW f, f.fn # "emit" \/ OnData(f)
  PROVE  ~OnUsb(f)
BY DEF OnUsb, OnData, UsbRequests

\* The types of what the address is about.
LEMMA AddressKnown ==
  /\ DBGP_DEV_ADDR # NoAddr
  /\ DbgpTypes => dev \in DevState /\ drv \in DbgpInfo
BY DbgpAssumption DEF DBGP_DEV_ADDR, NoAddr, DbgpTypes, DbgpTypeOK

\* An initialisation an emission asks for.
LEMMA AddressEmitInits ==
  ASSUME DbgpTypes, AddressInv, stack # <<>>, NEW l, EmitInits(l),
         dev' = dev, drv'.addr = drv.addr
  PROVE  AddressInv'
<1>1. /\ stack' # <<>> /\ stack'[1].fn = "full_init" /\ stack'[1].at = "warm_up"
      /\ Quiet(stack') => Quiet(stack)
  BY DEF EmitInits, Called, Pushes
<1>2. QuietAgrees' /\ PendingKnown'
  BY <1>1, QuietKept DEF AddressInv
<1> QED
  BY <1>1, <1>2, AddressElsewhere, NotUsb

\* A packet of the VMM goes on, or returns.
LEMMA AddressData ==
  ASSUME DbgpTypes, AddressInv, stack # <<>>, OnData(Top),
         (\E L : Emitting(L)) \/ (\E v : EmitReturns(v)),
         dev'.mode = dev.mode, dev'.steady = dev.steady, dev'.addr = dev.addr,
         dev'.pend = dev.pend, drv'.addr = drv.addr
  PROVE  AddressInv'
<1>1. CASE \E L : Emitting(L)
  <2>1. PICK L : Emitting(L)
    BY <1>1
  <2>2. /\ stack' # <<>> /\ stack'[1].fn = "emit" /\ stack'[1].req = Top.req
        /\ Quiet(stack') => Quiet(stack)
    BY <2>1 DEF Emitting, Moved, Steps
  <2>3. OnData(stack'[1])
    BY <2>2 DEF OnData
  <2>4. QuietAgrees' /\ PendingKnown'
    BY <2>2, QuietKept DEF AddressInv
  <2> QED
    BY <2>2, <2>3, <2>4, AddressElsewhere, NotUsb DEF IsInit
<1>2. CASE \E v : EmitReturns(v)
  <2>1. PICK v : EmitReturns(v)
    BY <1>2
  <2>2. stack' # <<>> /\ stack'[1].fn \in {"write", "read"}
    BY <2>1 DEF EmitReturns, WaitsFor, OnData, Asks, Top
  <2>3. Quiet(stack') => Quiet(stack)
    BY <2>1 DEF EmitReturns, Returned, Pops, OnData, Top
  <2>4. QuietAgrees' /\ PendingKnown'
    BY <2>3, QuietKept DEF AddressInv
  <2> QED
    BY <2>2, <2>4, AddressElsewhere, NotUsb DEF IsInit
<1> QED
  BY <1>1, <1>2

\* What waits for a request of the configuration.
LEMMA UsbCaller ==
  ASSUME DbgpTypes, stack # <<>>, OnUsb(Top)
  PROVE  /\ stack[2].fn = "configure" /\ Asks(stack[2].at, Top.req)
         /\ stack[2].at # "probe" /\ (stack[2].at = "mode" => SETADDR)
         /\ Top.fn = "emit" /\ Len(stack) >= 2
<1>1. Top.fn = "emit" /\ Len(stack) > 1 /\ Len(stack) >= 2
  BY EmitKinds, EmitDeep DEF OnUsb
<1>2. WaitsFor(Top, stack[2]) /\ FrameOK(stack[2])
  BY <1>1, TopFacts DEF DbgpTypes, Top
<1> QED
  BY <1>1, <1>2 DEF WaitsFor, OnUsb, UsbRequests, FrameOK, Asks, IsInit

\* A request leaves the device where it was, or moves it as it should.
LEMMA MovesKept ==
  ASSUME DbgpTypes, AddressInv, stack # <<>>, OnUsb(Top), ~Broken,
         NEW d, d = dev \/ d = Accepts(Top.req, Top.pid)
  PROVE  /\ d.pend \in {NoAddr, DBGP_DEV_ADDR} /\ (~SETADDR => d.pend = NoAddr)
         /\ Moves(d, stack[2]) /\ d.steady = dev.steady
<1> DEFINE f == stack[2]
<1>1. Moves(dev, f) /\ PendingKnown
  BY DEF AddressInv, DeviceMoves
<1>2. Top.req \in UsbRequests /\ Asks(f.at, Top.req) /\ (f.at = "addr" => SETADDR)
  BY UsbCaller, EmitDeep, TopFacts DEF OnUsb, DbgpTypes, FrameOK
<1> HIDE DEF f
<1>3. CASE d = dev
  BY <1>1, <1>3 DEF PendingKnown, f
<1>4. CASE d = Accepts(Top.req, Top.pid) /\ Top.req = "set_addr"
  <2>1. /\ d.steady = dev.steady
        /\ \/ d.pend = DBGP_DEV_ADDR
           \/ d.pend = dev.pend
    BY <1>2, <1>4, AcceptsRequest
  <2>2. SETADDR /\ f.at \notin {"mode", "mode_old"}
    BY <1>2, <1>4 DEF Asks
  <2> QED
    BY <1>1, <2>1, <2>2 DEF PendingKnown, Moves, f
<1>5. CASE d = Accepts(Top.req, Top.pid) /\ Top.req # "set_addr"
  <2>1. /\ d.steady = dev.steady /\ d.pend = NoAddr
        /\ d.addr = IF dev.pend = NoAddr THEN dev.addr ELSE dev.pend
    BY <1>2, <1>5, AcceptsRequest
  <2>2. Moves(d, f)
    BY <1>1, <2>1, AddressKnown DEF Moves, Moving, PendingKnown
  <2> QED
    BY <2>1, <2>2 DEF f
<1> QED
  BY <1>3, <1>4, <1>5

\* A request goes on at the address it was sent to.
LEMMA AddressUsbGoes ==
  ASSUME DbgpTypes, AddressInv, stack # <<>>, OnUsb(Top), Top.at \in {"start", "init", "go"},
         NEW L, L \subseteq {"go", "failure"}, Emitting(L),
         dev' = dev \/ dev' = Accepts(Top.req, Top.pid), drv' = drv, ctrl' = ctrl
  PROVE  AddressInv'
<1>1. ~Broken /\ Len(stack) >= 2
  BY UsbCaller DEF Broken
<1>2. /\ StackOK(stack') /\ stack' # <<>> /\ stack'[1].fn = "emit" /\ stack'[2] = stack[2]
      /\ stack'[1].req = Top.req /\ stack'[1].at \in {"go", "failure"}
  BY <1>1 DEF Emitting, Moved, Steps
<1>3. OnUsb(stack'[1]) /\ ~Quiet(stack')
  BY <1>2, NotQuiet DEF OnUsb
<1>4. Moves(dev', stack[2]) /\ PendingKnown'
  BY <1>1, MovesKept DEF PendingKnown
<1>5. PortEnabled' /\ RequestAddress'
  BY <1>1, <1>2, <1>3 DEF AddressInv, PortEnabled, RequestAddress, Top
<1>6. DeviceMoves'
  BY <1>2, <1>4 DEF DeviceMoves, Top
<1>7. RequestDone'
  BY <1>2 DEF RequestDone, IsInit, Top
<1> QED
  BY <1>3, <1>4, <1>5, <1>6, <1>7 DEF AddressInv, QuietAgrees

\* A request returns to the configuration.
LEMMA AddressUsbReturns ==
  ASSUME DbgpTypes, AddressInv, stack # <<>>, OnUsb(Top), ~Broken,
         NEW v, EmitReturns(v), dev' = dev \/ dev' = Accepts(Top.req, Top.pid), ctrl' = ctrl,
         v = "done" => RequestDone'
  PROVE  AddressInv'
<1>1. /\ StackOK(stack') /\ stack' # <<>> /\ stack'[1] = stack[2] /\ ret' = v
      /\ stack'[1].fn = "configure"
  BY UsbCaller DEF EmitReturns, Returned, Pops
<1>2. ~Quiet(stack')
  BY <1>1, NotQuiet
<1>3. Moves(dev', stack[2]) /\ PendingKnown'
  BY MovesKept DEF PendingKnown
<1>4. PortEnabled' /\ RequestAddress' /\ DeviceMoves'
  BY <1>1, <1>3 DEF AddressInv, PortEnabled, RequestAddress, DeviceMoves, OnUsb, Top
<1>5. RequestDone'
  BY <1>1 DEF RequestDone
<1> QED
  BY <1>2, <1>3, <1>4, <1>5 DEF AddressInv, QuietAgrees

\* A request is acknowledged: it reached the device at the address it went to.
LEMMA RequestAcknowledged ==
  ASSUME DbgpTypes, AddressInv, stack # <<>>, OnUsb(Top), Top.at = "go", Reaches(Top.req),
         EmitReturns("done"), dev' = Accepts(Top.req, Top.pid), drv' = drv
  PROVE  RequestDone'
<1> DEFINE f == stack[2]
           d == Accepts(Top.req, Top.pid)
<1>1. /\ stack' # <<>> /\ stack'[1] = f /\ f.fn = "configure" /\ Asks(f.at, Top.req)
      /\ f.at = "mode" => SETADDR
  BY UsbCaller DEF EmitReturns
<1>2. /\ drv.addr = IF f.at = "mode" THEN DBGP_DEV_ADDR ELSE f.dev
      /\ dev.addr = drv.addr /\ Moves(dev, f) /\ PendingKnown
  <2>1. ~Broken
    BY DEF Broken
  <2> QED
    BY <2>1 DEF AddressInv, RequestAddress, DeviceMoves, Reaches
<1>3. Top.req \in UsbRequests
  BY DEF OnUsb
<1>4. f.at \in {"descriptor", "answer"} => drv'.addr = f.dev
  BY <1>2
<1>5. ASSUME f.at = "addr" PROVE Moving(d, f)
  <2>1. d.pend = DBGP_DEV_ADDR \/ d.addr = DBGP_DEV_ADDR
    BY <1>1, <1>3, <1>5, AcceptsRequest DEF Asks
  <2> QED
    BY <2>1 DEF Moving
<1>6. ASSUME f.at \in {"mode", "mode_old"}
      PROVE  d.steady => d.mode /\ d.addr = IF SETADDR THEN DBGP_DEV_ADDR ELSE f.dev
  <2>1. /\ d.mode = TRUE /\ d.steady = dev.steady
        /\ d.addr = IF dev.pend = NoAddr THEN dev.addr ELSE dev.pend
    BY <1>1, <1>3, <1>6, AcceptsRequest DEF Asks
  <2>2. CASE ~SETADDR
    BY <1>1, <1>2, <1>6, <2>1, <2>2 DEF PendingKnown
  <2>3. CASE SETADDR
    BY <1>1, <1>2, <1>6, <2>1, <2>3, AddressKnown DEF PendingKnown, Moves, Moving
  <2> QED
    BY <2>2, <2>3
<1> HIDE DEF f
<1>7. dev' = d
  OBVIOUS
<1> HIDE DEF d
<1> QED
  BY <1>1, <1>4, <1>5, <1>6, <1>7 DEF RequestDone, Configured, IsInit, Top

\* A packet leaves the device where it is.
LEMMA DataKept ==
  ASSUME DbgpTypes, stack # <<>>, OnData(Top), Top.pid # 2, Top.req = "IN" => dev.next <= MaxIn,
         NEW d, d = Accepts(Top.req, Top.pid)
  PROVE  d.mode = dev.mode /\ d.steady = dev.steady /\ d.addr = dev.addr /\ d.pend = dev.pend
<1>1. Top.fn = "emit" /\ Top.req \in {"OUT", "IN"} /\ Top.pid \in {0, 1}
  BY EmitKinds DEF OnData, Pids
<1>2. Top.req = "OUT" => io.out < MaxOut
  BY <1>1, OutBounded
<1> QED
  BY <1>1, <1>2, AcceptsPacket

\* The steps of an emission, label by label.
LEMMA AddressEmit ==
  ASSUME DbgpTypes, AddressInv, EmitSteps
  PROVE  AddressInv'
<1>1. PortEnabled
  BY DEF AddressInv
<1>2. ASSUME EmitStart PROVE AddressInv'
  <2>1. /\ stack # <<>> /\ Top.fn = "emit" /\ Top.at = "start" /\ dev' = dev
        /\ drv' = drv /\ ctrl' = ctrl
        /\ Emitting({"go"}) \/ (OnData(Top) /\ EmitInits("init"))
    BY <1>1, <1>2, StartSteps DEF Aside
  <2>2. CASE EmitInits("init")
    BY <2>1, <2>2, AddressEmitInits
  <2>3. CASE Emitting({"go"}) /\ OnUsb(Top)
    BY <2>1, <2>3, AddressUsbGoes
  <2>4. CASE Emitting({"go"}) /\ OnData(Top)
    BY <2>1, <2>4, AddressData
  <2> QED
    BY <2>1, <2>2, <2>3, <2>4, EmitKinds
<1>3. ASSUME EmitAfterInit PROVE AddressInv'
  <2>1. /\ stack # <<>> /\ Top.fn = "emit" /\ Top.at = "init" /\ dev' = dev
        /\ drv' = drv /\ ctrl' = ctrl /\ Emitting({"go", "failure"})
    BY <1>3, AfterInitSteps DEF Aside
  <2>2. CASE OnUsb(Top)
    BY <2>1, <2>2, AddressUsbGoes
  <2>3. CASE OnData(Top)
    BY <2>1, <2>3, AddressData
  <2> QED
    BY <2>1, <2>2, <2>3, EmitKinds
<1>4. ASSUME EmitOk PROVE AddressInv'
  <2>1. /\ stack # <<>> /\ Top.fn = "emit" /\ Top.at = "go" /\ Reaches(Top.req) /\ Top.pid # 2
        /\ dev' = Accepts(Top.req, Top.pid) /\ EmitReturns("done")
        /\ drv' = drv /\ ctrl' = ctrl
        /\ Top.req = "IN" => dev.next <= MaxIn
    BY <1>4, OkSteps
  <2>2. CASE OnUsb(Top)
    <3>1. RequestDone' /\ ~Broken
      BY <2>1, <2>2, RequestAcknowledged DEF Broken
    <3> QED
      BY <2>1, <2>2, <3>1, AddressUsbReturns
  <2>3. CASE OnData(Top)
    BY <2>1, <2>3, DataKept, AddressData
  <2> QED
    BY <2>1, <2>2, <2>3, EmitKinds
<1>5. ASSUME EmitNak PROVE AddressInv'
  <2>1. /\ stack # <<>> /\ Top.fn = "emit" /\ Top.at = "go"
        /\ \/ IsRead(Top.req) /\ EmitReturns("nak")
           \/ Top.req = "OUT" /\ Emitting({"go", "failure"})
        /\ drv' = drv /\ ctrl' = ctrl /\ dev' = dev
    BY <1>5, NakStep
  <2>2. CASE OnUsb(Top)
    <3>1. ~Broken /\ EmitReturns("nak")
      BY <2>1, <2>2 DEF Broken, OnUsb, UsbRequests
    <3> QED
      BY <2>1, <2>2, <3>1, AddressUsbReturns
  <2>3. CASE OnData(Top)
    BY <2>1, <2>3, AddressData
  <2> QED
    BY <2>1, <2>2, <2>3, EmitKinds
<1>6. ASSUME EmitErr PROVE AddressInv'
  <2>1. /\ stack # <<>> /\ Top.fn = "emit" /\ Top.at = "go" /\ drv' = drv /\ ctrl' = ctrl
        /\ \/ Emitting({"failure"}) /\ dev' = dev
           \/ /\ Emitting({"failure"}) /\ Top.pid # 2 /\ ~IsRead(Top.req)
              /\ dev' = Accepts(Top.req, Top.pid)
           \/ EmitReturns("done") /\ dev' = dev /\ Top.req = "IN"
    BY <1>6, ErrSteps DEF Aside
  <2>2. CASE OnUsb(Top)
    <3>1. Emitting({"failure"}) /\ (dev' = dev \/ dev' = Accepts(Top.req, Top.pid))
      BY <2>1, <2>2 DEF OnUsb, UsbRequests
    <3> QED
      BY <2>1, <2>2, <3>1, AddressUsbGoes
  <2>3. CASE OnData(Top)
    <3>1. dev' # dev => Top.pid # 2 /\ Top.req # "IN" /\ dev' = Accepts(Top.req, Top.pid)
      BY <2>1 DEF IsRead
    <3>2. dev'.mode = dev.mode /\ dev'.steady = dev.steady /\ dev'.addr = dev.addr
          /\ dev'.pend = dev.pend
      BY <2>1, <2>3, <3>1, DataKept
    <3> QED
      BY <2>1, <2>3, <3>2, AddressData
  <2> QED
    BY <2>1, <2>2, <2>3, EmitKinds
<1>7. ASSUME EmitFailure PROVE AddressInv'
  <2>1. /\ stack # <<>> /\ Top.fn = "emit" /\ Top.at = "failure" /\ dev' = dev
        /\ \/ drv' = [drv EXCEPT !.fails = @ + 1] /\ EmitReturns("fail") /\ ctrl' = ctrl
           \/ drv' = [drv EXCEPT !.fails = 0] /\ EmitInits("reinit")
    BY <1>7, FailureSteps
  <2>2. drv'.addr = drv.addr
    BY <2>1, AddressKnown DEF DbgpInfo
  <2>3. CASE EmitInits("reinit")
    BY <2>1, <2>2, <2>3, AddressEmitInits
  <2>4. CASE EmitReturns("fail") /\ ctrl' = ctrl /\ OnUsb(Top)
    <3>1. ~Broken
      BY <2>1 DEF Broken
    <3> QED
      BY <2>1, <2>4, <3>1, AddressUsbReturns
  <2>5. CASE EmitReturns("fail") /\ OnData(Top)
    BY <2>1, <2>2, <2>5, AddressData
  <2> QED
    BY <2>1, <2>3, <2>4, <2>5, EmitKinds
<1>8. ASSUME EmitReinit PROVE AddressInv'
  <2>1. /\ stack # <<>> /\ Top.fn = "emit" /\ Top.at = "reinit" /\ dev' = dev /\ drv' = drv
        /\ ctrl' = ctrl
        /\ \/ ret = "done" /\ EmitReturns("fail")
           \/ EmitInits("reinit")
    BY <1>8, ReinitSteps DEF Aside
  <2>2. CASE EmitInits("reinit")
    BY <2>1, <2>2, AddressEmitInits
  <2>3. CASE ret = "done" /\ EmitReturns("fail") /\ OnUsb(Top)
    <3>1. ~Broken
      BY <2>3 DEF Broken
    <3> QED
      BY <2>1, <2>3, <3>1, AddressUsbReturns
  <2>4. CASE EmitReturns("fail") /\ OnData(Top)
    BY <2>1, <2>4, AddressData
  <2> QED
    BY <2>1, <2>2, <2>3, <2>4, EmitKinds
<1> QED
  BY <1>2, <1>3, <1>4, <1>5, <1>6, <1>7, <1>8 DEF EmitSteps

\* The calls of the VMM.
LEMMA AddressCalls ==
  ASSUME DbgpTypes, AddressInv, CallSteps \/ Vmm
  PROVE  AddressInv'
<1>1. ASSUME drv'.addr = drv.addr, dev' = dev,
             \/ stack' = <<>> /\ (stack = <<>> \/ (Len(stack) = 1 /\ Top.fn \in {"write", "read"}))
             \/ /\ stack' # <<>> /\ (Quiet(stack') => Quiet(stack))
                /\ OnData(stack'[1]) \/ stack'[1].fn \in {"write", "read"}
      PROVE  AddressInv'
  <2>1. Quiet(stack') => Quiet(stack)
    BY <1>1 DEF Quiet, Top
  <2>2. QuietAgrees' /\ PendingKnown'
    BY <1>1, <2>1, QuietKept DEF AddressInv
  <2> QED
    BY <1>1, <2>2, AddressElsewhere, NotUsb DEF IsInit, OnData
<1>2. ASSUME dbgp_write PROVE AddressInv'
  <2>1. /\ dev' = dev
        /\ drv' = drv \/ drv' = [drv EXCEPT !.wr_toggle = 1 - @]
        /\ \E p : PacketSent("OUT", p)
    BY <1>2, WriteSteps DEF Aside
  <2>2. drv'.addr = drv.addr
    BY <2>1, AddressKnown DEF DbgpInfo
  <2>3. stack' # <<>> /\ OnData(stack'[1]) /\ (Quiet(stack') => Quiet(stack))
    BY <2>1 DEF PacketSent, Called, Pushes, OnData
  <2> QED
    BY <1>1, <2>1, <2>2, <2>3
<1>3. ASSUME dbgp_rw PROVE AddressInv'
  <2>1. /\ dev' = dev /\ drv' = [drv EXCEPT !.status = (ret = "done")]
        /\ Moved /\ stack'[1].fn = "write"
    BY <1>3, RwSteps
  <2>2. drv'.addr = drv.addr
    BY <2>1, AddressKnown DEF DbgpInfo
  <2>3. stack' # <<>> /\ (Quiet(stack') => Quiet(stack))
    BY <2>1 DEF Moved, Steps
  <2> QED
    BY <1>1, <2>1, <2>2, <2>3
<1>4. ASSUME dbgp_write_returns PROVE AddressInv'
  BY <1>1, <1>4, WriteReturnSteps DEF Aside
<1>5. ASSUME dbgp_read PROVE AddressInv'
  <2>1. /\ dev' = dev /\ drv' = drv /\ Top.fn = "read" /\ Len(stack) = 1
        /\ \/ PacketSent("IN", 0)
           \/ Moved /\ stack'[1].fn = "read"
           \/ stack' = <<>>
    BY <1>5, ReadSteps DEF Aside
  <2>2. CASE PacketSent("IN", 0)
    <3>1. stack' # <<>> /\ OnData(stack'[1]) /\ (Quiet(stack') => Quiet(stack))
      BY <2>2 DEF PacketSent, Called, Pushes, OnData
    <3> QED
      BY <1>1, <2>1, <3>1
  <2>3. CASE Moved /\ stack'[1].fn = "read"
    <3>1. stack' # <<>> /\ (Quiet(stack') => Quiet(stack))
      BY <2>3 DEF Moved, Steps
    <3> QED
      BY <1>1, <2>1, <2>3, <3>1
  <2>4. CASE stack' = <<>>
    BY <1>1, <2>1, <2>4
  <2> QED
    BY <2>1, <2>2, <2>3, <2>4
<1>6. ASSUME Vmm PROVE AddressInv'
  <2>1. /\ stack = <<>> /\ stack' # <<>> /\ dev' = dev /\ drv' = drv
        /\ stack'[1].fn \in {"write", "read"}
    BY <1>6, VmmCalls DEF Vmm
  <2>2. Len(stack) = 0
    BY <2>1
  <2>3. Quiet(stack)
    BY <2>2 DEF Quiet
  <2> QED
    BY <1>1, <2>1, <2>3
<1> QED
  BY <1>2, <1>3, <1>4, <1>5, <1>6 DEF CallSteps

\* The address is kept by every step, and starts agreed.
LEMMA AddressStep ==
  ASSUME DbgpTypes, AddressInv, [DbgpNext]_dbgpvars
  PROVE  AddressInv'
<1>1. ASSUME InitSteps PROVE AddressInv'
  BY <1>1, AddressInit, InitWalkSteps, AddressEnable, AddressPostInit, AddressBoot
     DEF InitSteps, InitWalks
<1>2. ASSUME dbgpvars' = dbgpvars PROVE AddressInv'
  BY <1>2 DEF dbgpvars, AddressInv, QuietAgrees, Agreed, PendingKnown, PortEnabled,
     RequestAddress, DeviceMoves, Moves, Moving, RequestDone, Configured, Broken, Top
<1> QED
  BY <1>1, <1>2, AddressConfigure, AddressEmit, AddressCalls, AddressEnvironment
     DEF DbgpNext, Driver, Panicked

LEMMA AddressInvInit ==
  ASSUME DbgpInit
  PROVE  AddressInv
<1>1. /\ dev.pend = NoAddr /\ dev.mode = FALSE /\ ret = "none"
      /\ stack # <<>> /\ Top.fn \in {"fast_init", "full_init"} /\ Top.at # "configure"
  BY DEF DbgpInit, Top, full_init
<1> QED
  BY <1>1 DEF AddressInv, QuietAgrees, Agreed, PendingKnown, PortEnabled, RequestAddress,
     DeviceMoves, RequestDone, OnUsb, IsInit

\* An emission of the VMM is outside the configurations.
LEMMA AddressKept ==
  ASSUME DbgpTypes, AddressInv
  PROVE  AddressAgrees
<1> SUFFICES ASSUME At("emit", "go"), Top.req \in {"OUT", "IN"} PROVE Agreed
  BY DEF AddressAgrees, Agreed
<1>1. Len(stack) = 2 /\ Top.fn = "emit" /\ stack[2].fn \in {"write", "read"}
  BY OutBounded, InBottom DEF At
<1>2. Quiet(stack)
  BY <1>1 DEF Quiet, Top
<1> QED
  BY <1>2 DEF AddressInv, QuietAgrees

\* Data goes to the device where it is (the states and the call stack of
\* ehci_full_init, dbgp_configure and __dbgp_emit on the way).
THEOREM AddressSafe == DbgpSpec => [](DbgpTypes /\ AddressInv /\ AddressAgrees)
<1>1. DbgpInit => DbgpTypes /\ AddressInv
  BY DbgpTypesInit, AddressInvInit
<1>2. DbgpTypes /\ AddressInv /\ [DbgpNext]_dbgpvars => DbgpTypes' /\ AddressInv'
  BY DbgpTypesStep, AddressStep DEF AddressInv
<1>3. DbgpTypes /\ AddressInv => AddressAgrees
  BY AddressKept
<1> QED
  BY <1>1, <1>2, <1>3, PTL DEF DbgpSpec

(***************************************************************************)
(* The streams.                                                            *)
(***************************************************************************)

\* The counts of packets the device may discard are small.
LEMMA BitRange == \A b : B2N(b) \in {0, 1}
BY DEF B2N

LEMMA DiscardRange == Discards \in 0..2 /\ Discards' \in 0..2
<1> DEFINE a == PacketFrame(stack).pid # dev.tog
           b == 1 - drv.wr_toggle # AfterPacket(PacketFrame(stack).pid)
           c == 1 - drv.wr_toggle # dev.tog
           d == ~Delivered
<1>1. Discards \in 0..2
  <2>1. /\ B2N(a) \in {0, 1} /\ B2N(b) \in {0, 1} /\ B2N(c) \in {0, 1} /\ B2N(d) \in {0, 1}
    BY BitRange
  <2> QED
    BY <2>1 DEF Discards, Differ
<1>2. Discards' \in 0..2
  <2>1. /\ B2N(a') \in {0, 1} /\ B2N(b') \in {0, 1} /\ B2N(c') \in {0, 1} /\ B2N(d') \in {0, 1}
    BY BitRange
  <2> QED
    BY <2>1 DEF Discards, Differ
<1> QED
  BY <1>1, <1>2

\* The elements of a stream are finitely many.
LEMMA ToSetFinite ==
  ASSUME NEW n \in Nat, NEW s \in Seq(1..n)
  PROVE  ToSet(s) \subseteq 1..n /\ IsFiniteSet(ToSet(s)) /\ Cardinality(ToSet(s)) \in Nat
<1>1. ToSet(s) \in SUBSET (1..n)
  BY DEF ToSet
<1>2. IsFiniteSet(1..n)
  BY FS_Interval
<1>3. IsFiniteSet(ToSet(s))
  BY <1>1, <1>2, FS_Subset
<1> QED
  BY <1>1, <1>3, FS_CardinalityType

\* One more element: a repetition when it was there.
LEMMA RepeatedAppend ==
  ASSUME NEW n \in Nat, NEW s \in Seq(1..n), NEW x \in 1..n
  PROVE  /\ Repeated(s) \in Int /\ IsFiniteSet(ToSet(s)) /\ ToSet(s) \subseteq 1..n
         /\ ToSet(Append(s, x)) = ToSet(s) \cup {x}
         /\ Repeated(Append(s, x)) = Repeated(s) + B2N(x \in ToSet(s))
<1>1. ToSet(s) \subseteq 1..n
  BY ToSetFinite
<1>2. IsFiniteSet(ToSet(s)) /\ Cardinality(ToSet(s)) \in Nat
  BY ToSetFinite
<1>3. ToSet(Append(s, x)) = ToSet(s) \cup {x}
  <2> DEFINE t == Append(s, x)
  <2>1. /\ DOMAIN t = 1..Len(s) + 1 /\ t[Len(s) + 1] = x /\ Len(s) \in Nat
        /\ DOMAIN s = 1..Len(s) /\ \A i \in 1..Len(s) : t[i] = s[i]
    OBVIOUS
  <2> HIDE DEF t
  <2>2. ToSet(t) \subseteq ToSet(s) \cup {x}
    <3> SUFFICES ASSUME NEW i \in DOMAIN t PROVE t[i] \in ToSet(s) \cup {x}
      BY DEF ToSet
    <3>1. i = Len(s) + 1 \/ i \in 1..Len(s)
      BY <2>1
    <3> QED
      BY <2>1, <3>1 DEF ToSet
  <2>3. ToSet(s) \cup {x} \subseteq ToSet(t)
    BY <2>1 DEF ToSet
  <2> QED
    BY <2>2, <2>3 DEF t
<1>4. Cardinality(ToSet(Append(s, x))) = IF x \in ToSet(s) THEN Cardinality(ToSet(s))
                                         ELSE Cardinality(ToSet(s)) + 1
  BY <1>2, <1>3, FS_AddElement
<1>5. Len(Append(s, x)) = Len(s) + 1 /\ Len(s) \in Nat
  OBVIOUS
<1> QED
  BY <1>1, <1>2, <1>3, <1>4, <1>5 DEF Repeated, B2N

\* The counts are numbers.
LEMMA StreamNumbers ==
  ASSUME DbgpTypes
  PROVE  /\ dev \in DevState /\ drv \in DbgpInfo
         /\ dev.got \in Seq(1..MaxOut) /\ dev.tog \in {0, 1} /\ dev.next \in 1..MaxIn + 1
         /\ io.out \in 0..MaxOut /\ io.taken \in Seq(1..MaxIn)
         /\ drv.wr_toggle \in {0, 1} /\ drv.status \in BOOLEAN
         /\ faults \in 0..MaxFaults /\ harm \in 0..HarmCap
         /\ Repeated(dev.got) \in Int /\ Repeated(io.taken) \in Int
         /\ Cardinality(Missing) \in Nat /\ Cardinality(Missing) <= io.out
         /\ MaxOut \in Nat /\ MaxIn \in Nat /\ MaxFaults \in Nat /\ HarmCap = MaxOut + MaxFaults
<1>1. /\ dev \in DevState /\ drv \in DbgpInfo
      /\ dev.got \in Seq(1..MaxOut) /\ dev.tog \in {0, 1} /\ dev.next \in 1..MaxIn + 1
      /\ io.out \in 0..MaxOut /\ io.taken \in Seq(1..MaxIn)
      /\ drv.wr_toggle \in {0, 1} /\ drv.status \in BOOLEAN
      /\ faults \in 0..MaxFaults /\ harm \in 0..HarmCap
  BY DEF DbgpTypes, DbgpTypeOK, DevState, DbgpInfo
<1>2. MaxOut \in Nat /\ MaxIn \in Nat /\ MaxFaults \in Nat /\ HarmCap = MaxOut + MaxFaults
  BY DbgpAssumption DEF HarmCap
<1>3. ASSUME NEW n \in Nat, NEW s \in Seq(1..n) PROVE Repeated(s) \in Int
  BY <1>3, ToSetFinite DEF Repeated
<1>4. Missing \in SUBSET (1..io.out) /\ io.out \in Nat
  BY <1>1, <1>2 DEF Missing
<1>5. Cardinality(Missing) \in Nat /\ Cardinality(Missing) <= io.out
  <2>1. IsFiniteSet(1..io.out) /\ Cardinality(1..io.out) = io.out
    BY <1>4, FS_Interval
  <2> QED
    BY <1>4, <2>1, FS_Subset, FS_CardinalityType
<1> QED
  BY <1>1, <1>2, <1>3, <1>5

\* A step that sends nothing and takes nothing.
LEMMA StreamKept ==
  ASSUME DbgpTypes, StreamInv, faults' \in Nat, faults' >= faults,
         io'.out = io.out, io'.taken = io.taken, dev'.got = dev.got, dev'.next = dev.next,
         harm' = harm \/ Harmed, WriteDone' = WriteDone,
         harm' = harm /\ harm < HarmCap /\ WriteFailing => WriteFailing',
         harm' = harm /\ harm < HarmCap => Discards' <= Discards \/ (io.out = 0 /\ harm > 0),
         ToggleKnown'
  PROVE  StreamInv'
<1> DEFINE r == Repeated(dev.got)
           q == Repeated(io.taken)
           m == Cardinality(Missing)
           b == B2N(Delivered /\ ~WriteDone)
           e == B2N(dev.next \in ToSet(io.taken))
           w == B2N(WriteFailing)
           v == B2N(WriteFailing')
           c == Discards
           d == Discards'
<1>1. c \in 0..2 /\ d \in 0..2
  BY DiscardRange
<1>2. /\ r \in Int /\ q \in Int /\ m \in Nat /\ (io.out = 0 => m = 0)
      /\ b \in {0, 1} /\ e \in {0, 1} /\ w \in {0, 1} /\ v \in {0, 1}
      /\ faults \in Nat /\ harm \in Nat /\ harm <= HarmCap /\ HarmCap \in Nat
  BY StreamNumbers, BitRange
<1>3. /\ Repeated(dev'.got) = r /\ Repeated(io'.taken) = q /\ Missing' = Missing
      /\ Delivered' = Delivered /\ (dev'.next \in ToSet(io'.taken)) = (dev.next \in ToSet(io.taken))
  BY DEF Missing, Delivered
<1>4. /\ harm' \in Nat
      /\ \/ harm' = harm
         \/ harm' = HarmCap
         \/ harm' = harm + 1 /\ harm < HarmCap
  BY <1>2 DEF Harmed
<1>5. harm' = harm /\ harm < HarmCap => w <= v
  BY DEF B2N
<1>6. /\ r + b <= faults /\ (harm < HarmCap => r <= harm /\ r + b <= harm + w)
      /\ q + e <= faults /\ (harm < HarmCap => q + e <= harm)
      /\ harm < HarmCap => m + c <= 2 * harm
  BY DEF StreamInv, RepeatedOut, RepeatedIn, MissingOut
<1>7. harm' = harm /\ harm < HarmCap => d <= c \/ (m = 0 /\ harm > 0)
  BY <1>2
<1> HIDE DEF r, q, m, b, e, w, v, c, d
<1>8. /\ r + b <= faults' /\ (harm' < HarmCap => r <= harm' /\ r + b <= harm' + v)
      /\ q + e <= faults' /\ (harm' < HarmCap => q + e <= harm')
      /\ harm' < HarmCap => m + d <= 2 * harm'
  <2>1. r + b <= faults' /\ q + e <= faults'
    BY <1>2, <1>6
  <2>2. CASE harm' = harm
    BY <1>1, <1>2, <1>5, <1>6, <1>7, <2>1, <2>2
  <2>3. CASE harm' = HarmCap
    BY <1>2, <2>1, <2>3
  <2>4. CASE harm' = harm + 1 /\ harm < HarmCap
    BY <1>1, <1>2, <1>6, <2>1, <2>4
  <2> QED
    BY <1>4, <2>2, <2>3, <2>4
<1>9. Ordered'
  BY DEF StreamInv, Ordered
<1>10. RepeatedOut'
  BY <1>3, <1>8 DEF RepeatedOut, r, b, v
<1>11. RepeatedIn'
  BY <1>3, <1>8 DEF RepeatedIn, q, e
<1>12. MissingOut'
  BY <1>3, <1>8 DEF MissingOut, m, d
<1> QED
  BY <1>9, <1>10, <1>11, <1>12 DEF StreamInv

\* A driver that is not about a packet itself: an initialisation, the
\* configuration or one of its requests.
Far == stack # <<>> /\ (Top.fn \in {"full_init", "fast_init", "configure", "boot"} \/ OnUsb(Top))

\* No call of the VMM waits for such a step directly.
LEMMA FarKinds ==
  ASSUME Far, NEW f, WaitsFor(Top, f)
  PROVE  f.fn \notin {"write", "read", "panic"}
BY DEF Far, WaitsFor, OnUsb, UsbRequests, IsInit

LEMMA FarShape ==
  ASSUME DbgpTypes, Far
  PROVE  /\ ~At("write", "wait") /\ ~WriteDone /\ ~WriteFailing /\ Top.fn # "panic"
         /\ Writing(stack) => Len(stack) >= 3 /\ PacketFrame(stack).at \in {"init", "reinit"}
<1>1. Top.fn \notin {"write", "panic"}
  BY DEF Far, OnUsb
<1>2. ASSUME Writing(stack) PROVE Len(stack) >= 3 /\ PacketFrame(stack).at \in {"init", "reinit"}
  <2> DEFINE n == Len(stack)
  <2>1. n \in Nat /\ n >= 2 /\ stack[n].fn = "write"
    BY <1>2, TopFacts DEF DbgpTypes, Writing
  <2>2. \A i \in 1..n - 1 : WaitsFor(stack[i], stack[i + 1])
    BY DEF DbgpTypes, StackOK
  <2>3. n # 2
    <3> SUFFICES ASSUME n = 2 PROVE FALSE
      OBVIOUS
    <3>1. WaitsFor(Top, stack[2])
      BY <2>1, <2>2 DEF Top
    <3> QED
      BY <2>1, <3>1, FarKinds
  <2>4. n >= 3
    BY <2>1, <2>3
  <2>5. WaitsFor(stack[n - 1], stack[n]) /\ WaitsFor(stack[n - 2], stack[n - 1])
    <3>1. n - 1 \in 1..n - 1 /\ n - 2 \in 1..n - 1 /\ (n - 1) + 1 = n /\ (n - 2) + 1 = n - 1
      BY <2>4, <2>1
    <3> QED
      BY <2>2, <3>1
  <2>6. stack[n - 1].fn = "emit"
    BY <2>1, <2>5 DEF WaitsFor, IsInit
  <2>7. stack[n - 1].at \in {"init", "reinit"}
    BY <2>5, <2>6 DEF WaitsFor, IsInit
  <2> QED
    BY <2>4, <2>7 DEF PacketFrame
<1> QED
  BY <1>1, <1>2 DEF At, WriteDone, WriteFailing

\* The packet of two stacks with the same bottom.
LEMMA SamePacket ==
  ASSUME NEW s, NEW t, NEW n \in Nat \ {0}, NEW k \in Nat, Len(s) = n, Len(t) = k,
         k = n - 1 \/ k = n \/ k = n + 1, SameBottom(s, t), k # 0 => t # <<>>,
         n = 2 => ~Writing(s), n = 1 => ~Writing(t)
  PROVE  (Writing(t) <=> Writing(s)) /\ (Writing(s) => PacketFrame(t) = PacketFrame(s))
<1>1. /\ n >= 2 /\ k # 0 => t[k] = s[n]
      /\ n >= 3 /\ k >= 2 => t[k - 1] = s[n - 1]
  BY DEF SameBottom
<1>2. (Writing(s) <=> n >= 2 /\ s[n].fn = "write") /\ (Writing(t) <=> k >= 2 /\ t[k].fn = "write")
  BY DEF Writing
<1>3. CASE n = 1
  BY <1>2, <1>3
<1>4. CASE n = 2
  <2>1. k = 1 \/ k >= 2
    BY <1>4
  <2>2. k # 0
    BY <1>4
  <2> QED
    BY <1>1, <1>2, <1>4, <2>1, <2>2
<1>5. CASE n >= 3
  <2>1. k >= 2 /\ k # 0 /\ n >= 2
    BY <1>5
  <2>2. t[k] = s[n] /\ t[k - 1] = s[n - 1]
    BY <1>1, <1>5, <2>1
  <2> QED
    BY <1>2, <2>1, <2>2 DEF PacketFrame
<1> QED
  BY <1>3, <1>4, <1>5

\* What such a step leaves of the packet under it.
LEMMA FarStack ==
  ASSUME DbgpTypes, Far, stack' = stack \/ Moved \/ Called \/ \E v : Returned(v)
  PROVE  /\ Writing(stack') <=> Writing(stack)
         /\ Writing(stack) => PacketFrame(stack') = PacketFrame(stack)
         /\ stack' # <<>> => stack'[1].fn \notin {"write", "panic"}
<1>1. Len(stack) \in Nat \ {0} /\ Top.fn \notin {"write", "read", "panic"}
  BY TopFacts DEF DbgpTypes, Far, OnUsb
<1>2. Len(stack) = 2 => ~Writing(stack)
  BY <1>1, FarShape
<1>3. CASE stack' = stack
  BY <1>1, <1>3 DEF Top
<1>4. CASE Moved
  <2>1. Len(stack') = Len(stack) /\ SameBottom(stack, stack') /\ stack' # <<>>
        /\ stack'[1].fn = Top.fn
    BY <1>4 DEF Moved, Steps, Onward, Top
  <2>2. Len(stack) = 1 => ~Writing(stack')
    BY <2>1 DEF Writing
  <2>3. Len(stack') \in Nat
    BY <1>1, <2>1
  <2> QED
    BY <1>1, <1>2, <2>1, <2>2, <2>3, SamePacket
<1>5. CASE Called
  <2>1. /\ Len(stack') = Len(stack) + 1 /\ SameBottom(stack, stack') /\ stack' # <<>>
        /\ WaitsFor(stack'[1], stack'[2]) /\ stack'[2].fn = Top.fn
    BY <1>5 DEF Called, Pushes, Onward, Top
  <2>2. stack'[1].fn \notin {"write", "panic"}
    BY <2>1 DEF WaitsFor
  <2>3. Len(stack) = 1 => ~Writing(stack')
    <3> SUFFICES ASSUME Len(stack) = 1, stack'[Len(stack')].fn = "write" PROVE FALSE
      BY DEF Writing
    <3>1. Len(stack') = 2
      BY <2>1
    <3> QED
      BY <1>1, <2>1, <3>1
  <2>4. Len(stack') \in Nat
    BY <1>1, <2>1
  <2> QED
    BY <1>1, <1>2, <2>1, <2>2, <2>3, <2>4, SamePacket
<1>6. CASE \E v : Returned(v)
  <2>1. PICK v : Returned(v)
    BY <1>6
  <2>2. /\ Len(stack') = Len(stack) - 1 /\ SameBottom(stack, stack') /\ Len(stack') \in Nat
        /\ stack' = <<>> <=> Len(stack) = 1
    BY <2>1 DEF Returned, Pops
  <2>3. stack' # <<>> => stack'[1].fn \notin {"write", "panic"}
    <3> SUFFICES ASSUME stack' # <<>> PROVE stack'[1].fn \notin {"write", "panic"}
      OBVIOUS
    <3>1. WaitsFor(Top, stack'[1])
      BY <2>1, <2>2 DEF Returned, Top
    <3> QED
      BY <3>1, FarKinds
  <2>4. Len(stack) = 1 => ~Writing(stack')
    BY <2>2 DEF Writing
  <2>5. Len(stack') # 0 => stack' # <<>>
    BY <1>1, <2>2
  <2> QED
    BY <1>1, <1>2, <2>2, <2>3, <2>4, <2>5, SamePacket
<1> QED
  BY <1>3, <1>4, <1>5, <1>6

\* It leaves the streams alone, but for the reset of the device.
LEMMA FarStep ==
  ASSUME DbgpTypes, StreamInv, Far, stack' = stack \/ Moved \/ Called \/ \E v : Returned(v),
         faults' \in Nat, faults' >= faults, io' = io,
         dev'.got = dev.got, dev'.next = dev.next,
         drv'.wr_toggle = drv.wr_toggle, drv'.status = drv.status,
         \/ /\ dev'.tog = dev.tog /\ dev'.in = dev.in /\ dev'.speed = dev.speed
            /\ harm' = harm
         \/ dev'.tog = 0 /\ (io.out > 0 => Harmed) /\ (harm' = harm \/ Harmed)
  PROVE  StreamInv'
<1>1. /\ ~At("write", "wait") /\ ~WriteDone /\ ~WriteFailing /\ Top.fn # "panic" /\ stack # <<>>
      /\ Writing(stack) => PacketFrame(stack).at \in {"init", "reinit"}
  BY FarShape DEF Far
<1>2. /\ Writing(stack') <=> Writing(stack)
      /\ Writing(stack) => PacketFrame(stack') = PacketFrame(stack)
      /\ stack' # <<>> => stack'[1].fn \notin {"write", "panic"}
  BY FarStack
<1>3. ~At("write", "wait")' /\ ~WriteDone' /\ ~WriteFailing'
  BY <1>1, <1>2 DEF At, WriteDone, WriteFailing, Top
<1>4. dev'.tog = dev.tog => Discards' = Discards
  BY <1>1, <1>2, <1>3 DEF Discards, Top, Differ, AfterPacket
<1>5. harm \in Nat /\ io.out \in Nat /\ (harm' = harm \/ Harmed) /\ (harm' = 0 => harm = 0)
  BY StreamNumbers DEF Harmed
<1>6. ToggleKnown'
  BY <1>1, <1>5 DEF StreamInv, ToggleKnown
<1>7. harm' = harm /\ harm < HarmCap => Discards' <= Discards \/ (io.out = 0 /\ harm > 0)
  <2> SUFFICES ASSUME harm' = harm, harm < HarmCap, dev'.tog # dev.tog
               PROVE  io.out = 0 /\ harm > 0
    BY <1>4, DiscardRange
  <2>1. HarmCap \in Nat /\ ~Harmed /\ dev'.tog = 0
    BY <1>5, StreamNumbers DEF Harmed
  <2>2. io.out = 0
    BY <1>5, <2>1
  <2>3. harm # 0
    BY <1>1, <2>1, <2>2 DEF StreamInv, ToggleKnown
  <2> QED
    BY <1>5, <2>2, <2>3
<1>8. WriteDone' = WriteDone
  BY <1>1, <1>3 DEF WriteDone, At
<1>9. io'.out = io.out /\ io'.taken = io.taken
  OBVIOUS
<1> QED
  BY <1>1, <1>3, <1>5, <1>6, <1>7, <1>8, <1>9, StreamKept

\* No packet is written, before the step and after it.
NoWrite == ~Writing(stack) /\ ~At("write", "wait") /\ (stack # <<>> => Top.fn # "panic")

\* Without a packet on its way, the stream stands still.
LEMMA IdleView ==
  ASSUME NoWrite, NoWrite', dev'.tog = dev.tog, drv'.wr_toggle = drv.wr_toggle,
         drv'.status = drv.status
  PROVE  Discards' = Discards /\ ~WriteDone /\ ~WriteFailing /\ ~WriteDone' /\ ~WriteFailing'
<1>1. ~WriteDone /\ ~WriteFailing /\ ~WriteDone' /\ ~WriteFailing'
  BY DEF NoWrite, WriteDone, WriteFailing
<1> QED
  BY <1>1 DEF NoWrite, Discards, Differ

LEMMA IdleStep ==
  ASSUME DbgpTypes, StreamInv, NoWrite, NoWrite', faults' \in Nat, faults' >= faults,
         io'.out = io.out, io'.taken = io.taken, dev' = dev,
         drv'.wr_toggle = drv.wr_toggle, drv'.status = drv.status, harm' = harm \/ Harmed
  PROVE  StreamInv'
<1>1. Discards' = Discards /\ ~WriteDone /\ ~WriteFailing /\ ~WriteDone' /\ ~WriteFailing'
  BY IdleView
<1>2. WriteDone' = WriteDone
  BY <1>1 DEF WriteDone, At
<1>3. harm' = 0 => harm = 0
  BY StreamNumbers DEF Harmed
<1>4. ToggleKnown'
  BY <1>1, <1>3 DEF StreamInv, ToggleKnown
<1>5. Discards' <= Discards
  BY <1>1, DiscardRange
<1> QED
  BY <1>1, <1>2, <1>4, <1>5, StreamKept

\* Each part of StreamInv, action by action.
LEMMA StreamEnvironment ==
  ASSUME DbgpTypes, DbgpTypes', StreamInv, Environment
  PROVE  StreamInv'
<1>1. /\ stack' = stack /\ drv' = drv /\ ret' = ret /\ io' = io
      /\ \/ dev' = dev /\ harm' = harm
         \/ /\ dev'.tog = 0 /\ dev'.got = dev.got /\ dev'.next = dev.next
            /\ Harmed \/ (harm' = harm /\ dev.tog = 0)
      /\ faults' = faults \/ faults' = faults + 1
  <2>1. dev \in DevState
    BY StreamNumbers
  <2> DEFINE d == Unconfigured(dev)
  <2>2. d \in DevState /\ d.tog = 0 /\ d.got = dev.got /\ d.next = dev.next
    BY <2>1, UnconfiguredType
  <2>3. ASSUME Unplug PROVE dev'.tog = 0 /\ dev'.got = dev.got /\ dev'.next = dev.next
    <3>1. dev' = [d EXCEPT !.in = FALSE]
      BY <2>3 DEF Unplug
    <3> HIDE DEF d
    <3> QED
      BY <2>2, <3>1 DEF DevState
  <2>4. ASSUME Plug
        PROVE  dev'.tog = 0 /\ dev'.got = dev.got /\ dev'.next = dev.next /\ dev.tog = 0
    <3>1. PICK s \in Speeds : dev' = [d EXCEPT !.in = TRUE, !.speed = s]
      BY <2>4 DEF Plug
    <3>2. dev.tog = 0
      BY <2>4 DEF Plug, StreamInv, ToggleKnown
    <3> HIDE DEF d
    <3> QED
      BY <2>2, <3>1, <3>2 DEF DevState
  <2> QED
    BY <2>3, <2>4
       DEF Environment, Unplug, Plug, GuestSleeps, GuestResets, BiosYields, Fault
<1>2. WriteDone' = WriteDone /\ WriteFailing' = WriteFailing
  BY <1>1 DEF WriteDone, WriteFailing, At, Top
<1>3. dev'.tog = dev.tog => Discards' = Discards
  BY <1>1, <1>2 DEF Discards, At, Top, Delivered, Differ, AfterPacket
<1>4. /\ harm \in Nat /\ HarmCap \in Nat /\ faults \in Nat /\ (harm' = 0 => harm = 0)
      /\ harm' = harm /\ harm < HarmCap => ~Harmed
  BY <1>1, StreamNumbers DEF Harmed
<1>5. ToggleKnown'
  BY <1>1, <1>2, <1>4 DEF StreamInv, ToggleKnown
<1>6. harm' = harm /\ harm < HarmCap => Discards' <= Discards
  BY <1>1, <1>3, <1>4, DiscardRange
<1>7. /\ io'.out = io.out /\ io'.taken = io.taken /\ dev'.got = dev.got /\ dev'.next = dev.next
      /\ harm' = harm \/ Harmed
  BY <1>1
<1>8. faults' \in Nat /\ faults' >= faults
  BY <1>1, <1>4
<1> QED
  BY <1>2, <1>5, <1>6, <1>7, <1>8, StreamKept

\* The steps of an initialisation: the device may be reset.
LEMMA StreamInit ==
  ASSUME DbgpTypes, StreamInv, InitSteps
  PROVE  StreamInv'
<1>1. faults \in Nat /\ dev \in DevState
  BY StreamNumbers
<1>2. ASSUME InitWalk PROVE StreamInv'
  <2>1. Far /\ (stack' = stack \/ Moved \/ \E v : Returned(v))
    BY <1>2 DEF InitWalk, Far, IsInit
  <2>2. /\ faults' \in Nat /\ faults' >= faults /\ io' = io
        /\ drv'.wr_toggle = drv.wr_toggle /\ drv'.status = drv.status
    BY <1>1, <1>2 DEF InitWalk
  <2>3. CASE dev' = dev /\ harm' = harm
    BY <2>1, <2>2, <2>3, FarStep
  <2>4. CASE /\ dev' = [Unconfigured(dev) EXCEPT !.steady = dev.in]
             /\ (io.out > 0 => Harmed) /\ (harm' = harm \/ Harmed)
    <3> DEFINE d == Unconfigured(dev)
    <3>1. d \in DevState /\ dev' = [d EXCEPT !.steady = dev.in]
          /\ d.tog = 0 /\ d.got = dev.got /\ d.next = dev.next
      BY <1>1, <2>4, UnconfiguredType
    <3> HIDE DEF d
    <3>2. dev'.tog = 0 /\ dev'.got = dev.got /\ dev'.next = dev.next
      BY <3>1 DEF DevState
    <3> QED
      BY <2>1, <2>2, <2>4, <3>2, FarStep
  <2> QED
    BY <1>2, <2>3, <2>4 DEF InitWalk
<1>3. ASSUME dbgp_enable \/ ehci_controller_postinit PROVE StreamInv'
  <2>1. /\ Far /\ (Called \/ \E v : Returned(v)) /\ drv' = drv /\ Aside
    BY <1>3, EnableCalls, PostInitReturns DEF Far, IsInit
  <2> QED
    BY <1>1, <2>1, FarStep DEF Aside
<1>4. ASSUME ehci_init PROVE StreamInv'
  <2>1. stack # <<>> /\ Top.fn = "boot" /\ (stack' = <<>> \/ Called) /\ drv' = drv /\ Aside
    BY <1>4, BootSteps
  <2>2. CASE Called
    BY <1>1, <2>1, <2>2, FarStep DEF Aside, Far
  <2>3. CASE stack' = <<>>
    <3>1. Len(stack) = 1
      BY <2>1, TopFacts DEF DbgpTypes, Top, AtBottom
    <3>2. ~Writing(stack) /\ ~Writing(stack')
      BY <2>3, <3>1 DEF Writing
    <3>3. NoWrite /\ NoWrite'
      BY <2>1, <2>3, <3>2 DEF NoWrite, At
    <3> QED
      BY <1>1, <2>1, <3>3, IdleStep DEF Aside
  <2> QED
    BY <2>1, <2>2, <2>3
<1> QED
  BY <1>2, <1>3, <1>4, InitWalkSteps DEF InitSteps, InitWalks

\* A round that fails may end in the panic.
LEMMA StreamRound ==
  ASSUME DbgpTypes, StreamInv, stack # <<>>, Top.fn = "configure", RoundFailed, Aside,
         drv' = drv
  PROVE  StreamInv'
<1>1. Far /\ faults \in Nat
  BY StreamNumbers DEF Far
<1>2. CASE Probing
  BY <1>1, <1>2, FarStep DEF Probing, Aside
<1>3. CASE StackOK(stack') /\ Len(stack') = 1 /\ stack' # <<>> /\ stack'[1].fn = "panic"
  <2>1. ~WriteDone /\ ~WriteFailing
    BY <1>1, FarShape
  <2>2. Discards' = 0 /\ ~WriteDone' /\ ~WriteFailing'
    BY <1>3 DEF Discards, WriteDone, WriteFailing, Writing, At, Top
  <2>3. WriteDone' = WriteDone
    BY <2>1, <2>2 DEF WriteDone, At
  <2>4. ToggleKnown'
    BY <2>1, <2>2 DEF StreamInv, ToggleKnown, Aside
  <2>5. Discards' <= Discards
    BY <2>2, DiscardRange
  <2> QED
    BY <1>1, <2>1, <2>3, <2>4, <2>5, StreamKept DEF Aside
<1> QED
  BY <1>2, <1>3 DEF RoundFailed

\* The steps of a configuration: the device accepts its requests.
LEMMA StreamConfigure ==
  ASSUME DbgpTypes, StreamInv, ConfigureSteps
  PROVE  StreamInv'
<1> DEFINE Same == drv'.wr_toggle = drv.wr_toggle /\ drv'.status = drv.status
<1>1. drv \in DbgpInfo /\ faults \in Nat
  BY StreamNumbers
<1>2. \A a : drv' = [drv EXCEPT !.addr = a] => Same
  BY <1>1 DEF DbgpInfo
<1>3. drv' = drv => Same
  OBVIOUS
<1> HIDE DEF Same
<1>4. ASSUME dbgp_configure
      PROVE  /\ stack # <<>> /\ Top.fn = "configure" /\ Aside
             /\ (Same /\ (Called \/ \E v : Returned(v))) \/ (RoundFailed /\ drv' = drv)
  BY <1>2, <1>4, ProbeSteps DEF Requested
<1>5. ASSUME dbgp_get_descriptor
      PROVE  /\ stack # <<>> /\ Top.fn = "configure" /\ Aside
             /\ (Same /\ (Called \/ \E v : Returned(v))) \/ (RoundFailed /\ drv' = drv)
  BY <1>3, <1>5, DescriptorSteps DEF Requested, RoundFailed
<1>6. ASSUME dbgp_set_addr
      PROVE  /\ stack # <<>> /\ Top.fn = "configure" /\ Aside
             /\ (Same /\ (Called \/ \E v : Returned(v))) \/ (RoundFailed /\ drv' = drv)
  BY <1>2, <1>6, SetAddrSteps DEF Requested
<1>7. ASSUME dbgp_set_debug_mode
      PROVE  /\ stack # <<>> /\ Top.fn = "configure" /\ Aside
             /\ (Same /\ (Called \/ \E v : Returned(v))) \/ (RoundFailed /\ drv' = drv)
  BY <1>2, <1>7, DebugModeSteps DEF Requested
<1>8. /\ stack # <<>> /\ Top.fn = "configure" /\ Aside
      /\ (Same /\ (Called \/ \E v : Returned(v))) \/ (RoundFailed /\ drv' = drv)
  BY <1>4, <1>5, <1>6, <1>7 DEF ConfigureSteps
<1>9. CASE RoundFailed /\ drv' = drv
  BY <1>8, <1>9, StreamRound
<1>10. CASE Same /\ (Called \/ \E v : Returned(v))
  BY <1>1, <1>8, <1>10, FarStep DEF Aside, Far, Same
<1> QED
  BY <1>8, <1>9, <1>10

\* An emission of the VMM on the stack, before and after a step.
LEMMA OutShape ==
  ASSUME DbgpTypes, stack # <<>>, Top.fn = "emit", Top.req = "OUT"
  PROVE  /\ Writing(stack) /\ PacketFrame(stack) = Top /\ ~At("write", "wait") /\ ~WriteDone
         /\ WriteFailing <=> Top.at = "failure"
<1>1. Len(stack) = 2 /\ stack[2].fn = "write"
  BY OutBounded
<1>2. Writing(stack) /\ PacketFrame(stack) = Top
  BY <1>1 DEF Writing, PacketFrame, Top
<1> QED
  BY <1>2 DEF At, WriteDone, WriteFailing

\* An OUT packet, step by step.
LEMMA OutGoes ==
  ASSUME DbgpTypes, stack # <<>>, Top.fn = "emit", Top.req = "OUT", NEW L, Emitting(L)
  PROVE  /\ Writing(stack') /\ PacketFrame(stack').at \in L /\ PacketFrame(stack').pid = Top.pid
         /\ ~At("write", "wait")' /\ ~WriteDone' /\ stack' # <<>> /\ stack'[1].fn = "emit"
<1>1. Len(stack) = 2 /\ stack[2].fn = "write"
  BY OutBounded
<1>2. /\ Len(stack') = 2 /\ stack'[2] = stack[2] /\ stack' # <<>> /\ stack'[1].fn = "emit"
      /\ stack'[1].at \in L /\ stack'[1].pid = Top.pid
  BY <1>1 DEF Emitting, Moved, Steps
<1>3. Writing(stack') /\ PacketFrame(stack') = stack'[1]
  BY <1>1, <1>2 DEF Writing, PacketFrame
<1> QED
  BY <1>2, <1>3 DEF At, WriteDone, Top

LEMMA OutInits ==
  ASSUME DbgpTypes, stack # <<>>, Top.fn = "emit", Top.req = "OUT", NEW l, EmitInits(l)
  PROVE  /\ Writing(stack') /\ PacketFrame(stack').at = l /\ PacketFrame(stack').pid = Top.pid
         /\ ~At("write", "wait")' /\ ~WriteDone' /\ stack' # <<>> /\ stack'[1].fn = "full_init"
<1>1. Len(stack) = 2 /\ stack[2].fn = "write"
  BY OutBounded
<1>2. /\ Len(stack') = 3 /\ stack'[3] = stack[2] /\ stack' # <<>> /\ stack'[1].fn = "full_init"
      /\ stack'[2].at = l /\ stack'[2].pid = Top.pid
  BY <1>1 DEF EmitInits, Called, Pushes, SameBottom
<1>3. Writing(stack') /\ PacketFrame(stack') = stack'[2]
  BY <1>1, <1>2 DEF Writing, PacketFrame
<1> QED
  BY <1>2, <1>3 DEF At, WriteDone, Top

LEMMA OutReturns ==
  ASSUME DbgpTypes, stack # <<>>, Top.fn = "emit", Top.req = "OUT", NEW v, EmitReturns(v)
  PROVE  /\ ~Writing(stack') /\ At("write", "wait")' /\ (WriteDone' <=> v = "done")
         /\ ~WriteFailing' /\ stack' # <<>> /\ stack'[1].fn = "write"
<1>1. Len(stack) = 2 /\ stack[2].fn = "write" /\ stack[2].at = "wait"
  BY OutBounded
<1>2. Len(stack') = 1 /\ stack'[1] = stack[2] /\ stack' # <<>> /\ ret' = v
  BY <1>1 DEF EmitReturns, Returned, Pops
<1>3. ~Writing(stack')
  BY <1>2 DEF Writing
<1> QED
  BY <1>1, <1>2, <1>3 DEF At, WriteDone, WriteFailing, Top

\* An IN packet, step by step.
LEMMA InIdle ==
  ASSUME DbgpTypes, stack # <<>>, Top.fn = "emit", Top.req = "IN",
         (\E L : Emitting(L)) \/ (\E l : EmitInits(l)) \/ (\E v : EmitReturns(v))
  PROVE  NoWrite /\ NoWrite'
<1>1. Len(stack) = 2 /\ stack[2].fn = "read"
  BY InBottom
<1>2. NoWrite
  BY <1>1 DEF NoWrite, Writing, At
<1>3. CASE \E L : Emitting(L)
  <2>1. Len(stack') = 2 /\ stack'[2] = stack[2] /\ stack' # <<>> /\ stack'[1].fn = "emit"
    BY <1>1, <1>3 DEF Emitting, Moved, Steps
  <2> QED
    BY <1>1, <1>2, <2>1 DEF NoWrite, Writing, At, Top
<1>4. CASE \E l : EmitInits(l)
  <2>1. Len(stack') = 3 /\ stack'[3] = stack[2] /\ stack' # <<>> /\ stack'[1].fn = "full_init"
    BY <1>1, <1>4 DEF EmitInits, Called, Pushes, SameBottom
  <2> QED
    BY <1>1, <1>2, <2>1 DEF NoWrite, Writing, At, Top
<1>5. CASE \E v : EmitReturns(v)
  <2>1. Len(stack') = 1 /\ stack'[1] = stack[2] /\ stack' # <<>>
    BY <1>1, <1>5 DEF EmitReturns, Returned, Pops
  <2> QED
    BY <1>1, <1>2, <2>1 DEF NoWrite, Writing, At, Top
<1> QED
  BY <1>3, <1>4, <1>5

\* A request of the configuration.
LEMMA StreamUsb ==
  ASSUME DbgpTypes, StreamInv, PortEnabled, stack # <<>>, OnUsb(Top), EmitSteps
  PROVE  StreamInv'
<1>1. Far /\ Top.req \in UsbRequests /\ Top.req \notin {"OUT", "IN"} /\ faults \in Nat
      /\ drv \in DbgpInfo
  BY StreamNumbers DEF Far, OnUsb, UsbRequests
<1>2. /\ Moved \/ Called \/ \E v : Returned(v)
      /\ drv' = drv \/ \E n : drv' = [drv EXCEPT !.fails = n]
      /\ dev' = dev \/ dev' = Accepts(Top.req, Top.pid)
      /\ io' = io /\ harm' = harm
      /\ faults' = faults \/ faults' = faults + 1
  <2>1. CASE EmitStart \/ EmitAfterInit \/ EmitReinit
    BY <2>1, StartSteps, AfterInitSteps, ReinitSteps
       DEF Emitting, EmitInits, EmitReturns, Aside
  <2>2. CASE EmitOk
    BY <1>1, <2>2, OkSteps DEF EmitReturns
  <2>3. CASE EmitNak
    BY <2>3, NakStep DEF EmitReturns, Emitting
  <2>4. CASE EmitErr
    BY <1>1, <2>4, ErrSteps DEF EmitReturns, Emitting, Aside
  <2>5. CASE EmitFailure
    BY <1>1, <2>5, FailureSteps DEF EmitReturns, EmitInits
  <2> QED
    BY <2>1, <2>2, <2>3, <2>4, <2>5 DEF EmitSteps
<1>3. drv'.wr_toggle = drv.wr_toggle /\ drv'.status = drv.status
  BY <1>1, <1>2 DEF DbgpInfo
<1>4. /\ dev'.tog = dev.tog /\ dev'.got = dev.got /\ dev'.next = dev.next
      /\ dev'.in = dev.in /\ dev'.speed = dev.speed
  <2> DEFINE d == Accepts(Top.req, Top.pid)
  <2>1. d.tog = dev.tog /\ d.got = dev.got /\ d.next = dev.next /\ d.in = dev.in
        /\ d.speed = dev.speed
    BY <1>1, AcceptsRequest
  <2>2. dev' = dev \/ dev' = d
    BY <1>2
  <2> HIDE DEF d
  <2> QED
    BY <2>1, <2>2
<1> QED
  BY <1>1, <1>2, <1>3, <1>4, FarStep

\* A packet under way, that did not reach the device now.
LEMMA OutKept ==
  ASSUME DbgpTypes, StreamInv, stack # <<>>, Top.fn = "emit", Top.req = "OUT",
         Writing(stack'), PacketFrame(stack').pid = Top.pid, ~At("write", "wait")', ~WriteDone',
         stack' # <<>>, stack'[1].fn # "panic",
         faults' \in Nat, faults' >= faults, io' = io, dev' = dev,
         drv'.wr_toggle = drv.wr_toggle, harm' = harm \/ Harmed,
         \/ Top.at # "failure" /\ harm' = harm
            /\ (Top.at = "reinit" => PacketFrame(stack').at = "reinit")
            /\ (PacketFrame(stack').at = "reinit" => Top.at = "reinit")
         \/ Harmed
  PROVE  StreamInv'
<1>1. /\ Writing(stack) /\ PacketFrame(stack) = Top /\ ~At("write", "wait") /\ ~WriteDone
      /\ WriteFailing <=> Top.at = "failure"
  BY OutShape
<1>2. WriteDone' = WriteDone
  BY <1>1 DEF WriteDone, At
<1>3. /\ HarmCap \in Nat /\ harm \in Nat /\ HarmCap > 0
  BY OutBounded, StreamNumbers
<1>4. /\ harm' = 0 => harm = 0 /\ harm' = harm /\ ~Harmed
      /\ harm' = harm /\ harm < HarmCap => ~Harmed
  BY <1>3 DEF Harmed
<1>5. ToggleKnown'
  BY <1>1, <1>4 DEF StreamInv, ToggleKnown
<1>6. harm' = harm /\ harm < HarmCap => Discards' <= Discards
  <2> SUFFICES ASSUME harm' = harm, harm < HarmCap PROVE Discards' <= Discards
    OBVIOUS
  <2>1. /\ Top.at # "failure" /\ (Top.at = "reinit" <=> PacketFrame(stack').at = "reinit")
    BY <1>4
  <2>2. CASE PacketFrame(stack').at = "failure"
    <3>1. Discards' = 0
      BY <2>2 DEF Discards, Top
    <3> QED
      BY <3>1, DiscardRange
  <2>3. CASE PacketFrame(stack').at # "failure"
    <3>1. Discards' = Discards
      BY <1>1, <2>1, <2>3 DEF Discards, Top, Differ, AfterPacket
    <3> QED
      BY <3>1, DiscardRange
  <2> QED
    BY <2>2, <2>3
<1>7. harm' = harm /\ harm < HarmCap => ~WriteFailing
  BY <1>1, <1>4
<1> QED
  BY <1>2, <1>5, <1>6, <1>7, StreamKept

\* A packet that failed: whatever was discarded is accounted for.
LEMMA OutFailed ==
  ASSUME DbgpTypes, StreamInv, stack # <<>>, Top.fn = "emit", Top.req = "OUT",
         EmitReturns("fail"), faults' \in Nat, faults' >= faults, io' = io, dev' = dev,
         \/ Top.at = "reinit" /\ harm' = harm
         \/ Harmed
  PROVE  StreamInv'
<1>1. /\ Writing(stack) /\ PacketFrame(stack) = Top /\ ~At("write", "wait") /\ ~WriteDone
      /\ WriteFailing <=> Top.at = "failure"
  BY OutShape
<1>2. /\ ~Writing(stack') /\ At("write", "wait")' /\ ~WriteDone' /\ ~WriteFailing'
      /\ stack' # <<>> /\ stack'[1].fn = "write"
  BY OutReturns
<1>3. WriteDone' = WriteDone
  BY <1>1, <1>2 DEF WriteDone, At
<1>4. /\ HarmCap \in Nat /\ harm \in Nat /\ HarmCap > 0
  BY OutBounded, StreamNumbers
<1>5. /\ harm' = 0 => harm = 0 /\ harm' = harm /\ ~Harmed
      /\ harm' = harm /\ harm < HarmCap => ~Harmed
  BY <1>4 DEF Harmed
<1>6. ToggleKnown'
  BY <1>1, <1>2, <1>5 DEF StreamInv, ToggleKnown
<1>7. harm' = harm /\ harm < HarmCap => ~WriteFailing /\ Discards' <= Discards
  <2> SUFFICES ASSUME harm' = harm, harm < HarmCap PROVE ~WriteFailing /\ Discards' <= Discards
    OBVIOUS
  <2>1. Top.at = "reinit"
    BY <1>5
  <2>2. Discards = 2
    BY <1>1, <2>1 DEF Discards
  <2> QED
    BY <1>1, <2>1, <2>2, DiscardRange
<1> QED
  BY <1>3, <1>6, <1>7, StreamKept

\* An element at the end of an ordered stream.
LEMMA OrderedAppend ==
  ASSUME NEW n \in Nat, NEW s \in Seq(1..n), NEW x \in 1..n,
         \A i \in 1..Len(s) : s[i] <= x,
         \A i \in 1..Len(s) - 1 : s[i] <= s[i + 1]
  PROVE  LET t == Append(s, x) IN
         /\ \A i \in 1..Len(t) : t[i] <= x
         /\ \A i \in 1..Len(t) - 1 : t[i] <= t[i + 1]
<1> DEFINE t == Append(s, x)
<1>1. /\ Len(t) = Len(s) + 1 /\ t[Len(s) + 1] = x /\ Len(s) \in Nat
      /\ \A i \in 1..Len(s) : t[i] = s[i]
  OBVIOUS
<1> HIDE DEF t
<1>2. ASSUME NEW i \in 1..Len(t) PROVE t[i] <= x
  <2>1. i = Len(s) + 1 \/ i \in 1..Len(s)
    BY <1>1
  <2> QED
    BY <1>1, <2>1
<1>3. ASSUME NEW i \in 1..Len(t) - 1 PROVE t[i] <= t[i + 1]
  <2>1. i \in 1..Len(s) /\ (i = Len(s) \/ i \in 1..Len(s) - 1)
    BY <1>1
  <2>2. CASE i = Len(s)
    BY <1>1, <2>1, <2>2
  <2>3. CASE i \in 1..Len(s) - 1
    <3>1. i + 1 \in 1..Len(s)
      BY <1>1, <2>3
    <3> QED
      BY <1>1, <2>1, <2>3, <3>1
  <2> QED
    BY <2>1, <2>2, <2>3
<1> QED
  BY <1>2, <1>3 DEF t

\* A packet the device accepts.
LEMMA OutAccepted ==
  ASSUME DbgpTypes, StreamInv, stack # <<>>, Top.fn = "emit", Top.req = "OUT",
         dev'.got = Append(dev.got, io.out + 1), dev'.next = dev.next, io' = io
  PROVE  /\ Ordered' /\ Missing' = Missing /\ Delivered'
         /\ Repeated(dev.got)' = Repeated(dev.got) + B2N(Delivered)
<1>1. /\ io.out + 1 \in 1..MaxOut /\ MaxOut \in Nat /\ dev.got \in Seq(1..MaxOut)
      /\ io.out \in Nat
  BY OutBounded, StreamNumbers
<1>2. /\ ToSet(dev'.got) = ToSet(dev.got) \cup {io.out + 1}
      /\ Repeated(dev'.got) = Repeated(dev.got) + B2N(io.out + 1 \in ToSet(dev.got))
  BY <1>1, RepeatedAppend
<1>3. Missing' = Missing
  BY <1>1, <1>2 DEF Missing
<1>4. /\ \A i \in 1..Len(dev'.got) : dev'.got[i] <= io.out + 1
      /\ \A i \in 1..Len(dev'.got) - 1 : dev'.got[i] <= dev'.got[i + 1]
  BY <1>1, OrderedAppend DEF StreamInv, Ordered
<1>5. Ordered'
  BY <1>4 DEF StreamInv, Ordered
<1> QED
  BY <1>2, <1>3, <1>5 DEF Delivered

\* The answer to an OUT packet.
LEMMA OutOk ==
  ASSUME DbgpTypes, StreamInv, EmitOk, Top.req = "OUT"
  PROVE  StreamInv'
<1>1. /\ stack # <<>> /\ Top.fn = "emit" /\ Top.at = "go" /\ Top.pid \in {0, 1}
      /\ dev' = Accepts(Top.req, Top.pid) /\ EmitReturns("done") /\ io' = io
      /\ drv' = drv /\ faults' = faults /\ harm' = harm /\ dev.in /\ dev.speed = "high"
  BY OkSteps, EmitKinds DEF Reaches, Pids
<1>2. /\ Writing(stack) /\ PacketFrame(stack) = Top /\ ~At("write", "wait") /\ ~WriteDone
      /\ ~WriteFailing
  BY <1>1, OutShape
<1>3. /\ ~Writing(stack') /\ At("write", "wait")' /\ WriteDone' /\ ~WriteFailing'
      /\ stack' # <<>> /\ stack'[1].fn = "write"
  BY <1>1, OutReturns
<1>4. /\ dev'.in = dev.in /\ dev'.speed = dev.speed /\ dev'.next = dev.next
      /\ Top.pid = dev.tog => dev'.tog = 1 - dev.tog /\ dev'.got = Append(dev.got, io.out + 1)
      /\ Top.pid # dev.tog => dev' = dev
  <2> DEFINE d == Accepts(Top.req, Top.pid)
  <2>1. /\ d.in = dev.in /\ d.speed = dev.speed /\ d.next = dev.next
        /\ Top.pid = dev.tog => d.tog = 1 - dev.tog /\ d.got = Append(dev.got, io.out + 1)
        /\ Top.pid # dev.tog => d = dev
    BY <1>1, OutBounded, AcceptsPacket
  <2>2. dev' = d
    BY <1>1
  <2> HIDE DEF d
  <2> QED
    BY <2>1, <2>2
<1>5. ToggleKnown'
  BY <1>1, <1>3, <1>4 DEF ToggleKnown
<1> DEFINE r == Repeated(dev.got)
           m == Cardinality(Missing)
           b == B2N(Delivered)
<1>6. /\ r \in Int /\ m \in Nat /\ b \in {0, 1} /\ faults \in Nat /\ harm \in Nat
      /\ dev.tog \in {0, 1} /\ drv.wr_toggle \in {0, 1} /\ HarmCap \in Nat
  BY StreamNumbers, BitRange
<1>7. /\ r + b <= faults /\ (harm < HarmCap => r <= harm /\ r + b <= harm)
      /\ harm < HarmCap => m + Discards <= 2 * harm
  BY <1>2, <1>6 DEF StreamInv, RepeatedOut, MissingOut, B2N
<1>8. RepeatedIn'
  BY <1>1, <1>4 DEF StreamInv, RepeatedIn
<1>9. CASE Top.pid = dev.tog
  <2>1. /\ Ordered' /\ Missing' = Missing /\ Delivered' /\ Repeated(dev.got)' = r + b
    BY <1>1, <1>4, <1>9, OutAccepted
  <2>2. Discards' = Discards
    <3>1. Discards = Differ(drv.wr_toggle, 1 - dev.tog)
      <4>1. Discards = B2N(Top.pid # dev.tog) + Differ(drv.wr_toggle, AfterPacket(Top.pid))
        BY <1>1, <1>2 DEF Discards
      <4>2. AfterPacket(Top.pid) = 1 - dev.tog /\ B2N(Top.pid # dev.tog) = 0
        BY <1>9 DEF AfterPacket, B2N
      <4>3. Differ(drv.wr_toggle, 1 - dev.tog) \in {0, 1}
        BY BitRange DEF Differ
      <4> QED
        BY <4>1, <4>2, <4>3
    <3>2. Discards' = Differ(drv.wr_toggle, 1 - dev.tog)
      <4>1. Discards' = Differ(drv'.wr_toggle, dev'.tog) + B2N(~Delivered')
        BY <1>3 DEF Discards, Top
      <4>2. B2N(~Delivered') = 0
        BY <2>1 DEF B2N
      <4>3. Differ(drv.wr_toggle, 1 - dev.tog) \in {0, 1}
        BY BitRange DEF Differ
      <4> QED
        BY <1>1, <1>4, <1>9, <4>1, <4>2, <4>3
    <3> QED
      BY <3>1, <3>2
  <2>3. B2N(Delivered /\ ~WriteDone)' = 0
    BY <1>3 DEF B2N
  <2> HIDE DEF r, m, b
  <2>4. RepeatedOut'
    BY <1>1, <1>6, <1>7, <2>1, <2>3, BitRange DEF RepeatedOut
  <2>5. MissingOut'
    BY <1>1, <1>7, <2>1, <2>2 DEF MissingOut, m
  <2> QED
    BY <1>5, <1>8, <2>1, <2>4, <2>5 DEF StreamInv
<1>10. CASE Top.pid # dev.tog
  <2>1. dev' = dev
    BY <1>4, <1>10
  <2>2. Ordered' /\ Missing' = Missing /\ Repeated(dev.got)' = r
    BY <1>1, <2>1 DEF StreamInv, Ordered, Missing
  <2>3. Discards' <= Discards
    <3>1. Discards = 1 + Differ(drv.wr_toggle, dev.tog)
      <4>1. Discards = B2N(Top.pid # dev.tog) + Differ(drv.wr_toggle, AfterPacket(Top.pid))
        BY <1>1, <1>2 DEF Discards
      <4> QED
        BY <1>10, <4>1 DEF AfterPacket, B2N
    <3>2. Discards' = Differ(drv.wr_toggle, dev.tog) + B2N(~Delivered')
      BY <1>1, <1>3, <2>1 DEF Discards, Top
    <3>3. Differ(drv.wr_toggle, dev.tog) \in {0, 1} /\ B2N(~Delivered') \in {0, 1}
      BY BitRange DEF Differ
    <3> QED
      BY <3>1, <3>2, <3>3
  <2>4. B2N(Delivered /\ ~WriteDone)' = 0
    BY <1>3 DEF B2N
  <2>5. Discards \in 0..2 /\ Discards' \in 0..2
    BY DiscardRange
  <2> HIDE DEF r, m, b
  <2>6. RepeatedOut'
    BY <1>1, <1>6, <1>7, <2>2, <2>4, BitRange DEF RepeatedOut
  <2>7. MissingOut'
    BY <1>1, <1>6, <1>7, <2>2, <2>3, <2>5 DEF MissingOut, m
  <2> QED
    BY <1>5, <1>8, <2>2, <2>6, <2>7 DEF StreamInv
<1> QED
  BY <1>9, <1>10

\* A packet the device accepts, whose acknowledgement is lost.
LEMMA OutLost ==
  ASSUME DbgpTypes, StreamInv, stack # <<>>, Top.fn = "emit", Top.req = "OUT", Top.at = "go",
         Top.pid \in {0, 1}, Reaches(Top.req), Emitting({"failure"}),
         dev' = Accepts(Top.req, Top.pid), io' = io, drv' = drv, harm' = harm,
         faults' = faults + 1
  PROVE  StreamInv'
<1>1. /\ Writing(stack) /\ PacketFrame(stack) = Top /\ ~At("write", "wait") /\ ~WriteDone
      /\ ~WriteFailing
  BY OutShape
<1>2. /\ Writing(stack') /\ PacketFrame(stack').at = "failure" /\ PacketFrame(stack').pid = Top.pid
      /\ ~At("write", "wait")' /\ ~WriteDone' /\ stack' # <<>> /\ stack'[1].fn = "emit"
  BY OutGoes
<1>3. /\ dev'.in = dev.in /\ dev'.speed = dev.speed /\ dev'.next = dev.next
      /\ Top.pid = dev.tog => dev'.tog = 1 - dev.tog /\ dev'.got = Append(dev.got, io.out + 1)
      /\ Top.pid # dev.tog => dev' = dev
  <2> DEFINE d == Accepts(Top.req, Top.pid)
  <2>1. /\ d.in = dev.in /\ d.speed = dev.speed /\ d.next = dev.next
        /\ Top.pid = dev.tog => d.tog = 1 - dev.tog /\ d.got = Append(dev.got, io.out + 1)
        /\ Top.pid # dev.tog => d = dev
    BY OutBounded, AcceptsPacket
  <2>2. dev' = d
    OBVIOUS
  <2> HIDE DEF d
  <2> QED
    BY <2>1, <2>2
<1>4. WriteFailing' /\ Discards' = 0
  BY <1>2 DEF WriteFailing, Discards, Top
<1>5. ToggleKnown'
  BY <1>3, <1>4 DEF ToggleKnown, Reaches
<1> DEFINE r == Repeated(dev.got)
           m == Cardinality(Missing)
           b == B2N(Delivered)
<1>6. /\ r \in Int /\ m \in Nat /\ b \in {0, 1} /\ faults \in Nat /\ harm \in Nat
      /\ HarmCap \in Nat /\ Discards \in 0..2 /\ Repeated(io.taken) \in Int
      /\ B2N(dev.next \in ToSet(io.taken)) \in {0, 1}
  BY StreamNumbers, BitRange, DiscardRange
<1>7. /\ r + b <= faults /\ (harm < HarmCap => r <= harm /\ r + b <= harm)
      /\ harm < HarmCap => m + Discards <= 2 * harm
  BY <1>1, <1>6 DEF StreamInv, RepeatedOut, MissingOut, B2N
<1>8. RepeatedIn'
  BY <1>3, <1>6 DEF StreamInv, RepeatedIn
<1>9. /\ Ordered' /\ Missing' = Missing
      /\ Repeated(dev.got)' \in {r, r + b}
      /\ Repeated(dev.got)' + B2N(Delivered /\ ~WriteDone)' <= r + b + 1
  <2>1. CASE Top.pid = dev.tog
    <3>1. /\ Ordered' /\ Missing' = Missing /\ Delivered' /\ Repeated(dev.got)' = r + b
      BY <1>3, <2>1, OutAccepted
    <3>2. B2N(Delivered /\ ~WriteDone)' = 1
      BY <1>2, <3>1 DEF B2N
    <3> HIDE DEF r, m, b
    <3> QED
      BY <1>6, <3>1, <3>2
  <2>2. CASE Top.pid # dev.tog
    <3>1. dev' = dev
      BY <1>3, <2>2
    <3>2. Ordered' /\ Missing' = Missing /\ Repeated(dev.got)' = r
      BY <3>1 DEF StreamInv, Ordered, Missing
    <3>3. B2N(Delivered /\ ~WriteDone)' \in {0, 1}
      BY BitRange
    <3> HIDE DEF r, m, b
    <3> QED
      BY <1>6, <3>2, <3>3
  <2> QED
    BY <2>1, <2>2
<1>10. B2N(WriteFailing)' = 1 /\ B2N(Delivered /\ ~WriteDone)' \in {0, 1}
  BY <1>4, BitRange DEF B2N
<1> HIDE DEF r, m, b
<1>11. RepeatedOut'
  BY <1>6, <1>7, <1>9, <1>10 DEF RepeatedOut
<1>12. MissingOut'
  BY <1>4, <1>6, <1>7, <1>9 DEF MissingOut, m
<1> QED
  BY <1>5, <1>8, <1>9, <1>11, <1>12 DEF StreamInv

\* An element at the end of the stream read.
LEMMA TakenAppend ==
  ASSUME NEW n \in Nat, NEW s \in Seq(1..n), NEW x \in 1..n,
         \A i \in 1..Len(s) : s[i] <= x, s # <<>> => s[Len(s)] >= x - 1,
         \A i \in 1..Len(s) - 1 : s[i + 1] - s[i] \in {0, 1}
  PROVE  LET t == Append(s, x) IN
         /\ \A i \in 1..Len(t) : t[i] <= x
         /\ t[Len(t)] = x
         /\ \A i \in 1..Len(t) - 1 : t[i + 1] - t[i] \in {0, 1}
<1> DEFINE t == Append(s, x)
<1>1. /\ Len(t) = Len(s) + 1 /\ t[Len(s) + 1] = x /\ Len(s) \in Nat
      /\ \A i \in 1..Len(s) : t[i] = s[i] /\ s[i] \in 1..n
      /\ Len(s) # 0 => s # <<>>
  OBVIOUS
<1> HIDE DEF t
<1>2. ASSUME NEW i \in 1..Len(t) PROVE t[i] <= x
  <2>1. i = Len(s) + 1 \/ i \in 1..Len(s)
    BY <1>1
  <2> QED
    BY <1>1, <2>1
<1>3. ASSUME NEW i \in 1..Len(t) - 1 PROVE t[i + 1] - t[i] \in {0, 1}
  <2>1. i \in 1..Len(s) /\ (i = Len(s) \/ i \in 1..Len(s) - 1)
    BY <1>1
  <2>2. CASE i = Len(s)
    <3>1. t[i + 1] = x /\ t[i] = s[i] /\ s[i] <= x /\ s[i] >= x - 1 /\ s[i] \in 1..n
      BY <1>1, <2>1, <2>2
    <3> QED
      BY <3>1
  <2>3. CASE i \in 1..Len(s) - 1
    <3>1. i + 1 \in 1..Len(s)
      BY <1>1, <2>3
    <3> QED
      BY <1>1, <2>1, <2>3, <3>1
  <2> QED
    BY <2>1, <2>2, <2>3
<1>4. t[Len(t)] = x
  BY <1>1
<1> QED
  BY <1>2, <1>3, <1>4 DEF t

LEMMA SeqElement ==
  ASSUME NEW n \in Nat, NEW s \in Seq(1..n), NEW i \in 1..Len(s)
  PROVE  s[i] \in Int
<1>1. s[i] \in 1..n
  OBVIOUS
<1> QED
  BY <1>1

\* What the client sends is taken: once, or again when the acknowledgement was lost.
LEMMA InTaken ==
  ASSUME DbgpTypes, StreamInv, NoWrite, NoWrite', dev.next <= MaxIn, drv' = drv,
         io'.out = io.out, io'.taken = Append(io.taken, dev.next),
         dev'.got = dev.got, dev'.tog = dev.tog, dev'.in = dev.in, dev'.speed = dev.speed,
         \/ dev'.next = dev.next + 1 /\ harm' = harm /\ faults' = faults
         \/ /\ dev'.next = dev.next /\ Harmed /\ faults < MaxFaults /\ faults' = faults + 1
  PROVE  StreamInv'
<1>1. Discards' = Discards /\ ~WriteDone /\ ~WriteFailing /\ ~WriteDone' /\ ~WriteFailing'
  BY IdleView
<1>2. /\ dev.next \in 1..MaxIn /\ MaxIn \in Nat /\ io.taken \in Seq(1..MaxIn)
      /\ faults \in 0..MaxFaults /\ harm \in Nat /\ HarmCap \in Nat /\ harm <= HarmCap
      /\ HarmCap > 0 \/ faults' = faults
      /\ Discards \in 0..2 /\ Cardinality(Missing) \in Nat
      /\ Repeated(dev.got) \in Int /\ HarmCap = MaxOut + MaxFaults
      /\ MaxOut \in Nat /\ MaxFaults \in Nat
  <2>1. dev.next \in 1..MaxIn + 1 /\ MaxIn \in Nat /\ harm \in 0..HarmCap /\ HarmCap \in Nat
    BY StreamNumbers
  <2>2. HarmCap > 0 \/ faults' = faults
    BY StreamNumbers
  <2> QED
    BY <2>1, <2>2, StreamNumbers, DiscardRange
<1>3. /\ ToSet(io'.taken) = ToSet(io.taken) \cup {dev.next}
      /\ Repeated(io'.taken) = Repeated(io.taken) + B2N(dev.next \in ToSet(io.taken))
      /\ Repeated(io.taken) \in Int
  BY <1>2, RepeatedAppend
<1>4. /\ \A i \in 1..Len(io'.taken) : io'.taken[i] <= dev.next
      /\ io'.taken[Len(io'.taken)] = dev.next
      /\ \A i \in 1..Len(io'.taken) - 1 : io'.taken[i + 1] - io'.taken[i] \in {0, 1}
  <2>1. /\ \A i \in 1..Len(io.taken) : io.taken[i] <= dev.next
        /\ io.taken # <<>> => io.taken[Len(io.taken)] >= dev.next - 1
        /\ \A i \in 1..Len(io.taken) - 1 : io.taken[i + 1] - io.taken[i] \in {0, 1}
    BY DEF StreamInv, Ordered
  <2> DEFINE u == Append(io.taken, dev.next)
  <2>2. /\ \A i \in 1..Len(u) : u[i] <= dev.next
        /\ u[Len(u)] = dev.next
        /\ \A i \in 1..Len(u) - 1 : u[i + 1] - u[i] \in {0, 1}
    BY <1>2, <2>1, TakenAppend
  <2>3. io'.taken = u
    OBVIOUS
  <2> HIDE DEF u
  <2> QED
    BY <2>2, <2>3
<1>5. io'.taken \in Seq(1..MaxIn)
  BY <1>2
<1> DEFINE x == dev.next
           t == io'.taken
<1>6. Ordered'
  <2>1. t \in Seq(1..MaxIn) /\ x \in Nat /\ (dev'.next = x \/ dev'.next = x + 1)
    BY <1>2, <1>5
  <2>2. \A i \in 1..Len(t) : t[i] <= dev'.next
    <3> SUFFICES ASSUME NEW i \in 1..Len(t) PROVE t[i] <= dev'.next
      OBVIOUS
    <3>1. t[i] <= x
      BY <1>4
    <3> HIDE DEF t, x
    <3>2. t[i] \in Int
      BY <1>2, <2>1, SeqElement
    <3> QED
      BY <2>1, <3>1, <3>2
  <2>3. t[Len(t)] >= dev'.next - 1
    BY <1>4, <2>1
  <2> QED
    BY <1>4, <2>2, <2>3 DEF StreamInv, Ordered
<1>7. /\ harm' \in Nat /\ (harm' = 0 => harm = 0)
      /\ \/ harm' = harm /\ faults' = faults
         \/ faults' = faults + 1 /\ (harm' = HarmCap \/ (harm' = harm + 1 /\ harm < HarmCap))
  <2>1. harm \in Nat /\ HarmCap \in Nat /\ harm <= HarmCap
    BY <1>2
  <2>2. \/ harm' = harm /\ faults' = faults
        \/ Harmed /\ faults' = faults + 1
    OBVIOUS
  <2> QED
    BY <2>1, <2>2 DEF Harmed
<1>8. ToggleKnown'
  BY <1>1, <1>7 DEF StreamInv, ToggleKnown
<1> DEFINE r == Repeated(dev.got)
           q == Repeated(io.taken)
           m == Cardinality(Missing)
           b == B2N(Delivered /\ ~WriteDone)
           e == B2N(dev.next \in ToSet(io.taken))
           d == Discards
<1>9. b \in {0, 1} /\ e \in {0, 1} /\ B2N(WriteFailing) = 0 /\ B2N(WriteFailing)' = 0
  BY <1>1, BitRange DEF B2N
<1>10. /\ r + b <= faults /\ (harm < HarmCap => r <= harm /\ r + b <= harm)
       /\ q + e <= faults /\ (harm < HarmCap => q + e <= harm)
       /\ harm < HarmCap => m + d <= 2 * harm
  BY <1>2, <1>9 DEF StreamInv, RepeatedOut, RepeatedIn, MissingOut
<1>11. Repeated(dev.got)' = r /\ Missing' = Missing /\ B2N(Delivered /\ ~WriteDone)' = b
  BY <1>1 DEF Missing, Delivered, B2N
<1>12. Repeated(io.taken)' = q + e /\ q \in Int /\ r \in Int /\ m \in Nat /\ d \in 0..2
       /\ faults \in Nat
  BY <1>2, <1>3
<1> HIDE DEF r, q, m, b, e, d
<1>13. RepeatedOut'
  BY <1>2, <1>7, <1>9, <1>10, <1>11, <1>12 DEF RepeatedOut
<1>14. MissingOut'
  <2>1. harm' < HarmCap => m + d <= 2 * harm'
    <3>1. harm \in Nat /\ HarmCap \in Nat /\ m \in Nat /\ d \in Int
      BY <1>2, <1>12
    <3>2. harm' = harm \/ harm' = HarmCap \/ (harm' = harm + 1 /\ harm < HarmCap)
      BY <1>7
    <3> QED
      BY <1>10, <3>1, <3>2
  <2> QED
    BY <1>1, <1>11, <2>1 DEF MissingOut, m, d
<1>15. RepeatedIn'
  <2>1. CASE dev'.next = x + 1 /\ harm' = harm /\ faults' = faults
    <3>1. x + 1 \notin ToSet(t)
      <4>1. \A y \in ToSet(t) : y <= x
        BY <1>4, <1>5 DEF ToSet
      <4> QED
        BY <1>2, <4>1
    <3>2. B2N(dev.next \in ToSet(io.taken))' = 0
      BY <2>1, <3>1 DEF B2N
    <3> QED
      BY <1>9, <1>10, <1>12, <2>1, <3>2 DEF RepeatedIn
  <2>2. CASE dev'.next = x /\ Harmed /\ faults' = faults + 1
    <3>1. B2N(dev.next \in ToSet(io.taken))' \in {0, 1}
      BY BitRange
    <3>2. harm' < HarmCap => harm' = harm + 1 /\ harm < HarmCap
      BY <1>2, <2>2 DEF Harmed
    <3> QED
      BY <1>2, <1>9, <1>10, <1>12, <2>2, <3>1, <3>2 DEF RepeatedIn
  <2> QED
    BY <2>1, <2>2
<1> QED
  BY <1>6, <1>8, <1>13, <1>14, <1>15 DEF StreamInv

\* The steps of an emission, label by label.
LEMMA StreamEmit ==
  ASSUME DbgpTypes, StreamInv, PortEnabled, EmitSteps
  PROVE  StreamInv'
<1>1. stack # <<>> /\ Top.fn = "emit"
  BY StartSteps, AfterInitSteps, OkSteps, NakStep, ErrSteps, FailureSteps, ReinitSteps
     DEF EmitSteps
<1>2. faults \in Nat /\ drv \in DbgpInfo /\ Top.pid \in Pids
  BY <1>1, StreamNumbers, EmitKinds
<1>3. CASE OnUsb(Top)
  BY <1>1, <1>3, StreamUsb
<1>4. CASE Top.req = "OUT"
  <2>1. ASSUME NEW L, Emitting(L), L \subseteq {"go", "failure"}, Top.at # "failure",
               Top.at # "reinit", harm' = harm, io' = io, dev' = dev, drv' = drv,
               faults' = faults \/ faults' = faults + 1
        PROVE  StreamInv'
    BY <1>1, <1>2, <1>4, <2>1, OutGoes, OutKept
  <2>2. ASSUME NEW l, EmitInits(l), l = "init" \/ l = "reinit", io' = io, dev' = dev,
               drv'.wr_toggle = drv.wr_toggle, faults' = faults,
               \/ harm' = harm /\ Top.at = "start" /\ l = "init"
               \/ harm' = harm /\ Top.at = "reinit" /\ l = "reinit"
               \/ Harmed
        PROVE  StreamInv'
    BY <1>1, <1>2, <1>4, <2>2, OutInits, OutKept
  <2>3. CASE EmitStart
    BY <1>1, <2>1, <2>2, <2>3, StartSteps DEF Aside
  <2>4. CASE EmitAfterInit
    BY <1>1, <2>1, <2>4, AfterInitSteps DEF Aside
  <2>5. CASE EmitOk
    BY <1>4, <2>5, OutOk
  <2>6. CASE EmitNak
    BY <1>1, <1>4, <2>1, <2>6, NakStep DEF IsRead
  <2>7. CASE EmitErr
    <3>1. /\ Top.at = "go" /\ drv' = drv /\ Emitting({"failure"}) /\ harm' = harm /\ io' = io
          /\ faults' = faults \/ faults' = faults + 1
          /\ \/ dev' = dev
             \/ /\ Reaches(Top.req) /\ Top.pid # 2 /\ dev' = Accepts(Top.req, Top.pid)
                /\ faults' = faults + 1
      BY <1>4, <2>7, ErrSteps DEF Aside
    <3>2. CASE dev' = dev
      BY <2>1, <3>1, <3>2
    <3>3. CASE dev' # dev
      BY <1>1, <1>2, <1>4, <3>1, <3>3, OutLost DEF Pids
    <3> QED
      BY <3>2, <3>3
  <2>8. CASE EmitFailure
    <3>1. /\ Top.at = "failure" /\ Harmed /\ dev' = dev /\ io' = io /\ faults' = faults
          /\ EmitReturns("fail") \/ (EmitInits("reinit") /\ drv' = [drv EXCEPT !.fails = 0])
      BY <1>4, <2>8, FailureSteps
    <3>2. drv' = [drv EXCEPT !.fails = 0] => drv'.wr_toggle = drv.wr_toggle
      BY <1>2 DEF DbgpInfo
    <3> QED
      BY <1>1, <1>2, <1>4, <2>2, <3>1, <3>2, OutFailed
  <2>9. CASE EmitReinit
    <3>1. /\ Top.at = "reinit" /\ drv' = drv /\ Aside
          /\ EmitReturns("fail") \/ EmitInits("reinit")
      BY <2>9, ReinitSteps
    <3> QED
      BY <1>1, <1>2, <1>4, <2>2, <3>1, OutFailed DEF Aside
  <2> QED
    BY <2>3, <2>4, <2>5, <2>6, <2>7, <2>8, <2>9 DEF EmitSteps
<1>5. CASE Top.req = "IN"
  <2>1. ASSUME io' = io, dev' = dev, harm' = harm, faults' = faults \/ faults' = faults + 1,
               drv'.wr_toggle = drv.wr_toggle, drv'.status = drv.status,
               (\E L : Emitting(L)) \/ (\E l : EmitInits(l)) \/ (\E v : EmitReturns(v))
        PROVE  StreamInv'
    BY <1>1, <1>2, <1>5, <2>1, InIdle, IdleStep
  <2>2. CASE EmitStart \/ EmitAfterInit \/ EmitReinit
    BY <2>1, <2>2, StartSteps, AfterInitSteps, ReinitSteps DEF Aside
  <2>3. CASE EmitNak
    BY <2>1, <2>3, NakStep
  <2>4. CASE EmitFailure
    <3>1. /\ harm' = harm /\ dev' = dev /\ io' = io /\ faults' = faults
          /\ EmitReturns("fail") \/ EmitInits("reinit")
          /\ \E n : drv' = [drv EXCEPT !.fails = n]
      BY <1>5, <2>4, FailureSteps
    <3>2. drv'.wr_toggle = drv.wr_toggle /\ drv'.status = drv.status
      BY <1>2, <3>1 DEF DbgpInfo
    <3> QED
      BY <2>1, <3>1, <3>2
  <2>5. io \in [out : 0..MaxOut, goal : 0..MaxOut, taken : Seq(1..MaxIn)]
    BY DEF DbgpTypes, DbgpTypeOK
  <2>6. \A x : io' = [io EXCEPT !.taken = Append(@, x)]
               => io'.out = io.out /\ io'.taken = Append(io.taken, x)
    BY <2>5
  <2>7. CASE EmitOk
    <3>1. /\ Top.pid \in {0, 1} /\ dev.next <= MaxIn /\ dev' = Accepts(Top.req, Top.pid)
          /\ EmitReturns("done") /\ io' = [io EXCEPT !.taken = Append(@, dev.next)]
          /\ drv' = drv /\ faults' = faults /\ harm' = harm
      BY <1>2, <1>5, <2>7, OkSteps DEF Pids
    <3>2. /\ dev'.next = dev.next + 1 /\ dev'.tog = dev.tog /\ dev'.got = dev.got
          /\ dev'.in = dev.in /\ dev'.speed = dev.speed
      <4> DEFINE d == Accepts(Top.req, Top.pid)
      <4>1. /\ d.next = dev.next + 1 /\ d.tog = dev.tog /\ d.got = dev.got
            /\ d.in = dev.in /\ d.speed = dev.speed
        BY <1>5, <3>1, AcceptsPacket
      <4>2. dev' = d
        BY <3>1
      <4> HIDE DEF d
      <4> QED
        BY <4>1, <4>2
    <3>3. NoWrite /\ NoWrite'
      BY <1>1, <1>5, <3>1, InIdle
    <3> QED
      BY <2>6, <3>1, <3>2, <3>3, InTaken
  <2>8. CASE EmitErr
    <3>1. /\ drv' = drv
          /\ \/ /\ Emitting({"failure"}) /\ dev' = dev /\ io' = io /\ harm' = harm /\ ret' = ret
                /\ faults' = faults \/ faults' = faults + 1
             \/ /\ EmitReturns("done") /\ dev' = dev /\ Harmed /\ dev.next <= MaxIn
                /\ io' = [io EXCEPT !.taken = Append(@, dev.next)]
                /\ faults < MaxFaults /\ faults' = faults + 1
      BY <1>5, <2>8, ErrSteps DEF IsRead, Aside
    <3>2. CASE /\ Emitting({"failure"}) /\ dev' = dev /\ io' = io /\ harm' = harm /\ ret' = ret
               /\ faults' = faults \/ faults' = faults + 1
      BY <2>1, <3>1, <3>2
    <3>3. CASE /\ EmitReturns("done") /\ dev' = dev /\ Harmed /\ dev.next <= MaxIn
               /\ io' = [io EXCEPT !.taken = Append(@, dev.next)]
               /\ faults < MaxFaults /\ faults' = faults + 1
      <4>1. NoWrite /\ NoWrite'
        BY <1>1, <1>5, <3>3, InIdle
      <4> QED
        BY <2>6, <3>1, <3>3, <4>1, InTaken
    <3> QED
      BY <3>1, <3>2, <3>3
  <2> QED
    BY <2>2, <2>3, <2>4, <2>7, <2>8 DEF EmitSteps
<1> QED
  BY <1>1, <1>3, <1>4, <1>5, EmitKinds DEF OnData

\* A packet is sent: the toggle is swapped after a success, and unknown
\* after a failure.
LEMMA StreamWrite ==
  ASSUME DbgpTypes, StreamInv, dbgp_write
  PROVE  StreamInv'
<1>1. /\ stack # <<>> /\ Top.fn = "write" /\ Top.at = "call" /\ Aside
      /\ \/ /\ drv.status /\ drv' = [drv EXCEPT !.wr_toggle = 1 - @]
            /\ PacketSent("OUT", drv'.wr_toggle)
         \/ ~drv.status /\ drv' = drv /\ \E p \in Pids : PacketSent("OUT", p)
  BY WriteSteps
<1>2. PICK p : /\ PacketSent("OUT", p)
               /\ \/ drv.status /\ drv' = [drv EXCEPT !.wr_toggle = 1 - @] /\ p = drv'.wr_toggle
                  \/ ~drv.status
  BY <1>1
<1>3. /\ Len(stack) = 1 /\ Len(stack') = 2 /\ stack' # <<>> /\ stack'[1].fn = "emit"
      /\ stack'[1].at = "start" /\ stack'[1].pid = p /\ stack'[2].fn = "write"
  BY <1>1, <1>2 DEF PacketSent, Called, Pushes
<1>4. ~Writing(stack) /\ Writing(stack') /\ PacketFrame(stack') = stack'[1]
  BY <1>3 DEF Writing, PacketFrame
<1>5. /\ ~At("write", "wait") /\ ~WriteDone /\ ~WriteFailing
      /\ ~At("write", "wait")' /\ ~WriteDone' /\ ~WriteFailing'
  BY <1>1, <1>3, <1>4 DEF At, WriteDone, WriteFailing, Top
<1>6. WriteDone' = WriteDone
  BY <1>5 DEF WriteDone, At
<1>7. Discards' <= Discards
  <2>1. CASE ~drv.status
    <3>1. Discards = 2
      BY <1>1, <1>4, <1>5, <2>1 DEF Discards
    <3> QED
      BY <3>1, DiscardRange
  <2>2. CASE drv.status
    <3> DEFINE w == drv.wr_toggle
               t == dev.tog
    <3>1. w \in {0, 1} /\ t \in {0, 1} /\ drv \in DbgpInfo
      BY StreamNumbers
    <3>2. drv'.wr_toggle = 1 - w /\ p = 1 - w /\ dev' = dev
      BY <1>1, <1>2, <2>2, <3>1 DEF Aside, DbgpInfo
    <3>3. Discards = Differ(w, t)
      BY <1>1, <1>4, <1>5, <2>2 DEF Discards
    <3>4. Discards' = B2N(p # t) + Differ(1 - w, AfterPacket(p))
      BY <1>3, <1>4, <3>1, <3>2 DEF Discards, Top, AfterPacket
    <3>5. Differ(1 - w, AfterPacket(p)) = 0
      BY <3>1, <3>2 DEF Differ, AfterPacket, B2N
    <3>6. B2N(p # t) = Differ(w, t) /\ Differ(w, t) \in {0, 1}
      BY <3>1, <3>2, BitRange DEF Differ
    <3> QED
      BY <3>3, <3>4, <3>5, <3>6
  <2> QED
    BY <2>1, <2>2
<1>8. ToggleKnown'
  BY <1>1, <1>5 DEF StreamInv, ToggleKnown, Aside
<1>9. faults \in Nat
  BY StreamNumbers
<1> QED
  BY <1>1, <1>5, <1>6, <1>7, <1>8, <1>9, StreamKept DEF Aside

\* A packet more is written.
LEMMA MissingNext ==
  ASSUME DbgpTypes, io'.out = io.out + 1, dev' = dev, io.out < MaxOut
  PROVE  Cardinality(Missing') = Cardinality(Missing) + B2N(~Delivered)
<1>1. io.out \in Nat
  BY StreamNumbers
<1>2. IsFiniteSet(Missing)
  <2>1. IsFiniteSet(1..io.out) /\ Missing \in SUBSET (1..io.out)
    BY <1>1, FS_Interval DEF Missing
  <2> QED
    BY <2>1, FS_Subset
<1>3. 1..io.out + 1 = (1..io.out) \cup {io.out + 1} /\ io.out + 1 \notin 1..io.out
  BY <1>1
<1>4. CASE Delivered
  <2>1. Missing' = Missing
    BY <1>3, <1>4 DEF Missing, Delivered
  <2> QED
    BY <1>2, <1>4, <2>1, FS_CardinalityType DEF B2N
<1>5. CASE ~Delivered
  <2>1. Missing' = Missing \cup {io.out + 1} /\ io.out + 1 \notin Missing
    BY <1>3, <1>5 DEF Missing, Delivered
  <2> QED
    BY <1>2, <1>5, <2>1, FS_AddElement DEF B2N
<1> QED
  BY <1>4, <1>5

\* The calls of the VMM, which count packets.
LEMMA StreamRw ==
  ASSUME DbgpTypes, StreamInv, dbgp_rw
  PROVE  StreamInv'
<1>1. /\ stack # <<>> /\ Top.fn = "write" /\ Top.at = "wait" /\ ret' = "none"
      /\ Len(stack) = 1 /\ Len(stack') = 1 /\ stack' # <<>>
      /\ stack'[1].fn = "write" /\ stack'[1].at = "call"
      /\ drv' = [drv EXCEPT !.status = (ret = "done")]
      /\ io' = IF ret = "done" THEN [io EXCEPT !.out = @ + 1] ELSE io
      /\ dev' = dev /\ harm' = harm /\ faults' = faults
  BY RwSteps DEF Moved, Steps
<1>2. ~Writing(stack) /\ ~Writing(stack') /\ ~WriteFailing /\ ~WriteFailing'
  BY <1>1 DEF Writing, WriteFailing
<1>3. ~At("write", "wait")' /\ ~WriteDone' /\ (WriteDone <=> ret = "done") /\ At("write", "wait")
  BY <1>1 DEF At, WriteDone, Top
<1>4. drv'.status = (ret = "done") /\ drv'.wr_toggle = drv.wr_toggle
  BY <1>1, StreamNumbers DEF DbgpInfo
<1>5. faults \in Nat /\ faults' = faults /\ harm' = harm /\ dev' = dev
  BY <1>1, StreamNumbers
<1>6. CASE ret # "done"
  <2>1. io' = io /\ ~WriteDone
    BY <1>1, <1>3, <1>6
  <2>2. WriteDone' = WriteDone
    BY <1>3, <2>1 DEF WriteDone, At
  <2>3. Discards = 2
    BY <1>1, <1>2, <1>3, <2>1 DEF Discards
  <2>4. Discards' <= Discards
    BY <2>3, DiscardRange
  <2>5. ToggleKnown'
    BY <1>1, <1>2, <2>1 DEF StreamInv, ToggleKnown
  <2>6. /\ faults' \in Nat /\ faults' >= faults /\ io'.out = io.out /\ io'.taken = io.taken
        /\ dev'.got = dev.got /\ dev'.next = dev.next /\ harm' = harm
    BY <1>5, <2>1
  <2> QED
    BY <1>2, <2>2, <2>4, <2>5, <2>6, StreamKept
<1>7. CASE ret = "done"
  <2>1. io.out < io.goal
    <3>1. stack[Len(stack)] = Top
      BY <1>1 DEF Top
    <3> QED
      BY <1>1, <3>1 DEF DbgpTypes, WriteLeft
  <2>2. /\ io \in [out : 0..MaxOut, goal : 0..MaxOut, taken : Seq(1..MaxIn)]
        /\ io.out \in 0..MaxOut /\ io.goal \in 0..MaxOut
    BY DEF DbgpTypes, DbgpTypeOK
  <2>3. io.out < MaxOut
    BY <2>1, <2>2, AskedBounds
  <2>4. io'.out = io.out + 1 /\ io'.taken = io.taken
    BY <1>1, <1>7, <2>2
  <2> DEFINE r == Repeated(dev.got)
             m == Cardinality(Missing)
             n == Cardinality(Missing')
             u == B2N(~Delivered)
             c == Differ(drv.wr_toggle, dev.tog)
  <2>5. n = m + u
    BY <1>1, <2>3, <2>4, MissingNext
  <2>6. Discards = c + u
    BY <1>1, <1>2, <1>3, <1>7 DEF Discards
  <2>7. Discards' = c
    BY <1>1, <1>2, <1>3, <1>4, <1>7 DEF Discards, Top
  <2>8. io.out \in Nat /\ r \in Int /\ m \in Nat /\ u \in {0, 1} /\ c \in {0, 1}
        /\ dev.got \in Seq(1..MaxOut) /\ MaxOut \in Nat /\ harm \in Nat
    BY <2>2, StreamNumbers, BitRange DEF Differ
  <2>9. ~Delivered'
    <3>1. \A i \in 1..Len(dev.got) : dev.got[i] <= io.out + 1 /\ dev.got[i] \in Int
      BY <2>8, SeqElement DEF StreamInv, Ordered
    <3>2. \A y \in ToSet(dev.got) : y <= io.out + 1 /\ y \in Int
      BY <2>8, <3>1 DEF ToSet
    <3>3. io.out + 1 + 1 \notin ToSet(dev.got)
      BY <2>8, <3>2
    <3> QED
      BY <1>1, <2>4, <3>3 DEF Delivered
  <2>10. B2N(Delivered /\ ~WriteDone)' = 0 /\ B2N(Delivered /\ ~WriteDone) = 0
    BY <1>3, <1>7, <2>9 DEF B2N
  <2>11. /\ r <= faults /\ (harm < HarmCap => r <= harm)
         /\ harm < HarmCap => m + Discards <= 2 * harm
    BY <2>8, <2>10 DEF StreamInv, RepeatedOut, MissingOut
  <2>12. Ordered'
    <3>1. \A i \in 1..Len(dev.got) : dev.got[i] <= (io.out + 1) + 1
      <4> SUFFICES ASSUME NEW i \in 1..Len(dev.got) PROVE dev.got[i] <= (io.out + 1) + 1
        OBVIOUS
      <4>1. dev.got[i] <= io.out + 1 /\ dev.got[i] \in Int
        BY <2>8, SeqElement DEF StreamInv, Ordered
      <4> QED
        BY <2>8, <4>1
    <3> QED
      BY <1>1, <2>4, <3>1 DEF StreamInv, Ordered
  <2>13. ToggleKnown'
    BY <1>1, <2>4, <2>8 DEF StreamInv, ToggleKnown
  <2>14. RepeatedIn'
    BY <1>1, <2>4 DEF StreamInv, RepeatedIn
  <2>15. Repeated(dev.got)' = r /\ B2N(WriteFailing)' = 0
    BY <1>1, <1>2 DEF B2N
  <2> HIDE DEF r, m, n, u, c
  <2>16. RepeatedOut'
    BY <1>5, <2>8, <2>10, <2>11, <2>15 DEF RepeatedOut
  <2>17. MissingOut'
    <3>1. harm < HarmCap => n + c <= 2 * harm
      BY <2>5, <2>6, <2>8, <2>11
    <3> QED
      BY <1>1, <2>7, <3>1 DEF MissingOut, n
  <2> QED
    BY <2>12, <2>13, <2>14, <2>16, <2>17 DEF StreamInv
<1> QED
  BY <1>6, <1>7

LEMMA StreamCalls ==
  ASSUME DbgpTypes, StreamInv, dbgp_write_returns \/ dbgp_read \/ Vmm
  PROVE  StreamInv'
<1>1. /\ io'.out = io.out /\ io'.taken = io.taken /\ dev' = dev /\ drv' = drv
      /\ harm' = harm /\ faults' = faults
  <2>1. io \in [out : 0..MaxOut, goal : 0..MaxOut, taken : Seq(1..MaxIn)]
    BY DEF DbgpTypes, DbgpTypeOK
  <2>2. \A g : io' = [io EXCEPT !.goal = g] => io'.out = io.out /\ io'.taken = io.taken
    BY <2>1
  <2> QED
    BY <2>2, WriteReturnSteps, ReadSteps, VmmCalls DEF Aside, Vmm
<1>2. NoWrite /\ NoWrite'
  <2>1. CASE dbgp_write_returns
    <3>1. Top.fn = "write" /\ Top.at = "call" /\ stack' = <<>> /\ Len(stack) = 1
      BY <2>1, WriteReturnSteps
    <3> QED
      BY <3>1 DEF NoWrite, Writing, At, Top
  <2>2. CASE dbgp_read
    <3>1. /\ stack # <<>> /\ Top.fn = "read" /\ Len(stack) = 1
          /\ \/ PacketSent("IN", 0)
             \/ Moved /\ stack'[1].fn = "read"
             \/ stack' = <<>>
      BY <2>2, ReadSteps
    <3>2. NoWrite
      BY <3>1 DEF NoWrite, Writing, At
    <3>3. CASE PacketSent("IN", 0)
      <4>1. Len(stack') = 2 /\ stack'[2].fn = "read" /\ stack' # <<>> /\ stack'[1].fn = "emit"
        BY <3>1, <3>3 DEF PacketSent, Called, Pushes
      <4> QED
        BY <3>2, <4>1 DEF NoWrite, Writing, At, Top
    <3>4. CASE Moved /\ stack'[1].fn = "read"
      <4>1. Len(stack') = 1
        BY <3>1, <3>4 DEF Moved, Steps
      <4> QED
        BY <3>2, <3>4, <4>1 DEF NoWrite, Writing, At, Top
    <3>5. CASE stack' = <<>>
      BY <3>2, <3>5 DEF NoWrite, Writing, At, Top
    <3> QED
      BY <3>1, <3>3, <3>4, <3>5
  <2>3. CASE Vmm
    <3>1. /\ stack = <<>> /\ Len(stack') = 1 /\ stack' # <<>>
          /\ stack'[1].fn \in {"write", "read"} /\ stack'[1].at = "call"
      BY <2>3, VmmCalls DEF Vmm
    <3> QED
      BY <3>1 DEF NoWrite, Writing, At, Top
  <2> QED
    BY <2>1, <2>2, <2>3
<1>3. faults \in Nat
  BY StreamNumbers
<1> QED
  BY <1>1, <1>2, <1>3, IdleStep

\* The stream is kept by every step, and starts empty.
LEMMA StreamStep ==
  ASSUME DbgpTypes, AddressInv, StreamInv, [DbgpNext]_dbgpvars
  PROVE  StreamInv'
<1>1. PortEnabled
  BY DEF AddressInv
<1>2. CASE Environment
  <2>1. DbgpTypes'
    BY <1>1, DbgpTypesStep
  <2> QED
    BY <1>2, <2>1, StreamEnvironment
<1>3. CASE dbgpvars' = dbgpvars
  <2>1. stack' = stack /\ ret' = ret /\ dev' = dev /\ drv' = drv /\ io' = io
        /\ harm' = harm /\ faults' = faults
    BY <1>3 DEF dbgpvars
  <2>2. Discards' = Discards /\ WriteDone' = WriteDone /\ WriteFailing' = WriteFailing
    BY <2>1 DEF Discards, WriteDone, WriteFailing, At, Top, Delivered, Differ, AfterPacket
  <2>3. ToggleKnown'
    BY <2>1, <2>2 DEF StreamInv, ToggleKnown
  <2>4. faults \in Nat /\ Discards' <= Discards
    BY <2>2, StreamNumbers, DiscardRange
  <2> QED
    BY <2>1, <2>2, <2>3, <2>4, StreamKept
<1> QED
  BY <1>1, <1>2, <1>3, StreamInit, StreamConfigure, StreamEmit, StreamWrite, StreamRw, StreamCalls
     DEF DbgpNext, Driver, CallSteps, Panicked

LEMMA StreamInvInit ==
  ASSUME DbgpInit
  PROVE  StreamInv
<1>1. /\ dev.got = <<>> /\ dev.next = 1 /\ dev.tog = 0 /\ io.out = 0 /\ io.taken = <<>>
      /\ drv.wr_toggle = 1 /\ drv.status = TRUE /\ harm = 0 /\ faults = 0 /\ ret = "none"
  BY DEF DbgpInit
<1>2. ~Writing(stack) /\ (stack # <<>> => Top.fn \notin {"panic", "write"})
  <2>1. CASE stack = <<[fn |-> "fast_init", at |-> "port_reset"]>>
    BY <2>1 DEF Writing, Top
  <2>2. CASE stack = <<full_init, [fn |-> "boot", at |-> "wait"]>>
    BY <2>2 DEF Writing, Top, full_init
  <2> QED
    BY <2>1, <2>2 DEF DbgpInit
<1>3. Discards = 0 /\ ~WriteDone /\ ~WriteFailing
  BY <1>1, <1>2 DEF Discards, WriteDone, WriteFailing, At, Differ, B2N
<1>4. ToSet(dev.got) = {} /\ ToSet(io.taken) = {} /\ Missing = {} /\ Cardinality({}) = 0
  BY <1>1, FS_EmptySet DEF ToSet, Missing
<1>5. Repeated(dev.got) = 0 /\ Repeated(io.taken) = 0
  <2>1. Len(dev.got) = 0 /\ Len(io.taken) = 0
    BY <1>1
  <2> QED
    BY <1>4, <2>1 DEF Repeated
<1>6. Ordered /\ ToggleKnown
  BY <1>1 DEF Ordered, ToggleKnown
<1>7. B2N(Delivered /\ ~WriteDone) = 0 /\ B2N(dev.next \in ToSet(io.taken)) = 0
      /\ B2N(WriteFailing) = 0
  BY <1>3, <1>4 DEF B2N, Delivered
<1>8. RepeatedOut /\ RepeatedIn /\ MissingOut
  BY <1>1, <1>3, <1>4, <1>5, <1>7 DEF RepeatedOut, RepeatedIn, MissingOut
<1> QED
  BY <1>6, <1>8 DEF StreamInv

\* The damage is what the invariant counts; when the count is full, the
\* faults bound it.
LEMMA DamageKept ==
  ASSUME DbgpTypes, StreamInv
  PROVE  DamageBounded
<1> DEFINE r == Repeated(dev.got)
           q == Repeated(io.taken)
           m == Cardinality(Missing)
           b == B2N(Delivered /\ ~WriteDone)
           e == B2N(dev.next \in ToSet(io.taken))
           d == Discards
<1>1. /\ r \in Int /\ q \in Int /\ m \in Nat /\ m <= io.out /\ io.out \in 0..MaxOut
      /\ faults \in 0..MaxFaults /\ harm \in 0..HarmCap /\ HarmCap = MaxOut + MaxFaults
      /\ MaxOut \in Nat /\ MaxFaults \in Nat
      /\ b \in {0, 1} /\ e \in {0, 1} /\ d \in 0..2
  BY StreamNumbers, BitRange, DiscardRange
<1>2. /\ r + b <= faults /\ (harm < HarmCap => r <= harm)
      /\ q + e <= faults /\ (harm < HarmCap => q + e <= harm)
      /\ harm < HarmCap => m + d <= 2 * harm
  BY DEF StreamInv, RepeatedOut, RepeatedIn, MissingOut
<1> HIDE DEF r, q, m, b, e, d
<1>3. m <= 2 * harm /\ r <= harm /\ q <= harm
  <2>1. CASE harm < HarmCap
    BY <1>1, <1>2, <2>1
  <2>2. CASE harm = HarmCap
    BY <1>1, <1>2, <2>2
  <2> QED
    BY <1>1, <2>1, <2>2
<1> QED
  BY <1>3 DEF DamageBounded, StreamInv, Ordered, Repeated, Missing, r, q, m

\* What a transfer that failed may cost the streams (__dbgp_write,
\* __dbgp_emit and the resets of the device).
THEOREM DamageSafe == DbgpSpec => []DamageBounded
<1>1. DbgpInit => DbgpTypes /\ AddressInv /\ StreamInv
  BY DbgpTypesInit, AddressInvInit, StreamInvInit
<1>2. DbgpTypes /\ AddressInv /\ StreamInv /\ [DbgpNext]_dbgpvars
      => DbgpTypes' /\ AddressInv' /\ StreamInv'
  BY DbgpTypesStep, AddressStep, StreamStep DEF AddressInv
<1>3. DbgpTypes /\ StreamInv => DamageBounded
  BY DamageKept
<1> QED
  BY <1>1, <1>2, <1>3, PTL DEF DbgpSpec

=============================================================================
