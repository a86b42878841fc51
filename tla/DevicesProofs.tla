---------------------------- MODULE DevicesProofs ----------------------------
(***************************************************************************)
(* Theorems about Devices, for any number of entries in the memory map and *)
(* any nesting of real mode interrupts; and, from the section on induction *)
(* on, about StringIo and the memory of the guest, for any set of frames,  *)
(* page tables, control bits and instructions, and buffers of any size.    *)
(***************************************************************************)
EXTENDS Devices, StringIo, WellFoundedInduction, TLAPS

(***************************************************************************)
(* The ports                                                               *)
(***************************************************************************)
LEMMA PortsAre ==
  /\ ToSet(PortOrder) = {"PIC_CMD", "PIC_DATA", "SIO_INDEX", "SIO_DATA", "KBD_DATA",
                         "KBD_CTRL", "PS2", "PIC2", "PCI_ADDR", "PCI_DATA",
                         "PCI_DATA_HI", "PM1"}
  /\ KbdPorts = {"KBD_DATA", "KBD_CTRL"}
  /\ ReleasedPorts = {"PIC_CMD", "PIC_DATA", "SIO_INDEX", "SIO_DATA", "KBD_DATA",
                      "KBD_CTRL", "PS2", "PIC2"}
  /\ PortRange("PIC_CMD", "PIC_DATA") = {"PIC_CMD", "PIC_DATA"}
<1>1. DOMAIN PortOrder = 1..12
  BY DEF PortOrder
<1>2. 1..12 = {1, 2, 3, 4, 5, 6, 7, 8, 9, 10, 11, 12}
  OBVIOUS
<1>3. /\ PortOrder[1] = "PIC_CMD" /\ PortOrder[2] = "PIC_DATA" /\ PortOrder[3] = "SIO_INDEX"
      /\ PortOrder[4] = "SIO_DATA" /\ PortOrder[5] = "KBD_DATA" /\ PortOrder[6] = "KBD_CTRL"
      /\ PortOrder[7] = "PS2" /\ PortOrder[8] = "PIC2" /\ PortOrder[9] = "PCI_ADDR"
      /\ PortOrder[10] = "PCI_DATA" /\ PortOrder[11] = "PCI_DATA_HI"
      /\ PortOrder[12] = "PM1"
  BY DEF PortOrder
<1>4. ToSet(PortOrder) = {PortOrder[i] : i \in 1..12}
  BY <1>1 DEF ToSet
<1>5. ASSUME NEW x \in 1..12, NEW y \in 1..12
      PROVE  PortRange(PortOrder[x], PortOrder[y]) = {PortOrder[i] : i \in x..y}
  <2>1. \A u, v \in 1..12 : PortOrder[u] = PortOrder[v] => u = v
    BY <1>2, <1>3
  <2>2. {j \in 1..12 : \E u, v \in 1..12 : /\ PortOrder[u] = PortOrder[x]
                                           /\ PortOrder[v] = PortOrder[y]
                                           /\ u <= j /\ j <= v} = x..y
    BY <2>1
  <2> QED
    BY <1>1, <2>2 DEF PortRange
<1>6. /\ 5..6 = {5, 6} /\ 1..2 = {1, 2} /\ 1..8 = {1, 2, 3, 4, 5, 6, 7, 8}
  OBVIOUS
<1>7. KbdPorts = {PortOrder[i] : i \in 5..6}
  BY <1>3, <1>5 DEF KbdPorts
<1>8. ReleasedPorts = {PortOrder[i] : i \in 1..8}
  BY <1>3, <1>5 DEF ReleasedPorts
<1>9. PortRange("PIC_CMD", "PIC_DATA") = {PortOrder[i] : i \in 1..2}
  BY <1>3, <1>5
<1> QED
  BY <1>2, <1>3, <1>4, <1>6, <1>7, <1>8, <1>9

(***************************************************************************)
(* The port devices                                                        *)
(***************************************************************************)

LEMMA BiosUntouched == BiosInv /\ UNCHANGED biosvars => BiosInv'
BY DEF BiosInv, BiosTypeOK, LoopInv, RealModeServed, biosvars

\* What every exit does to the devices: the index of the Super I/O moves, and
\* COM1 is on again.
LEMMA AtExitIs ==
  ASSUME PortTypeOK
  PROVE  /\ AtExit \in HwRegs
         /\ AtExit.com1 = "1" /\ AtExit.idx = "0"
         /\ AtExit.addr = hw.addr /\ AtExit.card = hw.card /\ AtExit.chosen = hw.chosen
BY DEF PortTypeOK, HwRegs, AtExit, sio_check_com1

\* Where the handler changes neither the traps nor what the filters read.
LEMMA DevicesUntouched ==
  ASSUME PortInv, trap' = trap, dev'.sio_filter = dev.sio_filter,
         dev'.pci_filter = dev.pci_filter, hw'.com1 = "1", hw'.addr = hw.addr,
         hw'.card = hw.card, hw'.chosen = hw.chosen, seen' = seen, oddaddr' = oddaddr,
         diverted => diverted'
  PROVE  PciInv' /\ SioInv' /\ DevicesKept'
BY DEF PortInv, PciInv, SioInv, DevicesKept

\* The accesses behind the first: no address reaches the bridge by the data port
\* nor by those of the Super I/O, and the card takes commands only by its own.
LEMMA HwOutsIs ==
  ASSUME NEW h \in HwRegs, NEW p \in {"SIO_INDEX", "SIO_DATA", "PCI_ADDR", "PCI_DATA"},
         NEW v \in Values(p), NEW rest \in Rests(p)
  PROVE  /\ HwOut(h, p, v) \in HwRegs /\ HwOuts(h, p, v, rest) \in HwRegs
         /\ p # "PCI_ADDR" => HwOuts(h, p, v, rest).addr = h.addr
         /\ p # "PCI_DATA" => HwOuts(h, p, v, rest).card = h.card
         /\ p \in {"PCI_ADDR", "PCI_DATA"} => /\ HwOuts(h, p, v, rest).com1 = h.com1
                                             /\ HwOuts(h, p, v, rest).chosen = h.chosen
<1>1. ASSUME NEW g \in HwRegs, NEW q \in {"SIO_INDEX", "SIO_DATA", "PCI_ADDR", "PCI_DATA"},
             NEW w \in Values(q)
      PROVE  /\ HwOut(g, q, w) \in HwRegs
             /\ q # "PCI_ADDR" => HwOut(g, q, w).addr = g.addr
             /\ q # "PCI_DATA" => HwOut(g, q, w).card = g.card
             /\ q \in {"PCI_ADDR", "PCI_DATA"} => /\ HwOut(g, q, w).com1 = g.com1
                                                 /\ HwOut(g, q, w).chosen = g.chosen
  <2>1. /\ q = "PCI_ADDR" => w \in PciAddrs
        /\ q = "PCI_DATA" => w \in CardCmds
        /\ q \in {"SIO_INDEX", "SIO_DATA"} => w \in {"0", "1"}
    BY DEF Values
  <2>2. CASE q = "PCI_ADDR"
    BY <2>1, <2>2 DEF HwOut, HwRegs, PciAddrs
  <2>3. CASE q = "PCI_DATA"
    BY <2>1, <2>3 DEF HwOut, HwRegs
  <2>4. CASE q = "SIO_INDEX"
    BY <2>1, <2>4 DEF HwOut, HwRegs
  <2>5. CASE q = "SIO_DATA"
    BY <2>1, <2>5 DEF HwOut, HwRegs
  <2> QED
    BY <2>2, <2>3, <2>4, <2>5
<1>2. CASE rest = NoRest
  BY <1>1, <1>2 DEF HwOuts
<1>3. CASE rest # NoRest
  <2>a. \E q \in {"SIO_INDEX", "SIO_DATA", "PCI_ADDR", "PCI_DATA"} : \E w \in Values(q) :
          /\ rest = [port |-> q, v |-> w]
          /\ q = p \/ (p = "SIO_INDEX" /\ q = "SIO_DATA")
    BY <1>3 DEF Rests
  <2>b. PICK q \in {"SIO_INDEX", "SIO_DATA", "PCI_ADDR", "PCI_DATA"} : \E w \in Values(q) :
          /\ rest = [port |-> q, v |-> w]
          /\ q = p \/ (p = "SIO_INDEX" /\ q = "SIO_DATA")
    BY <2>a
  <2>1. PICK w \in Values(q) :
          /\ rest = [port |-> q, v |-> w]
          /\ q = p \/ (p = "SIO_INDEX" /\ q = "SIO_DATA")
    BY <2>b
  <2>2. HwOuts(h, p, v, rest) = HwOut(HwOut(h, p, v), q, w)
    BY <1>3, <2>1 DEF HwOuts
  <2> QED
    BY <1>1, <2>1, <2>2
<1> QED
  BY <1>1, <1>2, <1>3

LEMMA KbdStep ==
  ASSUME PortInv, NEW in \in BOOLEAN, NEW p \in {"KBD_CTRL", "KBD_DATA"}, NEW v \in Values(p),
         p = "KBD_CTRL" => __dev_kbd_ctrl(AtExit, in, v),
         p = "KBD_DATA" => __dev_kbd_data(AtExit, in, v),
         diverted' \in BOOLEAN, diverted => diverted'
  PROVE  PortInv'
<1>1. v \in (IF p = "KBD_CTRL" THEN KbdCmds ELSE OutputPort)
  BY DEF Values
<1>2. PortTypeOK'
  <2>1. dev' \in DevRegs
    BY <1>1 DEF PortInv, PortTypeOK, DevRegs, __dev_kbd_ctrl, __dev_kbd_data, dev_a20_set
  <2>2. hw' \in HwRegs
    BY <1>1, AtExitIs
       DEF PortInv, HwRegs, __dev_kbd_ctrl, __dev_kbd_data, HwOut, OutputPort, KbdCmds
  <2> QED
    BY <2>1, <2>2 DEF PortInv, PortTypeOK, __dev_kbd_ctrl, __dev_kbd_data
<1>3. PciInv' /\ SioInv' /\ DevicesKept'
  <2>1. PortTypeOK /\ dev \in DevRegs
    BY DEF PortInv, PortTypeOK
  <2>2. trap' = trap /\ seen' = seen /\ oddaddr' = oddaddr
    BY DEF __dev_kbd_ctrl, __dev_kbd_data
  <2>3. dev'.sio_filter = dev.sio_filter /\ dev'.pci_filter = dev.pci_filter
    BY <2>1 DEF DevRegs, __dev_kbd_ctrl, __dev_kbd_data, dev_a20_set
  <2>4. \E b : hw' = AtExit \/ hw' = HwOut(AtExit, p, b)
    BY DEF __dev_kbd_ctrl, __dev_kbd_data
  <2>5. hw'.com1 = "1" /\ hw'.addr = hw.addr /\ hw'.card = hw.card /\ hw'.chosen = hw.chosen
    BY <2>1, <2>4, AtExitIs DEF HwRegs, HwOut
  <2> QED
    BY <2>2, <2>3, <2>5, DevicesUntouched
<1> QED
  BY <1>2, <1>3 DEF PortInv

LEMMA Ps2Step ==
  ASSUME PortInv, NEW in \in BOOLEAN, NEW v \in Values("PS2"), dev_ps2(AtExit, in, v),
         diverted' \in BOOLEAN, diverted => diverted', dsts = "run"
  PROVE  PortInv'
<1>1. v \in Ps2Bytes
  BY DEF Values
<1>2. PortTypeOK'
  <2>1. dev' \in DevRegs
    BY <1>1 DEF PortInv, PortTypeOK, DevRegs, dev_ps2, dev_a20_set, OutputPort, Ps2Bytes
  <2>2. hw' \in HwRegs /\ dsts' \in {"run", "dead"}
    BY AtExitIs DEF PortInv, dev_ps2
  <2> QED
    BY <2>1, <2>2 DEF PortInv, PortTypeOK, dev_ps2
<1>3. PciInv' /\ SioInv' /\ DevicesKept'
  BY AtExitIs, DevicesUntouched DEF PortInv, PortTypeOK, DevRegs, HwRegs, dev_ps2, dev_a20_set
<1> QED
  BY <1>2, <1>3 DEF PortInv

LEMMA PicStep ==
  ASSUME PortInv, NEW p, NEW v, PicWrite(AtExit, p, v),
         diverted' \in BOOLEAN, diverted => diverted'
  PROVE  PortInv'
<1>1. PortTypeOK'
  <2>1. PortTypeOK /\ AtExit \in HwRegs
    BY AtExitIs DEF PortInv
  <2>2. dev' \in DevRegs
    BY <2>1 DEF PortTypeOK, DevRegs, PicWrite, __io_pic_detect
  <2> QED
    BY <2>1, <2>2 DEF PortTypeOK, PicWrite, __io_pic_detect
<1>2. trap' = trap \/ trap' = trap \ ReleasedPorts
  BY DEF PicWrite, __io_pic_detect
<1>3. /\ dev'.sio_filter = dev.sio_filter /\ dev'.pci_filter = dev.pci_filter
      /\ hw' = AtExit /\ seen' = seen /\ oddaddr' = oddaddr
  BY DEF PortInv, PortTypeOK, DevRegs, HwRegs, PicWrite, __io_pic_detect
<1>4. PciInv' /\ SioInv' /\ DevicesKept'
  BY <1>2, <1>3, AtExitIs, PortsAre DEF PortInv, PciInv, SioInv, DevicesKept
<1> QED
  BY <1>1, <1>4 DEF PortInv

LEMMA SioStep ==
  ASSUME PortInv, NEW in \in BOOLEAN, NEW p \in {"SIO_INDEX", "SIO_DATA"} \cap trap,
         NEW v \in Values(p), NEW rest \in Rests(p), dev_sio(AtExit, p, in, v, rest),
         diverted' \in BOOLEAN, ~in /\ rest # NoRest => diverted', diverted => diverted'
  PROVE  PortInv'
<1> DEFINE w == IF p = "SIO_DATA" /\ dev.sio_filter = "com1" THEN "1" ELSE v
<1>1. v \in {"0", "1"} /\ w \in Values(p) /\ SioInv /\ dev \in DevRegs
  BY DEF Values, PortInv, PortTypeOK
<1>2. /\ hw' = IF in THEN AtExit ELSE HwOuts(AtExit, p, w, rest)
      /\ UNCHANGED <<seen, pmode, oddaddr, dsts>>
  BY DEF dev_sio, __dev_sio_filter_com1
<1>3. /\ hw' \in HwRegs /\ hw'.addr = hw.addr /\ hw'.card = hw.card
  BY <1>1, <1>2, HwOutsIs, AtExitIs DEF PortInv
<1>4. /\ dev'.pci_filter = dev.pci_filter /\ dev' \in DevRegs
      /\ "PCI_ADDR" \in trap' <=> "PCI_ADDR" \in trap
      /\ "PCI_DATA" \in trap' <=> "PCI_DATA" \in trap
      /\ trap' \subseteq ToSet(PortOrder)
  BY <1>1, PortsAre DEF dev_sio, __dev_sio_filter_index, DevRegs, PortInv, PortTypeOK
<1>5. PortTypeOK'
  BY <1>2, <1>3, <1>4 DEF PortInv, PortTypeOK
<1>6. hw'.com1 = "1" \/ diverted'
  <2>1. CASE in
    BY <1>2, <2>1, AtExitIs DEF PortInv
  <2>2. CASE ~in /\ rest = NoRest
    <3>1. hw' = HwOut(AtExit, p, w)
      BY <1>2, <2>2 DEF HwOuts
    <3>2. CASE p = "SIO_INDEX"
      BY <3>1, <3>2, AtExitIs DEF HwOut, HwRegs, PortInv
    <3>3. CASE p = "SIO_DATA"
      <4>1. w = "1"
        BY <1>1, <3>3 DEF SioInv
      <4> QED
        BY <3>1, <3>3, <4>1, AtExitIs DEF HwOut, HwRegs, PortInv
    <3> QED
      BY <3>2, <3>3
  <2> QED
    BY <2>1, <2>2
<1>7. SioInv'
  <2>1. CASE p = "SIO_INDEX"
    <3> DEFINE i == IF in THEN AtExit.idx ELSE v
    <3>1. /\ trap' = IF i = "0" THEN trap \cup {"SIO_DATA"} ELSE trap \ {"SIO_DATA"}
          /\ dev' = [dev EXCEPT !.sio_filter = IF i = "0" THEN "com1" ELSE "index"]
      BY <2>1 DEF dev_sio, __dev_sio_filter_index
    <3>2. AtExit \in HwRegs /\ AtExit.idx = "0"
      BY AtExitIs DEF PortInv, PortTypeOK
    <3>3. dev'.sio_filter = IF i = "0" THEN "com1" ELSE "index"
      <4> HIDE DEF i
      <4> QED
        BY <1>1, <3>1 DEF DevRegs
    <3>4. in => hw'.chosen = hw.chosen
      BY <1>2, AtExitIs DEF PortInv
    <3>5. ~in /\ rest = NoRest => hw'.chosen = v
      BY <1>1, <1>2, <2>1, <3>2 DEF HwOuts, HwOut, HwRegs
    <3> QED
      BY <1>1, <2>1, <3>1, <3>2, <3>3, <3>4, <3>5 DEF SioInv
  <2>2. CASE p = "SIO_DATA"
    BY <2>2 DEF PortInv, SioInv, dev_sio
  <2> QED
    BY <2>1, <2>2
<1> QED
  BY <1>2, <1>3, <1>4, <1>5, <1>6, <1>7 DEF PortInv, PciInv, DevicesKept

LEMMA PciStep ==
  ASSUME PortInv, NEW in \in BOOLEAN, NEW cut \in BOOLEAN,
         NEW p \in {"PCI_ADDR", "PCI_DATA"} \cap trap,
         NEW v \in Values(p), NEW rest \in Rests(p), dev_pci(AtExit, p, in, v, cut, rest),
         diverted' \in BOOLEAN, diverted => diverted'
  PROVE  PortInv'
<1>a. AtExit.addr = hw.addr /\ hw.addr \in PciRegs /\ AtExit \in HwRegs /\ AtExit.com1 = "1"
      /\ AtExit.card = hw.card /\ AtExit.chosen = hw.chosen
  BY AtExitIs DEF PortInv, PortTypeOK, HwRegs
<1>1. CASE p = "PCI_ADDR"
  <2>1. v \in PciAddrs
    BY <1>1 DEF Values
  <2>2. PICK a \in PciAddrs :
          /\ ~cut => a = IF in THEN [reg |-> hw.addr, low |-> 0] ELSE v
          /\ __dev_pci_filter_addr(a)
    BY <1>1, <1>a DEF dev_pci
  <2>3. /\ hw' = IF in \/ cut THEN AtExit ELSE HwOuts(AtExit, p, v, rest)
        /\ oddaddr' = (oddaddr \/ cut \/ (~in /\ (v.low # 0 \/ rest # NoRest)))
        /\ seen' = seen /\ UNCHANGED <<pmode, dsts>>
    BY <1>1 DEF dev_pci
  <2>4. PciFilter(a) \in {"none", "net_dvd", "net_cmd", "ehci_dvd"}
    BY <2>2 DEF PciFilter, PciAddrs, PciRegs
  <2>5. hw' \in HwRegs /\ hw'.com1 = "1" /\ hw'.card = hw.card /\ hw'.chosen = hw.chosen
    BY <1>1, <1>a, <2>3, HwOutsIs
  <2>6. PortTypeOK'
    <3>1. dev' \in DevRegs /\ dev'.sio_filter = dev.sio_filter
      BY <2>2, <2>4 DEF PortInv, PortTypeOK, DevRegs, __dev_pci_filter_addr
    <3>2. trap' \subseteq ToSet(PortOrder)
      BY <2>2, PortsAre DEF PortInv, PortTypeOK, __dev_pci_filter_addr
    <3>3. oddaddr' \in BOOLEAN
      BY <2>3 DEF PortInv, PortTypeOK
    <3> QED
      BY <2>3, <2>5, <3>1, <3>2, <3>3 DEF PortInv, PortTypeOK
  <2>7. SioInv'
    BY <2>2, <2>5 DEF PortInv, PortTypeOK, DevRegs, SioInv, __dev_pci_filter_addr
  <2>8. PciInv'
    <3>1. "PCI_ADDR" \in trap'
      BY <1>1, <2>2 DEF __dev_pci_filter_addr
    <3>2. ASSUME ~oddaddr', hw'.addr # "other"
          PROVE  "PCI_DATA" \in trap' /\ dev'.pci_filter = hw'.addr
      <4>1. /\ ~cut
            /\ ~in => v.low = 0 /\ rest = NoRest
        BY <2>3, <3>2
      <4>2. a.low = 0 /\ a.reg = hw'.addr /\ a.reg \in PciRegs
        <5>1. CASE in
          BY <1>a, <2>2, <2>3, <4>1, <5>1
        <5>2. CASE ~in
          <6>1. hw' = [AtExit EXCEPT !.addr = v.reg] /\ a = v
            BY <1>1, <2>2, <2>3, <4>1, <5>2 DEF HwOuts, HwOut
          <6> QED
            BY <1>a, <2>1, <4>1, <5>2, <6>1 DEF HwRegs, PciAddrs
        <5> QED
          BY <5>1, <5>2
      <4>3. PciFilter(a) = a.reg /\ a.reg # "none"
        BY <3>2, <4>2 DEF PciFilter, PciRegs
      <4> QED
        BY <2>2, <4>2, <4>3 DEF __dev_pci_filter_addr, PortInv, PortTypeOK, DevRegs
    <3> QED
      BY <3>1, <3>2 DEF PciInv
  <2>9. DevicesKept'
    BY <2>3, <2>5 DEF PortInv, DevicesKept, PortTypeOK
  <2> QED
    BY <2>6, <2>7, <2>8, <2>9 DEF PortInv
<1>2. CASE p = "PCI_DATA"
  <2> DEFINE w == IF dev.pci_filter = "net_cmd" THEN "1" ELSE v
  <2>1. v \in CardCmds /\ w \in Values(p)
    BY <1>2 DEF Values, CardCmds
  <2>2. trap' = trap /\ dev' = dev /\ UNCHANGED <<pmode, dsts>>
        /\ oddaddr' = (oddaddr \/ rest # NoRest)
    BY <1>2 DEF dev_pci
  <2>3. hw' = IF in THEN AtExit ELSE HwOuts(AtExit, p, w, rest)
    BY <1>2 DEF dev_pci, __dev_pci_filter_cmd_sts_e1000
  <2>4. /\ hw'.com1 = "1" /\ hw'.addr = hw.addr /\ hw'.chosen = hw.chosen
        /\ hw' \in HwRegs
    <3>1. CASE in
      BY <1>a, <2>3, <3>1
    <3>2. CASE ~in
      BY <1>2, <1>a, <2>1, <2>3, <3>2, HwOutsIs
    <3> QED
      BY <3>1, <3>2
  <2>5. ~oddaddr' => hw'.card = "1"
    <3>1. ~oddaddr /\ hw.addr = "net_cmd" => dev.pci_filter = "net_cmd"
      BY DEF PortInv, PciInv
    <3>2. rest = NoRest /\ ~in
          => hw' = [AtExit EXCEPT !.card = IF hw.addr = "net_cmd" THEN w ELSE @]
      BY <1>2, <1>a, <2>3 DEF HwOut, HwOuts
    <3>3. rest = NoRest /\ ~in => hw'.card = IF hw.addr = "net_cmd" THEN w ELSE hw.card
      BY <1>a, <3>2 DEF HwRegs
    <3> QED
      BY <1>a, <2>2, <2>3, <3>1, <3>3 DEF PortInv, DevicesKept
  <2>6. seen' = seen \/ seen' \in {"id", "data", "invalid"}
    BY <1>2 DEF dev_pci, PciData, __dev_pci_filter_dvd
  <2>7. ~oddaddr' => seen' # "id"
    BY <1>2, <1>a, <2>2
       DEF dev_pci, PciData, __dev_pci_filter_dvd, PortInv, PciInv, DevicesKept
  <2>8. PortTypeOK'
    BY <2>2, <2>4, <2>6 DEF PortInv, PortTypeOK
  <2> QED
    BY <2>2, <2>4, <2>5, <2>7, <2>8 DEF PortInv, PciInv, SioInv, DevicesKept
<1> QED
  BY <1>1, <1>2

LEMMA ModeStep ==
  ASSUME PortInv, hw' = AtExit, vm_enter_pmode \/ vm_enter_rmode \/ UNCHANGED <<trap, pmode>>,
         UNCHANGED <<dev, seen, oddaddr>>, dsts' \in {"run", "dead"},
         diverted' \in BOOLEAN, diverted => diverted'
  PROVE  PortInv'
<1>1. PortTypeOK'
  <2>1. trap' \subseteq ToSet(PortOrder) /\ pmode' \in BOOLEAN
    BY PortsAre DEF PortInv, PortTypeOK, vm_enter_pmode, vm_enter_rmode
  <2> QED
    BY <2>1, AtExitIs DEF PortInv, PortTypeOK
<1>2. \A q \in {"PCI_ADDR", "PCI_DATA", "SIO_INDEX", "SIO_DATA"} : q \in trap' <=> q \in trap
  BY PortsAre DEF vm_enter_pmode, vm_enter_rmode
<1> QED
  BY <1>1, <1>2, AtExitIs DEF PortInv, PciInv, SioInv, DevicesKept

LEMMA AcpiStep ==
  ASSUME PortInv, NEW in, NEW v, dev_acpi_pm1_ctl(AtExit, in, v), dsts = "run",
         diverted' \in BOOLEAN, diverted => diverted'
  PROVE  PortInv'
<1>1. /\ hw' = AtExit /\ UNCHANGED <<dev, seen, oddaddr>>
      /\ vm_enter_pmode \/ vm_enter_rmode \/ UNCHANGED <<trap, pmode>>
      /\ dsts' \in {"run", "dead"}
  BY DEF dev_acpi_pm1_ctl, acpi_wake_up
<1> QED
  BY <1>1, ModeStep

\* dev_access on an intercepted port.
LEMMA InterceptedStep == PortInv /\ Intercepted => PortInv'
<1> SUFFICES ASSUME PortInv, Intercepted PROVE PortInv'
  OBVIOUS
<1>a. PICK p \in trap : \E in, cut \in BOOLEAN : \E v \in Values(p), rest \in Rests(p) :
        /\ dev_access(p, in, v, cut, rest)
        /\ diverted' = (diverted \/ (p = "SIO_DATA" /\ hw.idx # hw.chosen)
                          \/ (p \in {"SIO_INDEX", "SIO_DATA"} /\ ~in /\ rest # NoRest))
  BY DEF Intercepted
<1>1. PICK in \in BOOLEAN, cut \in BOOLEAN, v \in Values(p), rest \in Rests(p) :
        /\ dev_access(p, in, v, cut, rest)
        /\ diverted' = (diverted \/ (p = "SIO_DATA" /\ hw.idx # hw.chosen)
                          \/ (p \in {"SIO_INDEX", "SIO_DATA"} /\ ~in /\ rest # NoRest))
  BY <1>a
<1>2. /\ dev_access(p, in, v, cut, rest)
      /\ diverted => diverted'
      /\ p \in {"SIO_INDEX", "SIO_DATA"} /\ ~in /\ rest # NoRest => diverted'
  BY <1>1
<1>3. diverted' \in BOOLEAN /\ dsts = "run"
  BY <1>1 DEF PortInv, PortTypeOK, Intercepted
<1>4. CASE p \in {"PCI_ADDR", "PCI_DATA"}
  BY <1>2, <1>3, <1>4, PciStep DEF dev_access
<1>5. CASE p \in {"SIO_INDEX", "SIO_DATA"}
  BY <1>2, <1>3, <1>5, SioStep DEF dev_access
<1>6. CASE p = "PM1"
  BY <1>2, <1>3, <1>6, AcpiStep DEF dev_access
<1>7. CASE p = "PS2"
  BY <1>2, <1>3, <1>7, Ps2Step DEF dev_access
<1>8. CASE p \in {"KBD_CTRL", "KBD_DATA"}
  BY <1>2, <1>3, <1>8, KbdStep DEF dev_access
<1>9. CASE p \notin {"PCI_ADDR", "PCI_DATA", "SIO_INDEX", "SIO_DATA", "PM1", "PS2",
                     "KBD_CTRL", "KBD_DATA"}
  <2>1. CASE in
    <3>1. hw' = AtExit /\ UNCHANGED <<trap, dev, seen, pmode, oddaddr, dsts>>
      BY <1>2, <1>9, <2>1 DEF dev_access
    <3> QED
      BY <1>2, <1>3, <3>1, ModeStep
  <2>2. CASE ~in
    BY <1>2, <1>3, <1>9, <2>2, PicStep DEF dev_access
  <2> QED
    BY <2>1, <2>2
<1> QED
  BY <1>4, <1>5, <1>6, <1>7, <1>8, <1>9

\* The guest at a port that does not exit.
LEMMA NativeStep == PortInv /\ Native => PortInv'
<1> SUFFICES ASSUME PortInv, Native PROVE PortInv'
  OBVIOUS
<1>a. PICK p \in ToSet(PortOrder) \ trap : \E in \in BOOLEAN : \E v \in Values(p) :
        /\ v # "reset"
        /\ hw' = IF in THEN hw ELSE HwOut(hw, p, v)
        /\ seen' = CASE in /\ p = "PCI_DATA" -> PciData(hw)
                     [] in /\ p = "PCI_DATA_HI" /\ PciData(hw) = "id" -> "upper"
                     [] OTHER -> seen
        /\ diverted' = (diverted \/ (p = "SIO_DATA" /\ hw.idx # hw.chosen))
  BY DEF Native
<1>1. PICK in \in BOOLEAN, v \in Values(p) :
        /\ v # "reset"
        /\ hw' = IF in THEN hw ELSE HwOut(hw, p, v)
        /\ seen' = CASE in /\ p = "PCI_DATA" -> PciData(hw)
                     [] in /\ p = "PCI_DATA_HI" /\ PciData(hw) = "id" -> "upper"
                     [] OTHER -> seen
        /\ diverted' = (diverted \/ (p = "SIO_DATA" /\ hw.idx # hw.chosen))
  BY <1>a
<1>2. UNCHANGED <<trap, dev, pmode, oddaddr, dsts>>
  BY DEF Native
<1>3. /\ p = "KBD_CTRL" => v \in KbdCmds
      /\ p = "KBD_DATA" => v \in OutputPort
      /\ p = "PS2" => v \in OutputPort
      /\ p \in {"SIO_INDEX", "SIO_DATA"} => v \in {"0", "1"}
      /\ p = "PCI_DATA" => v \in CardCmds
      /\ p # "PCI_ADDR"
  BY <1>1 DEF Values, OutputPort, Ps2Bytes, PortInv, PciInv
<1>4. PortTypeOK'
  <2>1. hw' \in HwRegs
    BY <1>1, <1>3 DEF HwOut, PortInv, PortTypeOK, HwRegs, KbdCmds
  <2>2. seen' \in {"none", "id", "data", "invalid", "upper"} /\ diverted' \in BOOLEAN
    BY <1>1 DEF PciData, PortInv, PortTypeOK
  <2> QED
    BY <1>2, <2>1, <2>2 DEF PortInv, PortTypeOK, DevRegs, HwRegs
<1>5. hw'.addr = hw.addr
  BY <1>1, <1>3 DEF HwOut, PortInv, PortTypeOK, HwRegs
<1>6. PciInv'
  BY <1>2, <1>5 DEF PortInv, PciInv
<1>7. SioInv'
  <2>1. /\ hw'.chosen = hw.chosen \/ p = "SIO_INDEX"
        /\ diverted => diverted'
    BY <1>1 DEF HwOut, PortInv, PortTypeOK, HwRegs
  <2> QED
    BY <1>2, <2>1 DEF PortInv, SioInv
<1>8. ~oddaddr => hw'.card = "1" /\ seen' # "id"
  <2>1. p = "PCI_DATA" /\ ~oddaddr => hw.addr = "other"
    BY DEF PortInv, PciInv
  <2> QED
    BY <1>1, <2>1 DEF HwOut, PciData, PortInv, PortTypeOK, DevicesKept
<1>9. hw'.com1 = "0" => diverted' \/ "SIO_INDEX" \notin trap
  <2>1. CASE p = "SIO_DATA"
    BY <1>1, <1>3, <2>1 DEF HwOut, PortInv, PortTypeOK, HwRegs, SioInv, DevicesKept
  <2>2. CASE p # "SIO_DATA"
    BY <1>1, <2>2 DEF HwOut, PortInv, PortTypeOK, HwRegs, DevicesKept
  <2> QED
    BY <2>1, <2>2
<1> QED
  BY <1>2, <1>4, <1>6, <1>7, <1>8, <1>9 DEF PortInv, DevicesKept

(***************************************************************************)
(* The BIOS services and the interrupts of real mode                       *)
(***************************************************************************)

\* What an entry of the memory map leaves to be given.
LEMMA SmapIs ==
  ASSUME NEW k \in Nat, k < SmapNr, NEW cx \in {EntrySz, EntrySz + 4}
  PROVE  emulate_int15_smap(EntrySz * k, cx) =
           [rbx |-> IF k = SmapNr - 1 THEN 0 ELSE EntrySz * (k + 1), rcx |-> EntrySz]
<1>1. SmapNr \in Nat /\ EntrySz = 20
  BY DevicesAssumption DEF EntrySz
<1>2. CASE k = SmapNr - 1
  BY <1>1, <1>2 DEF emulate_int15_smap
<1>3. CASE k # SmapNr - 1
  BY <1>1, <1>3 DEF emulate_int15_smap
<1> QED
  BY <1>2, <1>3

\* emulate_int15 on BIOS_GET_SMAP: the entry after those given already.
LEMMA SmapStep == BiosInv /\ GetSmap => BiosInv'
<1> SUFFICES ASSUME BiosInv, GetSmap PROVE BiosInv'
  OBVIOUS
<1>0. SmapNr \in Nat /\ SmapNr >= 1 /\ EntrySz = 20
  BY DevicesAssumption DEF EntrySz
<1>1. UNCHANGED <<stack, at, frames>>
  BY DEF GetSmap
<1> DEFINE k == IF loop.open THEN Len(loop.got) ELSE 0
           got == IF loop.open THEN loop.got ELSE <<>>
           rbx == IF loop.open THEN loop.rbx ELSE 0
<1>2. /\ got \in Seq(Nat) /\ Len(got) = k /\ k \in Nat /\ k < SmapNr
      /\ got = [i \in 1..k |-> i - 1] /\ rbx = EntrySz * k
  <2>1. loop.got \in Seq(Nat) /\ loop.got = [i \in 1..Len(loop.got) |-> i - 1]
    BY DEF BiosInv, BiosTypeOK, Loops, RealModeServed
  <2>2. CASE loop.open
    BY <1>0, <2>1, <2>2 DEF BiosInv, LoopInv
  <2>3. CASE ~loop.open
    <3>1. <<>> = [i \in 1..0 |-> i - 1]
      OBVIOUS
    <3> QED
      BY <1>0, <2>3, <3>1
  <2> QED
    BY <2>2, <2>3
<1>3. PICK cx \in {EntrySz - 1, EntrySz, EntrySz + 4} :
        IF cx < EntrySz THEN UNCHANGED loop
        ELSE loop' = [open |-> emulate_int15_smap(rbx, cx).rbx # 0,
                      rbx |-> emulate_int15_smap(rbx, cx).rbx,
                      got |-> Append(got, rbx \div EntrySz),
                      bad |-> emulate_int15_smap(rbx, cx).rcx # EntrySz]
  BY DEF GetSmap
<1>4. CASE cx < EntrySz
  <2>1. loop' = loop
    BY <1>3, <1>4
  <2> QED
    BY <1>1, <2>1 DEF BiosInv, BiosTypeOK, LoopInv, RealModeServed
<1>5. CASE ~(cx < EntrySz)
  <2>1. cx \in {EntrySz, EntrySz + 4}
    BY <1>0, <1>5
  <2>2. rbx \div EntrySz = k
    BY <1>0, <1>2
  <2>3. loop' = [open |-> k # SmapNr - 1,
                 rbx |-> IF k = SmapNr - 1 THEN 0 ELSE EntrySz * (k + 1),
                 got |-> Append(got, k), bad |-> FALSE]
    <3>1. emulate_int15_smap(rbx, cx) =
            [rbx |-> IF k = SmapNr - 1 THEN 0 ELSE EntrySz * (k + 1), rcx |-> EntrySz]
      BY <1>2, <2>1, SmapIs
    <3>2. emulate_int15_smap(rbx, cx).rbx # 0 <=> k # SmapNr - 1
      BY <1>0, <1>2, <3>1
    <3>3. /\ emulate_int15_smap(rbx, cx).rbx = IF k = SmapNr - 1 THEN 0 ELSE EntrySz * (k + 1)
          /\ emulate_int15_smap(rbx, cx).rcx = EntrySz
      BY <3>1
    <3> HIDE DEF k, got, rbx
    <3> QED
      BY <1>3, <1>5, <2>2, <3>2, <3>3
  <2> HIDE DEF k, got, rbx
  <2>4. Append(got, k) \in Seq(Nat) /\ Len(Append(got, k)) = k + 1
    BY <1>2
  <2>5. Append(got, k) = [i \in 1..(k + 1) |-> i - 1]
    BY <1>2
  <2>6. loop' \in Loops
    BY <1>0, <1>2, <2>3, <2>4 DEF Loops
  <2>7. BiosTypeOK'
    BY <1>1, <2>6 DEF BiosInv, BiosTypeOK
  <2>a. /\ loop'.got = Append(got, k) /\ loop'.open = (k # SmapNr - 1) /\ ~loop'.bad
        /\ loop'.rbx = IF k = SmapNr - 1 THEN 0 ELSE EntrySz * (k + 1)
    BY <2>3
  <2>b. Len(loop'.got) = k + 1 /\ loop'.got = [i \in 1..Len(loop'.got) |-> i - 1]
    <3>1. loop'.got = Append(got, k)
      BY <2>a
    <3> HIDE <2>3
    <3> QED
      BY <2>4, <2>5, <3>1
  <2>8. LoopInv'
    <3> DEFINE q == Len(loop'.got)
    <3>1. q = k + 1 /\ loop'.open = (k # SmapNr - 1)
          /\ loop'.rbx = IF k = SmapNr - 1 THEN 0 ELSE EntrySz * (k + 1)
      BY <2>a, <2>b
    <3> HIDE DEF q
    <3>2. k # SmapNr - 1 => q \in 1..(SmapNr - 1)
      BY <1>0, <1>2, <3>1
    <3> QED
      BY <3>1, <3>2 DEF LoopInv, q
  <2>9. RealModeServed'
    <3>1. /\ ~loop'.bad /\ loop'.got = [i \in 1..Len(loop'.got) |-> i - 1]
          /\ ~loop'.open => Len(loop'.got) = SmapNr
      <4>1. k = SmapNr - 1 => k + 1 = SmapNr
        BY <1>0
      <4> QED
        BY <2>a, <2>b, <4>1
    <3> QED
      BY <1>1, <3>1 DEF BiosInv, RealModeServed
  <2> QED
    BY <2>7, <2>8, <2>9 DEF BiosInv
<1> QED
  BY <1>4, <1>5

\* The frames of a real mode stack: flags, segment and offset of each INT.
Framed(s, f) ==
    /\ Len(s) = 3 * Len(f)
    /\ \A i \in 1..Len(f) : /\ s[3 * i - 2] = f[i].ie
                            /\ s[3 * i - 1] = CS
                            /\ s[3 * i] = f[i].loc

LEMMA FramePushed ==
    ASSUME NEW s \in Seq(Nat), NEW f \in Seq(Points), NEW a \in Points, Framed(s, f)
    PROVE  /\ Append(Append(Append(s, a.ie), CS), a.loc) \in Seq(Nat)
           /\ Append(f, a) \in Seq(Points) /\ Len(Append(f, a)) = Len(f) + 1
           /\ Framed(Append(Append(Append(s, a.ie), CS), a.loc), Append(f, a))
<1> DEFINE n == Len(f)
           t == Append(Append(Append(s, a.ie), CS), a.loc)
           g == Append(f, a)
<1>1. a.ie \in Nat /\ a.loc \in Nat /\ CS \in Nat
  BY DEF Points, CS
<1>2. n \in Nat /\ Len(s) = 3 * n
  BY DEF Framed
<1>3. t \in Seq(Nat)
  BY <1>1
<1>4. /\ Len(t) = Len(s) + 3 /\ t[Len(s) + 1] = a.ie /\ t[Len(s) + 2] = CS
      /\ t[Len(s) + 3] = a.loc /\ \A j \in 1..Len(s) : t[j] = s[j]
  <2>1. \A q \in Seq(Nat), x \in Nat :
           /\ Append(q, x) \in Seq(Nat) /\ Len(Append(q, x)) = Len(q) + 1
           /\ Append(q, x)[Len(q) + 1] = x
           /\ \A j \in 1..Len(q) : Append(q, x)[j] = q[j]
    OBVIOUS
  <2> DEFINE u == Append(s, a.ie)
             w == Append(u, CS)
  <2>2. /\ u \in Seq(Nat) /\ Len(u) = Len(s) + 1 /\ u[Len(s) + 1] = a.ie
        /\ \A j \in 1..Len(s) : u[j] = s[j]
    BY <1>1, <2>1
  <2> HIDE DEF u
  <2>3. /\ w \in Seq(Nat) /\ Len(w) = Len(u) + 1 /\ w[Len(u) + 1] = CS
        /\ \A j \in 1..Len(u) : w[j] = u[j]
    BY <1>1, <2>1, <2>2
  <2>4. t = Append(w, a.loc)
    BY DEF u, w, t
  <2> HIDE DEF w
  <2>5. /\ Len(t) = Len(w) + 1 /\ t[Len(w) + 1] = a.loc
        /\ \A j \in 1..Len(w) : t[j] = w[j]
    BY <1>1, <2>1, <2>3, <2>4
  <2>6. Len(s) \in Nat
    OBVIOUS
  <2> QED
    BY <2>2, <2>3, <2>5, <2>6
<1>5. /\ g \in Seq(Points) /\ Len(g) = n + 1 /\ g[n + 1] = a
      /\ \A j \in 1..n : g[j] = f[j]
  OBVIOUS
<1> HIDE DEF n, t, g
<1>6. ASSUME NEW i \in 1..(n + 1)
      PROVE  t[3 * i - 2] = g[i].ie /\ t[3 * i - 1] = CS /\ t[3 * i] = g[i].loc
  <2>1. CASE i = n + 1
    <3>1. 3 * i - 2 = Len(s) + 1 /\ 3 * i - 1 = Len(s) + 2 /\ 3 * i = Len(s) + 3
      BY <1>2, <2>1
    <3> QED
      BY <1>4, <1>5, <2>1, <3>1
  <2>2. CASE i # n + 1
    <3>1. /\ i \in 1..n /\ (3 * i - 2) \in 1..Len(s) /\ (3 * i - 1) \in 1..Len(s)
          /\ (3 * i) \in 1..Len(s)
      BY <1>2, <2>2
    <3>2. s[3 * i - 2] = f[i].ie /\ s[3 * i - 1] = CS /\ s[3 * i] = f[i].loc
      BY <3>1 DEF Framed, n
    <3> QED
      BY <1>4, <1>5, <3>1, <3>2
  <2> QED
    BY <2>1, <2>2
<1>7. Len(t) = 3 * Len(g)
  BY <1>2, <1>4, <1>5
<1>8. Framed(t, g)
  BY <1>5, <1>6, <1>7 DEF Framed
<1> QED
  BY <1>3, <1>5, <1>8 DEF n, t, g

\* What is left of a sequence without its last elements.
LEMMA Shortened ==
    ASSUME NEW S, NEW s \in Seq(S), NEW m \in 0..Len(s)
    PROVE  /\ SubSeq(s, 1, m) \in Seq(S) /\ Len(SubSeq(s, 1, m)) = m
           /\ \A j \in 1..m : SubSeq(s, 1, m)[j] = s[j]
  OBVIOUS

LEMMA FramePopped ==
    ASSUME NEW s \in Seq(Nat), NEW f \in Seq(Points), Framed(s, f), Len(s) >= 3
    PROVE  /\ SubSeq(s, 1, Len(s) - 3) \in Seq(Nat)
           /\ SubSeq(f, 1, Len(f) - 1) \in Seq(Points)
           /\ Len(SubSeq(f, 1, Len(f) - 1)) = Len(f) - 1
           /\ Framed(SubSeq(s, 1, Len(s) - 3), SubSeq(f, 1, Len(f) - 1))
           /\ f[Len(f)] \in Points
           /\ s[Len(s)] = f[Len(f)].loc /\ s[Len(s) - 2] = f[Len(f)].ie
<1> DEFINE n == Len(f)
           t == SubSeq(s, 1, Len(s) - 3)
           g == SubSeq(f, 1, Len(f) - 1)
<1>1. n \in Nat /\ Len(s) = 3 * n /\ n >= 1
  BY DEF Framed
<1>2. /\ t \in Seq(Nat) /\ Len(t) = Len(s) - 3
      /\ \A j \in 1..(Len(s) - 3) : t[j] = s[j]
  <2>1. Len(s) - 3 \in 0..Len(s)
    BY <1>1
  <2> QED
    BY <2>1, Shortened
<1>3. g \in Seq(Points) /\ Len(g) = n - 1 /\ \A j \in 1..(n - 1) : g[j] = f[j]
  <2>1. n - 1 \in 0..Len(f)
    BY <1>1
  <2> QED
    BY <2>1, Shortened
<1>4. f[n] \in Points
  BY <1>1
<1>5. \A i \in 1..n : s[3 * i - 2] = f[i].ie /\ s[3 * i - 1] = CS /\ s[3 * i] = f[i].loc
  BY DEF Framed
<1> HIDE DEF n, t, g
<1>6. s[Len(s)] = f[n].loc /\ s[Len(s) - 2] = f[n].ie
  <2>1. n \in 1..n
    BY <1>1
  <2> QED
    BY <1>1, <1>5, <2>1
<1>7. ASSUME NEW i \in 1..(n - 1)
      PROVE  t[3 * i - 2] = g[i].ie /\ t[3 * i - 1] = CS /\ t[3 * i] = g[i].loc
  <2>1. /\ i \in 1..n /\ (3 * i - 2) \in 1..(Len(s) - 3)
        /\ (3 * i - 1) \in 1..(Len(s) - 3) /\ (3 * i) \in 1..(Len(s) - 3)
    BY <1>1
  <2> QED
    BY <1>2, <1>3, <1>5, <2>1
<1>8. Len(t) = 3 * Len(g)
  BY <1>1, <1>2, <1>3
<1>9. Framed(t, g)
  BY <1>3, <1>7, <1>8 DEF Framed
<1> QED
  BY <1>2, <1>3, <1>4, <1>6, <1>9 DEF n, t, g

\* emulate_rmode_interrupt: three words more.
LEMMA InterruptStep == BiosInv /\ emulate_rmode_interrupt => BiosInv'
<1> SUFFICES ASSUME BiosInv, emulate_rmode_interrupt PROVE BiosInv'
  OBVIOUS
<1>1. PICK vector \in 1..2 :
        /\ stack' = Append(Append(Append(stack, at.ie), CS), at.loc)
        /\ at' = [loc |-> 10 * vector, ie |-> 0]
        /\ frames' = Append(frames, at)
  BY DEF emulate_rmode_interrupt, emulate_rmode_far_call, emulate_rmode_push
<1>2. loop' = loop /\ Len(frames) < MaxNest /\ MaxNest \in Nat
  BY DevicesAssumption DEF emulate_rmode_interrupt
<1>3. /\ at \in Points /\ stack \in Seq(Nat) /\ frames \in Seq(Points)
      /\ Framed(stack, frames)
  BY DEF BiosInv, BiosTypeOK, RealModeServed, Framed
<1>4. at' \in Points
  BY <1>1 DEF Points
<1>5. /\ stack' \in Seq(Nat) /\ frames' \in Seq(Points) /\ Len(frames') = Len(frames) + 1
      /\ Framed(stack', frames')
  BY <1>1, <1>3, FramePushed
<1>6. Len(frames) \in Nat
  BY <1>3
<1>7. BiosTypeOK'
  <2>1. Len(frames') <= MaxNest
    BY <1>2, <1>5, <1>6
  <2> QED
    BY <1>2, <1>4, <1>5, <2>1 DEF BiosInv, BiosTypeOK
<1>8. LoopInv' /\ RealModeServed'
  BY <1>2, <1>5 DEF BiosInv, LoopInv, RealModeServed, Framed
<1> QED
  BY <1>7, <1>8 DEF BiosInv

\* emulate_rmode_iret: three words less, and the guest where it was.
LEMMA IretStep == BiosInv /\ emulate_rmode_iret => BiosInv'
<1> SUFFICES ASSUME BiosInv, emulate_rmode_iret PROVE BiosInv'
  OBVIOUS
<1>1. /\ Len(stack) >= 3 /\ loop' = loop
      /\ at' = [loc |-> stack[Len(stack)], ie |-> stack[Len(stack) - 2]]
      /\ stack' = SubSeq(stack, 1, Len(stack) - 3)
      /\ frames' = SubSeq(frames, 1, Len(frames) - 1)
  BY DEF emulate_rmode_iret, Front
<1>2. /\ stack \in Seq(Nat) /\ frames \in Seq(Points) /\ Framed(stack, frames)
      /\ Len(frames) <= MaxNest /\ MaxNest \in Nat
  BY DevicesAssumption DEF BiosInv, BiosTypeOK, RealModeServed, Framed
<1>3. /\ stack' \in Seq(Nat) /\ frames' \in Seq(Points) /\ Len(frames') = Len(frames) - 1
      /\ Framed(stack', frames') /\ frames[Len(frames)] \in Points
      /\ stack[Len(stack)] = frames[Len(frames)].loc
      /\ stack[Len(stack) - 2] = frames[Len(frames)].ie
  BY <1>1, <1>2, FramePopped
<1>4. at' \in Points
  <2>1. at' = [loc |-> frames[Len(frames)].loc, ie |-> frames[Len(frames)].ie]
    BY <1>1, <1>3
  <2> QED
    BY <1>3, <2>1 DEF Points
<1>5. Len(frames') <= MaxNest
  <2>1. Len(frames) \in Nat
    BY <1>2
  <2> QED
    BY <1>2, <1>3, <2>1
<1>6. BiosTypeOK'
  BY <1>1, <1>3, <1>4, <1>5 DEF BiosInv, BiosTypeOK
<1>7. LoopInv' /\ RealModeServed'
  BY <1>1, <1>3 DEF BiosInv, LoopInv, RealModeServed, Framed
<1> QED
  BY <1>6, <1>7 DEF BiosInv

(***************************************************************************)
(* The specification                                                       *)
(***************************************************************************)
LEMMA DevInitHolds == DevInit => DevInv
<1> SUFFICES ASSUME DevInit PROVE DevInv
  OBVIOUS
<1>0. SmapNr \in Nat \ {0} /\ MaxNest \in Nat
  BY DevicesAssumption
<1>1. trap = {"PIC_CMD", "PIC_DATA", "KBD_DATA", "KBD_CTRL", "PS2", "PCI_ADDR", "SIO_INDEX", "PM1"}
  BY PortsAre DEF DevInit, vm_dev_init
<1>2. PortTypeOK
  BY <1>1, PortsAre
     DEF DevInit, vm_dev_init, PortTypeOK, DevRegs, HwRegs, OutputPort, KbdCmds, PciRegs, CardCmds
<1>3. PciInv /\ SioInv /\ DevicesKept
  BY <1>1 DEF DevInit, PciInv, SioInv, DevicesKept
<1>4. BiosInv
  BY <1>0 DEF DevInit, BiosInv, BiosTypeOK, Loops, Points, LoopInv, RealModeServed
<1> QED
  BY <1>2, <1>3, <1>4 DEF DevInv, PortInv

LEMMA DevStep == DevInv /\ [DevNext]_devvars => DevInv'
<1> SUFFICES ASSUME DevInv, [DevNext]_devvars PROVE DevInv'
  OBVIOUS
<1>1. PortInv /\ BiosInv
  BY DEF DevInv
<1>2. CASE Intercepted
  BY <1>1, <1>2, InterceptedStep, BiosUntouched DEF DevInv, Intercepted
<1>3. CASE Native
  BY <1>1, <1>3, NativeStep, BiosUntouched DEF DevInv, Native, biosvars
<1>4. CASE OtherExit
  <2>1. PortInv'
    BY <1>1, <1>4, ModeStep DEF OtherExit, PortInv, PortTypeOK
  <2> QED
    BY <1>1, <1>4, <2>1, BiosUntouched DEF DevInv, OtherExit
<1>5. CASE GetSmap
  <2>1. PortInv'
    BY <1>1, <1>5, ModeStep DEF GetSmap, PortInv, PortTypeOK
  <2> QED
    BY <1>1, <1>5, <2>1, SmapStep DEF DevInv
<1>6. CASE A20Service
  <2>1. PICK a \in OutputPort : dev' = [dev EXCEPT !.a20 = a]
    BY <1>6 DEF A20Service, dev_a20_set, OutputPort
  <2>2. dev' \in DevRegs /\ dev'.sio_filter = dev.sio_filter /\ dev'.pci_filter = dev.pci_filter
    BY <1>1, <2>1 DEF PortInv, PortTypeOK, DevRegs
  <2>3. /\ hw' = AtExit
        /\ UNCHANGED <<trap, pmode, seen, oddaddr, diverted, dsts, biosvars>>
    BY <1>6 DEF A20Service
  <2>4. hw' \in HwRegs /\ hw'.com1 = "1" /\ hw'.addr = hw.addr /\ hw'.card = hw.card
        /\ hw'.chosen = hw.chosen
    BY <1>1, <2>3, AtExitIs DEF PortInv
  <2>5. PortTypeOK'
    BY <1>1, <2>2, <2>3, <2>4 DEF PortInv, PortTypeOK
  <2>6. PortInv'
    BY <1>1, <2>2, <2>3, <2>4, <2>5, DevicesUntouched DEF PortInv
  <2> QED
    BY <1>1, <2>3, <2>6, BiosUntouched DEF DevInv, biosvars
<1>7. CASE emulate_rmode_interrupt
  <2>1. PortInv'
    BY <1>1, <1>7, ModeStep DEF emulate_rmode_interrupt, PortInv, PortTypeOK
  <2> QED
    BY <1>1, <1>7, <2>1, InterruptStep DEF DevInv
<1>8. CASE emulate_rmode_iret
  <2>1. PortInv'
    BY <1>1, <1>8, ModeStep DEF emulate_rmode_iret, PortInv, PortTypeOK
  <2> QED
    BY <1>1, <1>8, <2>1, IretStep DEF DevInv
<1>9. CASE Sti
  <2>1. PortInv'
    BY <1>1, <1>9 DEF Sti, portvars, PortInv, PortTypeOK, PciInv, SioInv, DevicesKept
  <2>2. at' \in Points /\ UNCHANGED <<loop, stack, frames>>
    BY <1>1, <1>9 DEF Sti, BiosInv, BiosTypeOK, Points
  <2> QED
    BY <1>1, <2>1, <2>2 DEF DevInv, BiosInv, BiosTypeOK, LoopInv, RealModeServed
<1>10. CASE UNCHANGED devvars
  <2>1. PortInv'
    BY <1>1, <1>10 DEF devvars, portvars, PortInv, PortTypeOK, PciInv, SioInv, DevicesKept
  <2> QED
    BY <1>1, <1>10, <2>1, BiosUntouched DEF DevInv, devvars
<1> QED
  BY <1>2, <1>3, <1>4, <1>5, <1>6, <1>7, <1>8, <1>9, <1>10 DEF DevNext

\* Whatever the guest does at the ports of the devices and with the services
\* of the BIOS, the traps, the filters and the devices agree.
THEOREM DevSafe == DevSpec => []DevInv
<1>1. DevInit => DevInv
  BY DevInitHolds
<1>2. DevInv /\ [DevNext]_devvars => DevInv'
  BY DevStep
<1> QED
  BY <1>1, <1>2, PTL DEF DevSpec

\* The VMM keeps the devices it lives on (pci.c, devices/sio.c): the card's
\* identity is hidden and the card stays on, COM1 stays on while the ports of
\* its chip are intercepted.
THEOREM DevicesSafe == DevSpec => []DevicesKept
<1>1. DevInv => DevicesKept
  BY DEF DevInv, PortInv
<1> QED
  BY <1>1, DevSafe, PTL

\* Real mode interrupts return to where they came from, nested or not, and
\* int 15h gives each entry of the memory map once (emulate_rmode.c,
\* emulate_int15.c).
THEOREM RealModeSafe == DevSpec => []RealModeServed
<1>1. DevInv => RealModeServed
  BY DEF DevInv, BiosInv
<1> QED
  BY <1>1, DevSafe, PTL


(***************************************************************************)
(* Induction: a set that holds with all numbers below n the number n holds *)
(* every number.                                                           *)
(***************************************************************************)
LEMMA Induction ==
    ASSUME NEW S, \A n \in Nat : (\A j \in 0..(n - 1) : j \in S) => n \in S
    PROVE  \A n \in Nat : n \in S
<1> SUFFICES ASSUME Nat \ S # {} PROVE FALSE
  OBVIOUS
<1> DEFINE R == OpToRel(<, Nat)
<1>1. IsWellFoundedOn(R, Nat)
  BY NatLessThanWellFounded
<1>2. \A x, y \in Nat : y < x => <<y, x>> \in R
  BY DEF OpToRel
<1> HIDE DEF R
<1>3. PICK x \in Nat \ S : \A y \in Nat \ S : ~(<<y, x>> \in R)
  BY <1>1, WFMin
<1>4. \A y \in Nat \ S : ~(y < x)
  BY <1>2, <1>3, Zenon
<1>5. \A j \in 0..(x - 1) : j \in S
  BY <1>3, <1>4
<1> QED
  BY <1>3, <1>5

(***************************************************************************)
(* Sizes and indexes                                                       *)
(***************************************************************************)
LEMMA SizeIs ==
    /\ Size(1) = 2 /\ Size(2) = 4 /\ Size(3) = 8 /\ Size(4) = 16
    /\ \A l \in 1..4 : Size(l) \in {2, 4, 8, 16}
<1>1. Size(1) = 2 /\ Size(2) = 4 /\ Size(3) = 8 /\ Size(4) = 16
  BY DEF Size, PageSz
<1> QED
  BY <1>1

\* Two addresses in one page of level l have the same index from there on.
LEMMA SameBlock ==
    ASSUME NEW l \in 1..4, NEW v \in Nat, NEW w \in Nat, v \div Size(l) = w \div Size(l)
    PROVE  /\ \A m \in l..4 : Idx(v, m) = Idx(w, m)
           /\ (w % Size(l)) - (v % Size(l)) = w - v
<1>1. CASE l = 1
  <2>1. v \div 2 = w \div 2
    BY <1>1, SizeIs
  <2>2. /\ v \div 4 = w \div 4 /\ v \div 8 = w \div 8 /\ v \div 16 = w \div 16
        /\ (w % 2) - (v % 2) = w - v
    BY <2>1
  <2> QED
    BY <1>1, <2>1, <2>2, SizeIs DEF Idx
<1>2. CASE l = 2
  <2>1. v \div 4 = w \div 4
    BY <1>2, SizeIs
  <2>2. v \div 8 = w \div 8 /\ v \div 16 = w \div 16 /\ (w % 4) - (v % 4) = w - v
    BY <2>1
  <2> QED
    BY <1>2, <2>1, <2>2, SizeIs DEF Idx
<1>3. CASE l = 3
  <2>1. v \div 8 = w \div 8
    BY <1>3, SizeIs
  <2>2. v \div 16 = w \div 16 /\ (w % 8) - (v % 8) = w - v
    BY <2>1
  <2> QED
    BY <1>3, <2>1, <2>2, SizeIs DEF Idx
<1>4. CASE l = 4
  <2>1. v \div 16 = w \div 16
    BY <1>4, SizeIs
  <2>2. (w % 16) - (v % 16) = w - v
    BY <2>1
  <2> QED
    BY <1>4, <2>1, <2>2, SizeIs DEF Idx
<1> QED
  BY <1>1, <1>2, <1>3, <1>4

LEMMA IdxType == \A v \in Nat, l \in 1..4 : Idx(v, l) \in 0..1
  BY SizeIs DEF Idx

\* The next page starts behind v, and up to there it is the page of v.
LEMMA NextPage ==
    ASSUME NEW l \in 1..4, NEW v \in Nat
    PROVE  /\ AlignNext(v, Size(l)) \in Nat /\ AlignNext(v, Size(l)) > v
           /\ \A w \in Nat : v <= w /\ w < AlignNext(v, Size(l)) =>
                w \div Size(l) = v \div Size(l)
<1>1. CASE l = 1
  <2>1. AlignNext(v, Size(l)) = ((v + 2) \div 2) * 2 /\ Size(l) = 2
    BY <1>1, SizeIs DEF AlignNext
  <2>2. /\ ((v + 2) \div 2) * 2 \in Nat /\ ((v + 2) \div 2) * 2 > v
        /\ \A w \in Nat : v <= w /\ w < ((v + 2) \div 2) * 2 =>
             w \div 2 = v \div 2
    OBVIOUS
  <2> QED
    BY <2>1, <2>2
<1>2. CASE l = 2
  <2>1. AlignNext(v, Size(l)) = ((v + 4) \div 4) * 4 /\ Size(l) = 4
    BY <1>2, SizeIs DEF AlignNext
  <2>2. /\ ((v + 4) \div 4) * 4 \in Nat /\ ((v + 4) \div 4) * 4 > v
        /\ \A w \in Nat : v <= w /\ w < ((v + 4) \div 4) * 4 =>
             w \div 4 = v \div 4
    OBVIOUS
  <2> QED
    BY <2>1, <2>2
<1>3. CASE l = 3
  <2>1. AlignNext(v, Size(l)) = ((v + 8) \div 8) * 8 /\ Size(l) = 8
    BY <1>3, SizeIs DEF AlignNext
  <2>2. /\ ((v + 8) \div 8) * 8 \in Nat /\ ((v + 8) \div 8) * 8 > v
        /\ \A w \in Nat : v <= w /\ w < ((v + 8) \div 8) * 8 =>
             w \div 8 = v \div 8
    OBVIOUS
  <2> QED
    BY <2>1, <2>2
<1>4. CASE l = 4
  <2>1. AlignNext(v, Size(l)) = ((v + 16) \div 16) * 16 /\ Size(l) = 16
    BY <1>4, SizeIs DEF AlignNext
  <2>2. /\ ((v + 16) \div 16) * 16 \in Nat /\ ((v + 16) \div 16) * 16 > v
        /\ \A w \in Nat : v <= w /\ w < ((v + 16) \div 16) * 16 =>
             w \div 16 = v \div 16
    OBVIOUS
  <2> QED
    BY <2>1, <2>2
<1> QED
  BY <1>1, <1>2, <1>3, <1>4

(***************************************************************************)
(* The walk                                                                *)
(***************************************************************************)
LEMMA TablesDown ==
    ASSUME NEW pg \in PageTables, NEW m \in Controls, NEW cr3 \in Frames, NEW v \in Nat
    PROVE  /\ Top(m) \in 2..4 /\ TableAt(pg, m, cr3, v, Top(m)) = cr3
           /\ \A l \in 1..Top(m) :
                /\ TableAt(pg, m, cr3, v, l) \in Frames
                /\ Path(pg, m, cr3, v)[l] = pg[TableAt(pg, m, cr3, v, l)][Idx(v, l)]
                /\ Path(pg, m, cr3, v)[l] \in Entry
           /\ \A l \in 1..(Top(m) - 1) :
                TableAt(pg, m, cr3, v, l) = Path(pg, m, cr3, v)[l + 1].f
<1> DEFINE T(l) == TableAt(pg, m, cr3, v, l)
           X(l) == pg[T(l)][Idx(v, l)]
<1>1. Top(m) \in {2, 3, 4} /\ Top(m) \in 2..4
  BY DEF Top
<1>2. \A t \in Frames, l \in 1..4 : pg[t][Idx(v, l)] \in Entry /\ pg[t][Idx(v, l)].f \in Frames
  BY IdxType DEF PageTables, Entry
<1>3. /\ T(4) = cr3
      /\ T(3) = IF Top(m) = 4 THEN pg[cr3][Idx(v, 4)].f ELSE cr3
      /\ T(2) = IF Top(m) >= 3 THEN pg[T(3)][Idx(v, 3)].f ELSE T(3)
      /\ T(1) = pg[T(2)][Idx(v, 2)].f
  <2>1. CASE Top(m) = 2
    BY <2>1 DEF TableAt
  <2>2. CASE Top(m) = 3
    BY <2>2 DEF TableAt
  <2>3. CASE Top(m) = 4
    BY SMTT(30), <2>3 DEF TableAt
  <2> QED
    BY <1>1, <2>1, <2>2, <2>3
<1>4. T(4) \in Frames /\ T(3) \in Frames /\ T(2) \in Frames /\ T(1) \in Frames
  <2>1. T(4) \in Frames /\ T(3) \in Frames
    BY <1>2, <1>3
  <2> HIDE DEF T
  <2>2. T(2) \in Frames
    BY <1>2, <1>3, <2>1
  <2> QED
    BY <1>2, <1>3, <2>1, <2>2
<1>5. T(Top(m)) = cr3
  <2> HIDE DEF T
  <2> QED
    BY <1>1, <1>3
<1>6. \A l \in 1..4 : T(l) \in Frames /\ X(l) \in Entry
  <2>1. \A l \in 1..4 : l = 1 \/ l = 2 \/ l = 3 \/ l = 4
    OBVIOUS
  <2> HIDE DEF T
  <2>2. \A l \in 1..4 : T(l) \in Frames
    BY <1>4, <2>1
  <2> QED
    BY <1>2, <2>2
<1>7. \A l \in 1..Top(m) : Path(pg, m, cr3, v)[l] = X(l) /\ l \in 1..4
  BY <1>1 DEF Path
<1>8. \A l \in 1..(Top(m) - 1) : T(l) = X(l + 1).f
  <2>1. \A l \in 1..(Top(m) - 1) : l = 1 \/ (l = 2 /\ Top(m) >= 3) \/ (l = 3 /\ Top(m) = 4)
    BY <1>1
  <2> HIDE DEF T
  <2>2. /\ T(1) = X(2).f /\ (Top(m) >= 3 => T(2) = X(3).f) /\ (Top(m) = 4 => T(3) = X(4).f)
    BY <1>3
  <2> HIDE DEF X
  <2> QED
    BY <2>1, <2>2
<1>9. \A l \in 1..(Top(m) - 1) : l + 1 \in 1..Top(m)
  BY <1>1
<1> HIDE DEF T, X
<1>10. \A l \in 1..Top(m) : T(l) \in Frames /\ X(l) \in Entry
  BY <1>6, <1>7
<1>11. \A l \in 1..(Top(m) - 1) : T(l) = Path(pg, m, cr3, v)[l + 1].f
  BY <1>7, <1>8, <1>9
<1>12. \A l \in 1..Top(m) : Path(pg, m, cr3, v)[l] = X(l)
  BY <1>7
<1> QED
  BY <1>1, <1>5, <1>10, <1>11, <1>12 DEF T, X

\* A walk that is still on its way has come down to the table of level k.
Down(pg, m, cr3, v, k) ==
    \A l \in (k + 1)..Top(m) :
        /\ TableAt(pg, m, cr3, v, l) \notin Area
        /\ Path(pg, m, cr3, v)[l].p /\ ~MapsPage(m, Path(pg, m, cr3, v)[l], l)

\* The levels from k on let the guest write, and let its applications in.
Writable(pg, m, cr3, v, k) ==
    \A l \in k..Top(m) : (l = 3 /\ ~m.lma) \/ Path(pg, m, cr3, v)[l].w
UserToo(pg, m, cr3, v, k) ==
    \A l \in k..Top(m) : (l = 3 /\ ~m.lma) \/ Path(pg, m, cr3, v)[l].u

\* What the walk knows before the level k is looked at.
Walked(pg, m, cr3, v, k, wlk) ==
    /\ wlk \in [rc : {"WALKING", "DONE", "FAULT", "FAIL"}, f : Frames, w : BOOLEAN,
                u : BOOLEAN, addr : Nat, size : Nat]
    /\ wlk.rc = "WALKING" =>
         /\ Down(pg, m, cr3, v, k)
         /\ k > 0 => wlk.f = TableAt(pg, m, cr3, v, k)
         /\ wlk.w <=> Writable(pg, m, cr3, v, k + 1)
         /\ wlk.u <=> UserToo(pg, m, cr3, v, k + 1)
    /\ wlk.rc = "FAIL" =>
         \E j \in (k + 1)..Top(m) : Down(pg, m, cr3, v, j) /\ TableAt(pg, m, cr3, v, j) \in Area
    /\ wlk.rc = "FAULT" =>
         \E j \in (k + 1)..Top(m) : Down(pg, m, cr3, v, j) /\ ~Path(pg, m, cr3, v)[j].p
    /\ wlk.rc = "DONE" =>
         \E j \in (k + 1)..Top(m) :
            /\ Down(pg, m, cr3, v, j) /\ Path(pg, m, cr3, v)[j].p
            /\ TableAt(pg, m, cr3, v, j) \notin Area
            /\ MapsPage(m, Path(pg, m, cr3, v)[j], j)
            /\ wlk.size = Size(j)
            /\ wlk.addr = ((Path(pg, m, cr3, v)[j].f * PageSz) \div Size(j)) * Size(j)
                            + (v % Size(j))
            /\ wlk.w <=> Writable(pg, m, cr3, v, j)
            /\ wlk.u <=> UserToo(pg, m, cr3, v, j)

LEMMA AddrType ==
    ASSUME NEW f \in Nat, NEW l \in 1..4, NEW v \in Nat
    PROVE  ((f * PageSz) \div Size(l)) * Size(l) + (v % Size(l)) \in Nat /\ Size(l) \in Nat
<1>1. \A s \in {2, 4, 8, 16} : ((f * 2) \div s) * s + (v % s) \in Nat
  OBVIOUS
<1>2. Size(l) \in {2, 4, 8, 16}
  BY SizeIs
<1> HIDE DEF Size
<1> QED
  BY <1>1, <1>2 DEF PageSz

\* The entries of level k that map a page, and whether they carry rights.
MapsAt(m, k, large) == \A e \in Entry : MapsPage(m, e, k) <=> (k = 1 \/ (large /\ e.ps))
RightsAt(m, k, rights) == rights <=> ~(k = 3 /\ ~m.lma)

\* The rights of an entry and-ed in, and the five ways a level of the walk ends.
AndRights(wlk, e, rights) ==
    IF rights THEN [wlk EXCEPT !.w = @ /\ e.w, !.u = @ /\ e.u] ELSE wlk
LevelEnds(v, k, large, wlk, e, r, new) ==
    /\ wlk.rc # "WALKING" => new = wlk
    /\ wlk.rc = "WALKING" /\ wlk.f \in Area => new = [wlk EXCEPT !.rc = "FAIL"]
    /\ wlk.rc = "WALKING" /\ wlk.f \notin Area =>
         /\ ~e.p => new = [wlk EXCEPT !.rc = "FAULT"]
         /\ e.p /\ (k = 1 \/ (large /\ e.ps)) =>
              new = [r EXCEPT !.rc = "DONE", !.size = Size(k),
                       !.addr = ((e.f * PageSz) \div Size(k)) * Size(k) + (v % Size(k))]
         /\ e.p /\ ~(k = 1 \/ (large /\ e.ps)) => new = [r EXCEPT !.f = e.f]

LEMMA LevelIs ==
    ASSUME NEW pg, NEW v, NEW k, NEW large, NEW rights, NEW wlk
    PROVE  LevelEnds(v, k, large, wlk, pg[wlk.f][Idx(v, k)],
             AndRights(wlk, pg[wlk.f][Idx(v, k)], rights), Level(pg, v, k, large, rights, wlk))
<1> DEFINE to(y, z) == ((y * PageSz) \div Size(z)) * Size(z) + (v % Size(z))
           x == pg[wlk.f][Idx(v, k)]
           s == AndRights(wlk, x, rights)
           new == Level(pg, v, k, large, rights, wlk)
<1>1. new = IF wlk.rc # "WALKING" THEN wlk
            ELSE IF wlk.f \in Area THEN [wlk EXCEPT !.rc = "FAIL"]
            ELSE IF ~x.p THEN [wlk EXCEPT !.rc = "FAULT"]
            ELSE IF k = 1 \/ (large /\ x.ps)
            THEN [s EXCEPT !.rc = "DONE", !.size = Size(k), !.addr = to(x.f, k)]
            ELSE [s EXCEPT !.f = x.f]
  BY ONLY ZenonT(60) DEF Level, AndRights
<1> SUFFICES LevelEnds(v, k, large, wlk, x, s, new)
  OBVIOUS
<1>2. \A y : to(y, k) = ((y * PageSz) \div Size(k)) * Size(k) + (v % Size(k))
  OBVIOUS
<1> HIDE DEF to, x, s, new
<1> QED
  BY <1>1, <1>2 DEF LevelEnds

LEMMA LevelStep ==
    ASSUME NEW pg \in PageTables, NEW m \in Controls, NEW cr3 \in Frames, NEW v \in Nat,
           NEW k \in 1..Top(m), NEW below, below = k - 1,
           NEW wlk, Walked(pg, m, cr3, v, k, wlk),
           NEW large \in BOOLEAN, NEW rights \in BOOLEAN,
           MapsAt(m, k, large), RightsAt(m, k, rights)
    PROVE  Walked(pg, m, cr3, v, below, Level(pg, v, k, large, rights, wlk))
<1> SUFFICES Walked(pg, m, cr3, v, k - 1, Level(pg, v, k, large, rights, wlk))
  OBVIOUS
<1>0. /\ \A x \in Entry : MapsPage(m, x, k) <=> (k = 1 \/ (large /\ x.ps))
      /\ rights <=> ~(k = 3 /\ ~m.lma)
  BY DEF MapsAt, RightsAt
<1> DEFINE t == TableAt(pg, m, cr3, v, k)
           e == Path(pg, m, cr3, v)[k]
           r == IF rights THEN [wlk EXCEPT !.w = @ /\ e.w, !.u = @ /\ e.u] ELSE wlk
           new == Level(pg, v, k, large, rights, wlk)
           Rec == [rc : {"WALKING", "DONE", "FAULT", "FAIL"}, f : Frames, w : BOOLEAN,
                   u : BOOLEAN, addr : Nat, size : Nat]
           addr == ((e.f * PageSz) \div Size(k)) * Size(k) + (v % Size(k))
<1>1. /\ Top(m) \in 2..4 /\ k \in 1..4 /\ e \in Entry /\ t \in Frames
      /\ e = pg[t][Idx(v, k)] /\ wlk \in Rec
      /\ k > 1 => TableAt(pg, m, cr3, v, k - 1) = e.f
  <2>1. k > 1 => k - 1 \in 1..(Top(m) - 1) /\ (k - 1) + 1 = k
    BY TablesDown
  <2>2. wlk \in Rec /\ Top(m) \in 2..4 /\ k \in 1..4
    BY TablesDown DEF Walked
  <2>3. e \in Entry /\ t \in Frames /\ e = pg[t][Idx(v, k)]
    BY TablesDown
  <2>4. k > 1 => TableAt(pg, m, cr3, v, k - 1) = Path(pg, m, cr3, v)[(k - 1) + 1].f
    BY <2>1, TablesDown
  <2> QED
    BY <2>1, <2>2, <2>3, <2>4
<1> DEFINE x == pg[wlk.f][Idx(v, k)]
           q == AndRights(wlk, x, rights)
<1>x. wlk.f = t => x = e /\ q = r
  BY <1>1 DEF AndRights
<1>l. LevelEnds(v, k, large, wlk, x, q, new)
  BY ONLY LevelIs
<1> SUFFICES Walked(pg, m, cr3, v, k - 1, new)
  OBVIOUS
<1> HIDE DEF new, x, q
<1>2. CASE wlk.rc # "WALKING"
  <2>1. new = wlk
    BY <1>2, <1>l DEF LevelEnds
  <2>2. (k + 1)..Top(m) \subseteq ((k - 1) + 1)..Top(m)
    BY <1>1
  <2> QED
    BY <1>2, <2>1, <2>2 DEF Walked
<1>3. CASE wlk.rc = "WALKING"
  <2>1. /\ wlk.f = t /\ Down(pg, m, cr3, v, k) /\ k \in ((k - 1) + 1)..Top(m)
        /\ wlk.w <=> Writable(pg, m, cr3, v, k + 1)
        /\ wlk.u <=> UserToo(pg, m, cr3, v, k + 1)
    BY <1>1, <1>3 DEF Walked
  <2>2. CASE t \in Area
    <3>1. new = [wlk EXCEPT !.rc = "FAIL"]
      BY <1>3, <1>l, <2>1, <2>2 DEF LevelEnds
    <3>2. new \in Rec /\ new.rc = "FAIL"
      <4>1. wlk \in Rec
        BY <1>1
      <4> QED
        BY <3>1, <4>1 DEF Rec
    <3> QED
      BY <2>1, <2>2, <3>2 DEF Walked
  <2>3. CASE t \notin Area /\ ~e.p
    <3>1. new = [wlk EXCEPT !.rc = "FAULT"]
      <4>1. wlk.f \notin Area /\ ~x.p
        BY <1>x, <2>1, <2>3
      <4> QED
        BY <1>3, <1>l, <4>1 DEF LevelEnds
    <3>2. new \in Rec /\ new.rc = "FAULT"
      BY <1>1, <3>1
    <3> QED
      BY <2>1, <2>3, <3>2 DEF Walked
  <2>4. r \in Rec /\ r.rc = wlk.rc /\ r.f = wlk.f
    BY <1>1 DEF Entry
  <2>5. /\ r.w <=> Writable(pg, m, cr3, v, k)
        /\ r.u <=> UserToo(pg, m, cr3, v, k)
    <3>1. k..Top(m) = {k} \cup (k + 1)..Top(m)
      BY <1>1
    <3>2. /\ Writable(pg, m, cr3, v, k) <=> (~rights \/ e.w) /\ Writable(pg, m, cr3, v, k + 1)
          /\ UserToo(pg, m, cr3, v, k) <=> (~rights \/ e.u) /\ UserToo(pg, m, cr3, v, k + 1)
      BY <1>0, <3>1 DEF Writable, UserToo
    <3>3. /\ r.w <=> (~rights \/ e.w) /\ wlk.w
          /\ r.u <=> (~rights \/ e.u) /\ wlk.u
      BY <1>1 DEF Entry
    <3> QED
      BY <2>1, <3>2, <3>3
  <2>6. CASE t \notin Area /\ e.p /\ MapsPage(m, e, k)
    <3>1. new = [r EXCEPT !.rc = "DONE", !.size = Size(k), !.addr = addr]
      BY <1>0, <1>1, <1>3, <1>l, <1>x, <2>1, <2>6 DEF LevelEnds
    <3>2. addr \in Nat /\ Size(k) \in Nat
      BY <1>1, AddrType, MemoryAssumption DEF Entry
    <3> HIDE DEF r, addr
    <3>3. /\ new \in Rec /\ new.rc = "DONE" /\ new.size = Size(k) /\ new.addr = addr
          /\ new.w = r.w /\ new.u = r.u
      BY <2>4, <3>1, <3>2
    <3>4. Walked(pg, m, cr3, v, k - 1, new)
      BY <2>1, <2>5, <2>6, <3>3 DEF Walked, addr
    <3> QED
      BY <3>4
  <2>7. CASE t \notin Area /\ e.p /\ ~MapsPage(m, e, k)
    <3>1. new = [r EXCEPT !.f = e.f]
      BY <1>0, <1>1, <1>3, <1>l, <1>x, <2>1, <2>7 DEF LevelEnds
    <3>2. /\ new \in Rec /\ new.rc = "WALKING" /\ new.f = e.f
          /\ new.w = r.w /\ new.u = r.u
      <4> HIDE DEF r
      <4> QED
        BY <1>1, <1>3, <2>4, <3>1 DEF Entry
    <3>3. Down(pg, m, cr3, v, k - 1)
      <4>1. ((k - 1) + 1)..Top(m) = {k} \cup (k + 1)..Top(m)
        BY <1>1
      <4> QED
        BY <2>1, <2>7, <4>1 DEF Down
    <3>4. (k - 1) + 1 = k
      BY <1>1
    <3>5. k - 1 > 0 => new.f = TableAt(pg, m, cr3, v, k - 1)
      BY <1>1, <3>2
    <3> HIDE DEF r
    <3>6. Walked(pg, m, cr3, v, k - 1, new)
      BY <2>5, <3>2, <3>3, <3>4, <3>5 DEF Walked
    <3> QED
      BY <3>6
  <2> QED
    BY <2>2, <2>3, <2>6, <2>7
<1> QED
  BY <1>2, <1>3

\* __pg_walk has looked at every level it had to.
LEMMA WalkEnds ==
    ASSUME NEW pg \in PageTables, NEW m \in Controls, NEW cr3 \in Frames, NEW v \in Nat,
           LargeAgree(m)
    PROVE  /\ Walked(pg, m, cr3, v, 0, __pg_walk(pg, m, cr3, v))
           /\ __pg_walk(pg, m, cr3, v).rc # "WALKING"
<1>1. Walked(pg, m, cr3, v, Top(m), WalkStart(cr3))
  <2>1. (Top(m) + 1)..Top(m) = {}
    BY TablesDown
  <2>2. WalkStart(cr3) \in [rc : {"WALKING", "DONE", "FAULT", "FAIL"}, f : Frames, w : BOOLEAN,
                            u : BOOLEAN, addr : Nat, size : Nat]
    BY DEF WalkStart
  <2>3. WalkStart(cr3).rc = "WALKING" /\ WalkStart(cr3).f = cr3
        /\ WalkStart(cr3).w /\ WalkStart(cr3).u
    BY DEF WalkStart
  <2>4. /\ Down(pg, m, cr3, v, Top(m)) /\ Writable(pg, m, cr3, v, Top(m) + 1)
        /\ UserToo(pg, m, cr3, v, Top(m) + 1)
    BY <2>1 DEF Down, Writable, UserToo
  <2>5. TableAt(pg, m, cr3, v, Top(m)) = cr3
    BY TablesDown
  <2> QED
    BY <2>2, <2>3, <2>4, <2>5 DEF Walked
<1>2. /\ m.pg \in BOOLEAN /\ m.pae \in BOOLEAN /\ m.pse \in BOOLEAN /\ m.lma \in BOOLEAN
  BY DEF Controls
<1>b. \A k \in {1, 2, 4} : RightsAt(m, k, TRUE)
  BY DEF RightsAt
<1>a. \A e \in Entry : e.ps \in BOOLEAN
  BY DEF Entry
<1>3. Walked(pg, m, cr3, v, 0, __pg_walk(pg, m, cr3, v))
  <2>1. CASE m.lma
    <3> DEFINE a == Level(pg, v, 4, FALSE, TRUE, WalkStart(cr3))
               b == Level(pg, v, 3, TRUE, TRUE, a)
               d == Level(pg, v, 2, TRUE, TRUE, b)
               z == Level(pg, v, 1, FALSE, TRUE, d)
    <3>1. Top(m) = 4
      BY <2>1 DEF Top
    <3>a. /\ 4 \in 1..Top(m) /\ 3 = 4 - 1 /\ 3 \in 1..Top(m) /\ 2 = 3 - 1
           /\ 2 \in 1..Top(m) /\ 1 = 2 - 1 /\ 1 \in 1..Top(m) /\ 0 = 1 - 1
      BY <3>1
    <3>b. Walked(pg, m, cr3, v, 4, WalkStart(cr3))
      BY <1>1, <3>1
    <3>c. TRUE \in BOOLEAN /\ FALSE \in BOOLEAN
      OBVIOUS
    <3>2. Walked(pg, m, cr3, v, 3, a)
      <4>1. MapsAt(m, 4, FALSE)
        BY <1>a DEF MapsAt, MapsPage
      <4> HIDE DEF a
      <4> QED
        BY <3>b, <3>a, <3>c, <4>1, <1>b, LevelStep, Zenon DEF a
    <3>3. Walked(pg, m, cr3, v, 2, b)
      <4>1. MapsAt(m, 3, TRUE)
        BY <1>a, <2>1 DEF MapsAt, MapsPage
      <4>2. RightsAt(m, 3, TRUE)
        BY <2>1 DEF RightsAt
      <4>3. Walked(pg, m, cr3, v, 3, a)
        BY <3>2
      <4> HIDE DEF a
      <4> QED
        BY <3>a, <3>c, <4>1, <4>2, <4>3, <1>b, LevelStep, Zenon
    <3>4. Walked(pg, m, cr3, v, 1, d)
      <4>1. MapsAt(m, 2, TRUE)
        BY <1>a, <2>1 DEF MapsAt, MapsPage
      <4>2. Walked(pg, m, cr3, v, 2, b)
        BY <3>3
      <4> HIDE DEF b
      <4> QED
        BY <3>a, <3>c, <4>1, <4>2, <1>b, LevelStep, Zenon
    <3>5. Walked(pg, m, cr3, v, 0, z)
      <4>1. MapsAt(m, 1, FALSE)
        BY <1>a DEF MapsAt, MapsPage
      <4>2. Walked(pg, m, cr3, v, 1, d)
        BY <3>4
      <4> HIDE DEF d
      <4> QED
        BY <3>a, <3>c, <4>1, <4>2, <1>b, LevelStep, Zenon
    <3>6. __pg_walk(pg, m, cr3, v) = z
      BY <2>1 DEF __pg_walk, __pg_walk_lmode
    <3> HIDE DEF z
    <3> QED
      BY <3>5, <3>6
  <2>2. CASE ~m.lma /\ m.pae
    <3> DEFINE b == Level(pg, v, 3, FALSE, FALSE, WalkStart(cr3))
               d == Level(pg, v, 2, m.pse, TRUE, b)
               z == Level(pg, v, 1, FALSE, TRUE, d)
    <3>1. Top(m) = 3
      BY <2>2 DEF Top
    <3>a. /\ 3 \in 1..Top(m) /\ 2 = 3 - 1 /\ 2 \in 1..Top(m) /\ 1 = 2 - 1
           /\ 1 \in 1..Top(m) /\ 0 = 1 - 1
      BY <3>1
    <3>b. Walked(pg, m, cr3, v, 3, WalkStart(cr3))
      BY <1>1, <3>1
    <3>c. TRUE \in BOOLEAN /\ FALSE \in BOOLEAN
      OBVIOUS
    <3>3. Walked(pg, m, cr3, v, 2, b)
      <4>1. MapsAt(m, 3, FALSE)
        BY <1>a, <2>2 DEF MapsAt, MapsPage
      <4>2. RightsAt(m, 3, FALSE)
        BY <2>2 DEF RightsAt
      <4> HIDE DEF b
      <4> QED
        BY <3>b, <3>a, <3>c, <4>1, <4>2, <1>b, LevelStep, Zenon DEF b
    <3>4. Walked(pg, m, cr3, v, 1, d)
      <4>1. MapsAt(m, 2, m.pse)
        BY <1>a, <2>2 DEF MapsAt, MapsPage, LargeAgree
      <4>2. Walked(pg, m, cr3, v, 2, b)
        BY <3>3
      <4> HIDE DEF b
      <4> QED
        BY <1>2, <3>a, <3>c, <4>1, <4>2, <1>b, LevelStep, Zenon
    <3>5. Walked(pg, m, cr3, v, 0, z)
      <4>1. MapsAt(m, 1, FALSE)
        BY <1>a DEF MapsAt, MapsPage
      <4>2. Walked(pg, m, cr3, v, 1, d)
        BY <3>4
      <4> HIDE DEF d
      <4> QED
        BY <3>a, <3>c, <4>1, <4>2, <1>b, LevelStep, Zenon
    <3>6. __pg_walk(pg, m, cr3, v) = z
      BY <2>2 DEF __pg_walk, __pg_walk_pmode_pae
    <3> HIDE DEF z
    <3> QED
      BY <3>5, <3>6
  <2>3. CASE ~m.lma /\ ~m.pae
    <3> DEFINE d == Level(pg, v, 2, m.pse, TRUE, WalkStart(cr3))
               z == Level(pg, v, 1, FALSE, TRUE, d)
    <3>1. Top(m) = 2
      BY <2>3 DEF Top
    <3>a. /\ 2 \in 1..Top(m) /\ 1 = 2 - 1 /\ 1 \in 1..Top(m) /\ 0 = 1 - 1
      BY <3>1
    <3>b. Walked(pg, m, cr3, v, 2, WalkStart(cr3))
      BY <1>1, <3>1
    <3>c. TRUE \in BOOLEAN /\ FALSE \in BOOLEAN
      OBVIOUS
    <3>4. Walked(pg, m, cr3, v, 1, d)
      <4>1. MapsAt(m, 2, m.pse)
        BY <1>a, <2>3 DEF MapsAt, MapsPage
      <4> HIDE DEF d
      <4> QED
        BY <3>b, <1>2, <3>a, <3>c, <4>1, <1>b, LevelStep, Zenon DEF d
    <3>5. Walked(pg, m, cr3, v, 0, z)
      <4>1. MapsAt(m, 1, FALSE)
        BY <1>a DEF MapsAt, MapsPage
      <4>2. Walked(pg, m, cr3, v, 1, d)
        BY <3>4
      <4> HIDE DEF d
      <4> QED
        BY <3>a, <3>c, <4>1, <4>2, <1>b, LevelStep, Zenon
    <3>6. __pg_walk(pg, m, cr3, v) = z
      BY <2>3 DEF __pg_walk, __pg_walk_pmode
    <3> HIDE DEF z
    <3> QED
      BY <3>5, <3>6
  <2> QED
    BY <2>1, <2>2, <2>3
<1>4. ASSUME __pg_walk(pg, m, cr3, v).rc = "WALKING" PROVE FALSE
  <2>1. Down(pg, m, cr3, v, 0)
    BY <1>3, <1>4 DEF Walked
  <2>2. 1 \in (0 + 1)..Top(m)
    BY TablesDown
  <2>3. ~MapsPage(m, Path(pg, m, cr3, v)[1], 1)
    BY <2>1, <2>2 DEF Down
  <2> QED
    BY <1>a, <2>3 DEF MapsAt, MapsPage
<1> QED
  BY <1>3, <1>4

\* The reference: the leaf is the first level from above that maps a page.
LEMMA LeafIs ==
    ASSUME NEW pg \in PageTables, NEW m \in Controls, NEW cr3 \in Frames, NEW v \in Nat
    PROVE  /\ Leaf(pg, m, cr3, v) \in 1..Top(m)
           /\ MapsPage(m, Path(pg, m, cr3, v)[Leaf(pg, m, cr3, v)], Leaf(pg, m, cr3, v))
           /\ \A j \in 1..Top(m) : MapsPage(m, Path(pg, m, cr3, v)[j], j) =>
                                     j <= Leaf(pg, m, cr3, v)
<1> DEFINE S == {l \in 1..Top(m) : MapsPage(m, Path(pg, m, cr3, v)[l], l)}
<1>1. Top(m) \in 2..4
  BY TablesDown
<1>2. S \subseteq 1..4 /\ 1 \in S
  BY <1>1 DEF MapsPage
<1>3. \A x : x \in S <=> x \in 1..Top(m) /\ MapsPage(m, Path(pg, m, cr3, v)[x], x)
  OBVIOUS
<1>4. Leaf(pg, m, cr3, v) = Max(S)
  BY DEF Leaf
<1> HIDE DEF S
<1>5. \E x \in S : \A y \in S : x >= y
  <2>1. CASE 4 \in S
    BY <1>2, <2>1
  <2>2. CASE 4 \notin S /\ 3 \in S
    BY <1>2, <2>2
  <2>3. CASE 4 \notin S /\ 3 \notin S /\ 2 \in S
    BY <1>2, <2>3
  <2>4. CASE 4 \notin S /\ 3 \notin S /\ 2 \notin S
    BY <1>2, <2>4
  <2> QED
    BY <2>1, <2>2, <2>3, <2>4
<1>6. Max(S) \in S /\ \A y \in S : Max(S) >= y
  BY <1>5 DEF Max
<1>7. Max(S) \in 1..4
  BY <1>2, <1>6
<1> QED
  BY <1>1, <1>2, <1>3, <1>4, <1>6, <1>7

LEMMA AllowedIs ==
    ASSUME NEW pg \in PageTables, NEW m \in Controls, NEW cr3 \in Frames, NEW v \in Nat,
           NEW wr \in BOOLEAN
    PROVE  Allowed(pg, m, wr, cr3, v) <=>
             /\ wr => Writable(pg, m, cr3, v, Leaf(pg, m, cr3, v))
             /\ m.cpl = 3 => UserToo(pg, m, cr3, v, Leaf(pg, m, cr3, v))
<1>1. CASE wr /\ m.cpl = 3
  BY <1>1 DEF Allowed, Writable, UserToo
<1>2. CASE wr /\ m.cpl # 3
  BY <1>2 DEF Allowed, Writable, UserToo
<1>3. CASE ~wr /\ m.cpl = 3
  BY <1>3 DEF Allowed, Writable, UserToo
<1>4. CASE ~wr /\ m.cpl # 3
  BY <1>4 DEF Allowed, Writable, UserToo
<1> QED
  BY <1>1, <1>2, <1>3, <1>4

\* The walk and the memory management unit agree about one address.
LEMMA WalkIs ==
    ASSUME NEW pg \in PageTables, NEW m \in Controls, NEW cr3 \in Frames, NEW v \in Nat,
           LargeAgree(m), NEW wlk, wlk = __pg_walk(pg, m, cr3, v),
           NEW l, l = Leaf(pg, m, cr3, v)
    PROVE  /\ wlk.rc \in {"DONE", "FAULT", "FAIL"}
           /\ wlk.rc = "FAIL" => \E j \in l..Top(m) : TableAt(pg, m, cr3, v, j) \in Area
           /\ wlk.rc = "FAULT" => ~Mapped(pg, m, cr3, v)
           /\ wlk.rc = "DONE" =>
                /\ Mapped(pg, m, cr3, v) /\ wlk.size = Size(l)
                /\ ~ThroughVmm(pg, m, cr3, v)
                /\ wlk.addr = Translate(pg, m, cr3, v)
                /\ wlk.w <=> Writable(pg, m, cr3, v, l)
                /\ wlk.u <=> UserToo(pg, m, cr3, v, l)
           /\ wlk \in [rc : {"WALKING", "DONE", "FAULT", "FAIL"}, f : Frames, w : BOOLEAN,
                       u : BOOLEAN, addr : Nat, size : Nat]
<1>1. Walked(pg, m, cr3, v, 0, wlk) /\ wlk.rc # "WALKING"
  BY WalkEnds
<1>2. /\ Top(m) \in 2..4 /\ l \in 1..Top(m) /\ MapsPage(m, Path(pg, m, cr3, v)[l], l)
      /\ \A j \in 1..Top(m) : MapsPage(m, Path(pg, m, cr3, v)[j], j) => j <= l
  BY TablesDown, LeafIs
<1>3. (0 + 1)..Top(m) = 1..Top(m)
  OBVIOUS
<1>4. \A j \in 1..Top(m) : Down(pg, m, cr3, v, j) => l <= j
  BY <1>2 DEF Down
<1>5. wlk.rc = "FAIL" => \E j \in l..Top(m) : TableAt(pg, m, cr3, v, j) \in Area
  <2>1. \A j \in 1..Top(m) : l <= j => j \in l..Top(m)
    BY <1>2
  <2> QED
    BY <1>1, <1>3, <1>4, <2>1 DEF Walked
<1>6. wlk.rc = "FAULT" => ~Mapped(pg, m, cr3, v)
  <2>1. \A j \in 1..Top(m) : l <= j => j \in l..Top(m)
    BY <1>2
  <2> QED
    BY <1>1, <1>3, <1>4, <2>1 DEF Walked, Mapped
<1>7. ASSUME wlk.rc = "DONE"
      PROVE  /\ Mapped(pg, m, cr3, v) /\ wlk.size = Size(l)
             /\ ~ThroughVmm(pg, m, cr3, v)
             /\ wlk.addr = Translate(pg, m, cr3, v)
             /\ wlk.w <=> Writable(pg, m, cr3, v, l)
             /\ wlk.u <=> UserToo(pg, m, cr3, v, l)
  <2>1. PICK j \in 1..Top(m) :
          /\ Down(pg, m, cr3, v, j) /\ Path(pg, m, cr3, v)[j].p
          /\ TableAt(pg, m, cr3, v, j) \notin Area
          /\ MapsPage(m, Path(pg, m, cr3, v)[j], j)
          /\ wlk.size = Size(j)
          /\ wlk.addr = ((Path(pg, m, cr3, v)[j].f * PageSz) \div Size(j)) * Size(j)
                          + (v % Size(j))
          /\ wlk.w <=> Writable(pg, m, cr3, v, j)
          /\ wlk.u <=> UserToo(pg, m, cr3, v, j)
    BY <1>1, <1>3, <1>7 DEF Walked
  <2>2. j = l
    BY <1>2, <1>4, <2>1
  <2>3. Mapped(pg, m, cr3, v) /\ ~ThroughVmm(pg, m, cr3, v)
    <3>1. \A i \in l..Top(m) : i = l \/ i \in (l + 1)..Top(m)
      BY <1>2
    <3> QED
      BY <2>1, <2>2, <3>1 DEF Mapped, ThroughVmm, Down
  <2> QED
    BY <2>1, <2>2, <2>3 DEF Translate
<1> QED
  BY <1>1, <1>5, <1>6, <1>7 DEF Walked

\* The addresses of one page share its tables and its rights.
LEMMA SamePage ==
    ASSUME NEW pg \in PageTables, NEW m \in Controls, NEW cr3 \in Frames,
           NEW v \in Nat, NEW w \in Nat, NEW l, l = Leaf(pg, m, cr3, v),
           v \div Size(l) = w \div Size(l)
    PROVE  /\ Leaf(pg, m, cr3, w) = l
           /\ Translate(pg, m, cr3, w) = Translate(pg, m, cr3, v) + (w - v)
           /\ Mapped(pg, m, cr3, w) <=> Mapped(pg, m, cr3, v)
           /\ Writable(pg, m, cr3, w, l) <=> Writable(pg, m, cr3, v, l)
           /\ UserToo(pg, m, cr3, w, l) <=> UserToo(pg, m, cr3, v, l)
           /\ ThroughVmm(pg, m, cr3, w) <=> ThroughVmm(pg, m, cr3, v)
<1> DEFINE Tv(j) == TableAt(pg, m, cr3, v, j)
           Tw(j) == TableAt(pg, m, cr3, w, j)
           Xv == Path(pg, m, cr3, v)
           Xw == Path(pg, m, cr3, w)
<1>1. Top(m) \in 2..4 /\ l \in 1..Top(m) /\ l \in 1..4
  <2>1. Top(m) \in 2..4
    BY TablesDown
  <2>2. l \in 1..Top(m)
    BY LeafIs
  <2> QED
    BY <2>1, <2>2
<1>2. /\ \A j \in l..4 : Idx(v, j) = Idx(w, j)
      /\ (w % Size(l)) - (v % Size(l)) = w - v
  BY <1>1, SameBlock
<1>3. /\ Tv(Top(m)) = cr3 /\ Tw(Top(m)) = cr3
      /\ \A j \in 1..Top(m) : Xv[j] = pg[Tv(j)][Idx(v, j)] /\ Xw[j] = pg[Tw(j)][Idx(w, j)]
      /\ \A j \in 1..(Top(m) - 1) : Tv(j) = Xv[j + 1].f /\ Tw(j) = Xw[j + 1].f
  BY TablesDown
<1> HIDE DEF Tv, Tw, Xv, Xw
<1>4. \A j \in l..(Top(m) - 1) : Tv(j + 1) = Tw(j + 1) => Tv(j) = Tw(j)
  <2> TAKE j \in l..(Top(m) - 1)
  <2>1. j + 1 \in l..4 /\ j + 1 \in 1..Top(m) /\ j \in 1..(Top(m) - 1)
    BY <1>1
  <2> QED
    BY <1>2, <1>3, <2>1
<1>5. \A j \in l..Top(m) : Tv(j) = Tw(j)
  <2>1. CASE Top(m) = 2
    <3>1. l <= 1 => Tv(1) = Tw(1)
      BY <1>1, <1>3, <1>4, <2>1
    <3> QED
      BY <1>1, <1>3, <2>1, <3>1
  <2>2. CASE Top(m) = 3
    <3>1. l <= 2 => Tv(2) = Tw(2)
      BY <1>1, <1>3, <1>4, <2>2
    <3>2. l <= 1 => Tv(1) = Tw(1)
      BY <1>1, <1>4, <2>2, <3>1
    <3> QED
      BY <1>1, <1>3, <2>2, <3>1, <3>2
  <2>3. CASE Top(m) = 4
    <3>1. l <= 3 => Tv(3) = Tw(3)
      BY <1>1, <1>3, <1>4, <2>3
    <3>2. l <= 2 => Tv(2) = Tw(2)
      BY <1>1, <1>4, <2>3, <3>1
    <3>3. l <= 1 => Tv(1) = Tw(1)
      BY <1>1, <1>4, <2>3, <3>2
    <3> QED
      BY <1>1, <1>3, <2>3, <3>1, <3>2, <3>3
  <2> QED
    BY <1>1, <2>1, <2>2, <2>3
<1>6. \A j \in l..Top(m) : Xv[j] = Xw[j]
  <2> TAKE j \in l..Top(m)
  <2>1. j \in l..4 /\ j \in 1..Top(m)
    BY <1>1
  <2> QED
    BY <1>2, <1>3, <1>5, <2>1
<1>7. Leaf(pg, m, cr3, w) = l
  <2> DEFINE k == Leaf(pg, m, cr3, w)
  <2>1. /\ k \in 1..Top(m) /\ MapsPage(m, Xw[k], k)
        /\ \A j \in 1..Top(m) : MapsPage(m, Xw[j], j) => j <= k
    BY LeafIs DEF Xw
  <2>2. /\ MapsPage(m, Xv[l], l)
        /\ \A j \in 1..Top(m) : MapsPage(m, Xv[j], j) => j <= l
    BY LeafIs DEF Xv
  <2> HIDE DEF k
  <2>3. l <= k
    <3>1. l \in l..Top(m)
      BY <1>1
    <3> QED
      BY <1>1, <1>6, <2>1, <2>2, <3>1
  <2>4. k \in l..Top(m)
    BY <1>1, <2>1, <2>3
  <2>5. k <= l
    BY <1>6, <2>1, <2>2, <2>4
  <2>6. k = l
    BY <1>1, <2>1, <2>3, <2>5
  <2> QED
    BY <2>6 DEF k
<1>8. /\ Mapped(pg, m, cr3, w) <=> Mapped(pg, m, cr3, v)
      /\ Writable(pg, m, cr3, w, l) <=> Writable(pg, m, cr3, v, l)
      /\ UserToo(pg, m, cr3, w, l) <=> UserToo(pg, m, cr3, v, l)
  BY <1>6, <1>7 DEF Mapped, Writable, UserToo, Xv, Xw
<1>10. ThroughVmm(pg, m, cr3, w) <=> ThroughVmm(pg, m, cr3, v)
  BY <1>5, <1>7 DEF ThroughVmm, Tv, Tw
<1>9. Translate(pg, m, cr3, w) = Translate(pg, m, cr3, v) + (w - v)
  <2> DEFINE base == ((Xv[l].f * PageSz) \div Size(l)) * Size(l)
  <2>1. l \in l..Top(m)
    BY <1>1
  <2>2. /\ Translate(pg, m, cr3, v) = base + (v % Size(l))
        /\ Translate(pg, m, cr3, w) = base + (w % Size(l))
    BY <1>6, <1>7, <2>1 DEF Translate, Xv, Xw
  <2>3. Size(l) \in {2, 4, 8, 16}
    BY <1>1, SizeIs
  <2>4. Xv[l].f \in Nat
    BY <1>1, TablesDown, MemoryAssumption DEF Xv, Entry
  <2>5. base \in Nat
    <3>1. \A s \in {2, 4, 8, 16} : ((Xv[l].f * 2) \div s) * s \in Nat
      BY <2>4
    <3> QED
      BY <2>3, <3>1 DEF PageSz
  <2>6. v % Size(l) \in Nat /\ w % Size(l) \in Nat
    BY <2>3
  <2> HIDE DEF base
  <2> QED
    BY <1>2, <2>2, <2>5, <2>6
<1> QED
  BY <1>7, <1>8, <1>9, <1>10

(***************************************************************************)
(* The access                                                              *)
(***************************************************************************)
\* What the guest itself may do with an address.
May(pg, m, wr, a) == Mapped(pg, m, 0, a) /\ Allowed(pg, m, wr, 0, a)

\* A byte of the VMM is at a only beside one outside its area: in the same
\* page, and among the n bytes at v.
Place(pg, m, a) == IF m.pg THEN Translate(pg, m, 0, a) ELSE a
Beside(pg, m, v, n, a) ==
    vmm_area(Place(pg, m, a)) =>
      \E b \in Nat : /\ v <= b /\ b < v + n /\ OnePage(pg, m, 0, a, b)
                     /\ ~vmm_area(Place(pg, m, b))

\* acc is what the guest would have touched of the n bytes at v, up to the
\* first it could not have touched.
Exact(pg, m, wr, v, n, acc) ==
    /\ acc \in [rc : {"DONE", "FAULT", "FAIL"}, bytes : Seq(Nat)]
    /\ Len(acc.bytes) <= n
    /\ \A i \in 1..Len(acc.bytes) :
         /\ acc.bytes[i] = Translate(pg, m, 0, v + i - 1) /\ May(pg, m, wr, v + i - 1)
         /\ ~ThroughVmm(pg, m, 0, v + i - 1) /\ Beside(pg, m, v, n, v + i - 1)
    /\ acc.rc = "DONE" => Len(acc.bytes) = n
    /\ acc.rc = "FAULT" => Len(acc.bytes) < n /\ ~May(pg, m, wr, v + Len(acc.bytes))
    /\ acc.rc = "FAIL" => \E i \in 1..n : OfVmm(pg, m, 0, v + i - 1)

LEMMA ValidateIs ==
    ASSUME NEW pg \in PageTables, NEW m \in Controls, m.pg, LargeAgree(m),
           NEW wr \in BOOLEAN, NEW v \in Nat, NEW l, l = Leaf(pg, m, 0, v),
           NEW wlk, wlk = __vm_access_validate(pg, m, "VM", wr, 0, v)
    PROVE  /\ wlk.rc \in {"DONE", "FAULT", "FAIL"}
           /\ wlk.rc = "FAIL" => OfVmm(pg, m, 0, v)
           /\ wlk.rc = "FAULT" => ~May(pg, m, wr, v)
           /\ wlk.rc = "DONE" => /\ May(pg, m, wr, v) /\ wlk.size = Size(l)
                                 /\ ~ThroughVmm(pg, m, 0, v)
                                 /\ wlk.addr = Translate(pg, m, 0, v) /\ wlk.addr \in Nat
<1> DEFINE w == __pg_walk(pg, m, 0, v)
           denied == (wr /\ ~w.w) \/ (m.cpl = 3 /\ ~w.u)
<1>0. 0 \in Frames /\ m.cpl \in {0, 3}
  BY MemoryAssumption DEF Controls
<1>1. /\ w.rc \in {"DONE", "FAULT", "FAIL"}
      /\ w.rc = "FAIL" => \E j \in l..Top(m) : TableAt(pg, m, 0, v, j) \in Area
      /\ w.rc = "FAULT" => ~Mapped(pg, m, 0, v)
      /\ w.rc = "DONE" =>
           /\ Mapped(pg, m, 0, v) /\ w.size = Size(l) /\ w.addr = Translate(pg, m, 0, v)
           /\ ~ThroughVmm(pg, m, 0, v)
           /\ w.w <=> Writable(pg, m, 0, v, l)
           /\ w.u <=> UserToo(pg, m, 0, v, l)
      /\ w \in [rc : {"WALKING", "DONE", "FAULT", "FAIL"}, f : Frames, w : BOOLEAN,
                u : BOOLEAN, addr : Nat, size : Nat]
  <2>1. w = __pg_walk(pg, m, 0, v)
    OBVIOUS
  <2> HIDE DEF w
  <2> QED
    BY <1>0, <2>1, WalkIs
<1>2. Allowed(pg, m, wr, 0, v) <=>
        /\ wr => Writable(pg, m, 0, v, l)
        /\ m.cpl = 3 => UserToo(pg, m, 0, v, l)
  BY <1>0, AllowedIs
<1>3. wlk = [w EXCEPT !.rc =
               CASE w.rc = "FAIL" -> "FAIL"
                 [] w.rc = "FAULT" -> "FAULT"
                 [] w.rc = "DONE" -> IF denied THEN "FAULT" ELSE "DONE"]
  BY DEF __vm_access_validate, Validated
<1> HIDE DEF w
<1>4. /\ wlk.addr = w.addr /\ wlk.size = w.size
      /\ wlk.rc = IF w.rc = "DONE" /\ denied THEN "FAULT" ELSE w.rc
  BY <1>1, <1>3
<1>5. w.rc = "DONE" => (denied <=> ~Allowed(pg, m, wr, 0, v))
  BY <1>1, <1>2
<1> HIDE DEF denied
<1>6. wlk.rc = "FAIL" => OfVmm(pg, m, 0, v)
  BY <1>1, <1>4 DEF OfVmm, ThroughVmm
<1> QED
  BY <1>1, <1>4, <1>5, <1>6 DEF May

LEMMA MinIs ==
    ASSUME NEW a \in Nat, NEW b \in Nat
    PROVE  Min({a, b}) = IF a <= b THEN a ELSE b
<1> DEFINE S == {a, b}
<1>1. \E x \in S : \A y \in S : x <= y
  OBVIOUS
<1>2. Min(S) \in S /\ \A y \in S : Min(S) <= y
  BY <1>1 DEF Min
<1> QED
  BY <1>2

\* One turn: the part in the first page, and what the rest comes to.
LEMMA PieceStep ==
    ASSUME NEW pg \in PageTables, NEW m \in Controls, m.pg, LargeAgree(m),
           NEW wr \in BOOLEAN, NEW v \in Nat, NEW n \in Nat, NEW rest,
           \A j \in 0..(n - 1) : Exact(pg, m, wr, v + (n - j), j, rest[j])
    PROVE  Exact(pg, m, wr, v, n, Piece(pg, m, "VM", wr, 0, v, n, rest))
<1> DEFINE wlk == __vm_access_validate(pg, m, "VM", wr, 0, v)
           k == Min({n, AlignNext(v, wlk.size) - v})
           ph == __vm_access_physical(wlk.addr, k)
           acc == Piece(pg, m, "VM", wr, 0, v, n, rest)
           l == Leaf(pg, m, 0, v)
           B(a) == Translate(pg, m, 0, a)
<1>1. CASE n = 0
  <2>1. acc = [rc |-> "DONE", bytes |-> <<>>]
    BY <1>1 DEF Piece, InPage
  <2> HIDE DEF acc
  <2>2. acc \in [rc : {"DONE", "FAULT", "FAIL"}, bytes : Seq(Nat)] /\ Len(acc.bytes) = 0
        /\ acc.rc = "DONE"
    BY <2>1
  <2>3. Exact(pg, m, wr, v, n, acc)
    BY <1>1, <2>2 DEF Exact
  <2> QED
    BY <2>3 DEF acc
<1>2. CASE n > 0
  <2>1. /\ wlk.rc \in {"DONE", "FAULT", "FAIL"}
        /\ wlk.rc = "FAIL" => OfVmm(pg, m, 0, v)
        /\ wlk.rc = "FAULT" => ~May(pg, m, wr, v)
        /\ wlk.rc = "DONE" => /\ May(pg, m, wr, v) /\ wlk.size = Size(l)
                              /\ ~ThroughVmm(pg, m, 0, v)
                              /\ wlk.addr = B(v) /\ wlk.addr \in Nat
    BY ValidateIs
  <2>2. acc = IF wlk.rc # "DONE" THEN [rc |-> wlk.rc, bytes |-> <<>>]
              ELSE IF ph.rc # "DONE" THEN ph
              ELSE [rest[n - k] EXCEPT !.bytes = ph.bytes \o @]
    BY <1>2 DEF Piece, InPage
  <2> HIDE DEF acc
  <2>3. CASE wlk.rc # "DONE"
    <3>1. /\ acc \in [rc : {"DONE", "FAULT", "FAIL"}, bytes : Seq(Nat)]
          /\ Len(acc.bytes) = 0 /\ acc.rc = wlk.rc
      BY <2>1, <2>2, <2>3
    <3>2. v + 0 = v /\ v + 1 - 1 = v /\ 1 \in 1..n
      BY <1>2
    <3>3. acc.rc = "FAIL" => \E i \in 1..n : OfVmm(pg, m, 0, v + i - 1)
      BY <2>1, <3>1, <3>2
    <3>4. acc.rc = "FAULT" => Len(acc.bytes) < n /\ ~May(pg, m, wr, v + Len(acc.bytes))
      BY <1>2, <2>1, <3>1, <3>2
    <3>5. acc.rc # "DONE" /\ Len(acc.bytes) <= n /\ 1..Len(acc.bytes) = {}
      BY <1>2, <2>3, <3>1
    <3>6. Exact(pg, m, wr, v, n, acc)
      BY <3>1, <3>3, <3>4, <3>5 DEF Exact
    <3> QED
      BY <3>6 DEF acc
  <2>4. CASE wlk.rc = "DONE"
    <3>0. 0 \in Frames /\ l \in 1..4
      <4>1. 0 \in Frames
        BY MemoryAssumption
      <4>2. Top(m) \in 2..4 /\ l \in 1..Top(m)
        <5>1. Top(m) \in 2..4
          BY <4>1, TablesDown
        <5>2. l \in 1..Top(m)
          BY <4>1, LeafIs
        <5> QED
          BY <5>1, <5>2
      <4> QED
        BY <4>1, <4>2
    <3> DEFINE z == AlignNext(v, wlk.size)
    <3>1. /\ z \in Nat /\ z > v
          /\ \A w \in Nat : v <= w /\ w < z => w \div Size(l) = v \div Size(l)
      BY <2>1, <2>4, <3>0, NextPage
    <3> HIDE DEF z, l
    <3>2. k = IF n <= z - v THEN n ELSE z - v
      <4>1. z - v \in Nat
        BY <3>1
      <4> QED
        BY <4>1, MinIs DEF z
    <3> HIDE DEF k
    <3>3. k \in 1..n /\ v + k <= z /\ n - k \in 0..(n - 1) /\ v + (n - (n - k)) = v + k
      BY <1>2, <3>1, <3>2
    <3>4. ASSUME NEW i \in 1..k
          PROVE  /\ May(pg, m, wr, v + i - 1) /\ B(v + i - 1) = wlk.addr + i - 1
                 /\ ~ThroughVmm(pg, m, 0, v + i - 1) /\ Leaf(pg, m, 0, v + i - 1) = l
                 /\ (v + i - 1) \div Size(l) = v \div Size(l)
      <4> DEFINE w == v + i - 1
      <4>1. w \in Nat /\ v <= w /\ w < z
        BY <3>1, <3>3
      <4>2. v \div Size(l) = w \div Size(l)
        BY <3>1, <4>1
      <4>3. /\ Leaf(pg, m, 0, w) = l
            /\ B(w) = B(v) + (w - v)
            /\ Mapped(pg, m, 0, w) <=> Mapped(pg, m, 0, v)
            /\ Writable(pg, m, 0, w, l) <=> Writable(pg, m, 0, v, l)
            /\ UserToo(pg, m, 0, w, l) <=> UserToo(pg, m, 0, v, l)
            /\ ThroughVmm(pg, m, 0, w) <=> ThroughVmm(pg, m, 0, v)
        <5> HIDE DEF w
        <5> QED
          BY <3>0, <4>1, <4>2, SamePage DEF l
      <4>4. Allowed(pg, m, wr, 0, w) <=> Allowed(pg, m, wr, 0, v)
        <5>1. Allowed(pg, m, wr, 0, v) <=>
                (wr => Writable(pg, m, 0, v, l)) /\ (m.cpl = 3 => UserToo(pg, m, 0, v, l))
          BY <3>0, AllowedIs DEF l
        <5>2. Allowed(pg, m, wr, 0, w) <=>
                (wr => Writable(pg, m, 0, w, l)) /\ (m.cpl = 3 => UserToo(pg, m, 0, w, l))
          <6> HIDE DEF w
          <6> QED
            BY <3>0, <4>1, <4>3, AllowedIs
        <5> QED
          BY <4>3, <5>1, <5>2
      <4>5. May(pg, m, wr, w)
        BY <2>1, <2>4, <4>3, <4>4 DEF May
      <4>6. B(w) = wlk.addr + i - 1
        <5>1. w - v = i - 1
          OBVIOUS
        <5> HIDE DEF w, B
        <5> QED
          BY <2>1, <2>4, <4>3, <5>1
      <4>7. ~ThroughVmm(pg, m, 0, w) /\ Leaf(pg, m, 0, w) = l /\ w \div Size(l) = v \div Size(l)
        BY <2>1, <2>4, <4>2, <4>3
      <4> QED
        BY <4>5, <4>6, <4>7
    <3> DEFINE a == wlk.addr
    <3>5. a \in Nat /\ a = B(v)
      BY <2>1, <2>4
    <3>6. ph = IF vmm_area_range(a, k) THEN [rc |-> "FAIL", bytes |-> <<>>]
               ELSE [rc |-> "DONE", bytes |-> [i \in 1..k |-> a + i - 1]]
      BY <3>3 DEF __vm_access_physical, __vm_access_system_identity, Operator
    <3> HIDE DEF a, wlk, ph
    <3>7. CASE vmm_area_range(a, k)
      <4>1. vmm_area(B(v))
        <5>1. vmm_area(a)
          BY <3>7 DEF vmm_area_range
        <5> QED
          BY <3>5, <5>1
      <4>2. OfVmm(pg, m, 0, v + 1 - 1) /\ 1 \in 1..n
        <5>1. v + 1 - 1 = v /\ 1 \in 1..n
          BY <1>2
        <5> QED
          BY <4>1, <5>1 DEF OfVmm
      <4>3. /\ acc \in [rc : {"DONE", "FAULT", "FAIL"}, bytes : Seq(Nat)]
            /\ Len(acc.bytes) = 0 /\ acc.rc = "FAIL"
        BY <2>2, <2>4, <3>6, <3>7
      <4>4. Exact(pg, m, wr, v, n, acc)
        BY <4>2, <4>3 DEF Exact
      <4> QED
        BY <4>4 DEF acc
    <3>8. CASE ~vmm_area_range(a, k)
      <4> DEFINE b == [i \in 1..k |-> a + i - 1]
                 r == rest[n - k]
                 w == v + k
      <4>1. Exact(pg, m, wr, w, n - k, r) /\ w \in Nat /\ n - k \in Nat
        BY <3>3
      <4>2. /\ r \in [rc : {"DONE", "FAULT", "FAIL"}, bytes : Seq(Nat)]
            /\ Len(r.bytes) <= n - k
            /\ \A i \in 1..Len(r.bytes) :
                 /\ r.bytes[i] = B(w + i - 1) /\ May(pg, m, wr, w + i - 1)
                 /\ ~ThroughVmm(pg, m, 0, w + i - 1) /\ Beside(pg, m, w, n - k, w + i - 1)
            /\ r.rc = "DONE" => Len(r.bytes) = n - k
            /\ r.rc = "FAULT" => Len(r.bytes) < n - k /\ ~May(pg, m, wr, w + Len(r.bytes))
            /\ r.rc = "FAIL" => \E i \in 1..(n - k) : OfVmm(pg, m, 0, w + i - 1)
        BY <4>1 DEF Exact
      <4> HIDE DEF r, B
      <4>3. ph.rc = "DONE" /\ ph.bytes = b
        BY <3>6, <3>8
      <4>4. b \in Seq(Nat) /\ Len(b) = k /\ \A i \in 1..k : b[i] = a + i - 1
        BY <3>3, <3>5
      <4>5. acc = [r EXCEPT !.bytes = b \o @]
        BY <2>2, <2>4, <4>3 DEF r
      <4> HIDE DEF b
      <4>6. acc.rc = r.rc /\ acc.bytes = b \o r.bytes
            /\ acc \in [rc : {"DONE", "FAULT", "FAIL"}, bytes : Seq(Nat)]
        <5>1. b \o r.bytes \in Seq(Nat)
          BY <4>2, <4>4
        <5>2. r.rc \in {"DONE", "FAULT", "FAIL"} /\ DOMAIN r = {"rc", "bytes"}
          BY <4>2
        <5>3. acc.rc = r.rc /\ acc.bytes = b \o r.bytes
          BY <4>2, <4>5
        <5>4. acc = [rc |-> r.rc, bytes |-> b \o r.bytes]
          BY <4>2, <4>5
        <5> QED
          BY <5>1, <5>2, <5>3, <5>4
      <4> DEFINE q == Len(r.bytes)
      <4>7. /\ q \in Nat /\ Len(acc.bytes) = k + q
            /\ \A i \in 1..k : acc.bytes[i] = b[i]
            /\ \A i \in 1..q : acc.bytes[k + i] = r.bytes[i]
        <5>1. \A x, y \in Seq(Nat) :
                 /\ Len(x \o y) = Len(x) + Len(y)
                 /\ \A i \in 1..Len(x) : (x \o y)[i] = x[i]
                 /\ \A i \in 1..Len(y) : (x \o y)[Len(x) + i] = y[i]
          OBVIOUS
        <5>2. b \in Seq(Nat) /\ r.bytes \in Seq(Nat) /\ Len(b) = k /\ q \in Nat
          BY <4>2, <4>4
        <5> DEFINE y == r.bytes
        <5>3. q = Len(y) /\ y \in Seq(Nat) /\ acc.bytes = b \o y
          BY <4>6, <5>2
        <5> HIDE DEF q, y
        <5>4. /\ Len(b \o y) = k + q
              /\ \A i \in 1..k : (b \o y)[i] = b[i]
              /\ \A i \in 1..q : (b \o y)[k + i] = y[i]
          BY <5>1, <5>2, <5>3
        <5> QED
          BY <5>2, <5>3, <5>4 DEF y
      <4>b. ASSUME NEW i \in 1..k PROVE Beside(pg, m, v, n, v + i - 1)
        <5>1. PICK j \in 1..k : ~vmm_area(a + j - 1)
          <6>1. ~vmm_area(a + 1 - 1) \/ ~vmm_area(a + k - 1)
            <7>1. a + 1 - 1 = a
              BY <3>5
            <7> QED
              BY <3>8, <7>1 DEF vmm_area_range
          <6>2. 1 \in 1..k /\ k \in 1..k
            BY <3>3
          <6> QED
            BY <6>1, <6>2
        <5> DEFINE o == v + j - 1
                   u == v + i - 1
        <5>2. o \in Nat /\ v <= o /\ o < v + n
          BY <3>3
        <5>3. ~vmm_area(Place(pg, m, o))
          BY <3>4, <5>1 DEF Place, a, B
        <5>4. OnePage(pg, m, 0, u, o)
          BY <3>4 DEF OnePage
        <5> HIDE DEF o
        <5> QED
          BY <5>2, <5>3, <5>4 DEF Beside
      <4>w. \A x : Beside(pg, m, w, n - k, x) => Beside(pg, m, v, n, x)
        <5>1. \A o2 \in Nat : w <= o2 /\ o2 < w + (n - k) => v <= o2 /\ o2 < v + n
          BY <3>3
        <5> HIDE DEF w
        <5> QED
          BY <5>1 DEF Beside
      <4>8. \A i \in 1..(k + q) :
              /\ acc.bytes[i] = B(v + i - 1) /\ May(pg, m, wr, v + i - 1)
              /\ ~ThroughVmm(pg, m, 0, v + i - 1) /\ Beside(pg, m, v, n, v + i - 1)
        <5> TAKE i \in 1..(k + q)
        <5>1. CASE i \in 1..k
          BY <3>4, <4>4, <4>7, <4>b, <5>1 DEF a, B
        <5>2. CASE i \notin 1..k
          <6> DEFINE h == i - k
          <6>1. h \in 1..q /\ k + h = i /\ w + h - 1 = v + i - 1
            BY <3>3, <4>7, <5>2
          <6> HIDE DEF w, h, q
          <6>2. acc.bytes[k + h] = r.bytes[h] /\ r.bytes[h] = B(w + h - 1)
                /\ May(pg, m, wr, w + h - 1) /\ ~ThroughVmm(pg, m, 0, w + h - 1)
                /\ Beside(pg, m, v, n, w + h - 1)
            BY <4>2, <4>7, <4>w, <6>1 DEF q
          <6> QED
            BY <6>1, <6>2
        <5> QED
          BY <5>1, <5>2
      <4>9. acc.rc = "FAIL" => \E i \in 1..n : OfVmm(pg, m, 0, v + i - 1)
        <5> SUFFICES ASSUME acc.rc = "FAIL" PROVE \E i \in 1..n : OfVmm(pg, m, 0, v + i - 1)
          OBVIOUS
        <5>1. PICK i \in 1..(n - k) : OfVmm(pg, m, 0, w + i - 1)
          BY <4>2, <4>6
        <5>2. k + i \in 1..n /\ v + (k + i) - 1 = w + i - 1
          BY <3>3
        <5> HIDE DEF w
        <5> QED
          BY <5>1, <5>2
      <4>10. acc.rc = "FAULT" => ~May(pg, m, wr, v + (k + q)) /\ k + q < n
        <5>1. v + (k + q) = w + q /\ (q < n - k => k + q < n)
          BY <3>3, <4>7
        <5> HIDE DEF w
        <5> QED
          BY <4>2, <4>6, <5>1
      <4>11. k + q <= n /\ (q = n - k => k + q = n)
        BY <3>3, <4>2, <4>7
      <4> HIDE DEF q, w
      <4>12. Exact(pg, m, wr, v, n, acc)
        BY <4>2, <4>6, <4>7, <4>8, <4>9, <4>10, <4>11 DEF Exact, B, q
      <4> QED
        BY <4>12 DEF acc
    <3> QED
      BY <3>7, <3>8
  <2> QED
    BY <2>3, <2>4
<1> QED
  BY <1>1, <1>2

\* One turn moves at least a byte, so that it only looks at shorter rests.
LEMMA PieceLooksBack ==
    ASSUME NEW pg \in PageTables, NEW m \in Controls, m.pg, LargeAgree(m),
           NEW wr \in BOOLEAN, NEW v \in Nat, NEW n \in Nat, NEW f, NEW g,
           \A j \in 0..(n - 1) : f[j] = g[j]
    PROVE  Piece(pg, m, "VM", wr, 0, v, n, f) = Piece(pg, m, "VM", wr, 0, v, n, g)
<1> DEFINE wlk == __vm_access_validate(pg, m, "VM", wr, 0, v)
           k == Min({n, AlignNext(v, wlk.size) - v})
           ph == __vm_access_physical(wlk.addr, k)
<1>1. CASE n = 0 \/ wlk.rc # "DONE"
  BY <1>1 DEF Piece, InPage
<1>2. CASE n # 0 /\ wlk.rc = "DONE"
  <2>1. n - k \in 0..(n - 1)
    <3> DEFINE l == Leaf(pg, m, 0, v)
    <3>1. 0 \in Frames
      BY MemoryAssumption
    <3>2. Top(m) \in 2..4
      BY <3>1, TablesDown
    <3>3. l \in 1..Top(m)
      BY <3>1, LeafIs
    <3>4. wlk.size = Size(l)
      BY <1>2, ValidateIs
    <3> HIDE DEF l
    <3>5. AlignNext(v, wlk.size) \in Nat /\ AlignNext(v, wlk.size) > v
      <4>1. l \in 1..4
        BY <3>2, <3>3
      <4> QED
        BY <3>4, <4>1, NextPage
    <3> DEFINE z == AlignNext(v, wlk.size) - v
    <3>6. z \in Nat /\ z > 0
      BY <3>5
    <3> HIDE DEF z
    <3>7. k = IF n <= z THEN n ELSE z
      BY <3>6, MinIs DEF z
    <3> HIDE DEF k
    <3> QED
      BY <1>2, <3>6, <3>7
  <2>2. f[n - k] = g[n - k]
    BY <2>1
  <2> QED
    BY <2>2 DEF Piece, InPage
<1> QED
  BY <1>1, <1>2

\* The pieces of the last n of len bytes at v.
PieceOf(pg, m, wr, v, len, n, f) == Piece(pg, m, "VM", wr, 0, v + len - n, n, f)
Pieces(pg, m, wr, v, len) ==
    CHOOSE piece : piece = [n \in 0..len |-> PieceOf(pg, m, wr, v, len, n, piece)]

LEMMA PiecesExist ==
    ASSUME NEW pg \in PageTables, NEW m \in Controls, m.pg, LargeAgree(m),
           NEW wr \in BOOLEAN, NEW v \in Nat, NEW len \in Nat
    PROVE  Pieces(pg, m, wr, v, len) =
             [n \in 0..len |-> PieceOf(pg, m, wr, v, len, n, Pieces(pg, m, wr, v, len))]
<1> DEFINE Body(n, f) == PieceOf(pg, m, wr, v, len, n, f)
           S == {j \in 0..len : \E f : f = [n \in 0..j |-> Body(n, f)]} \cup {j \in Nat : j > len}
<1>1. ASSUME NEW n \in 0..len, NEW f, NEW g, \A j \in 0..(n - 1) : f[j] = g[j]
      PROVE  Body(n, f) = Body(n, g)
  <2>1. v + len - n \in Nat /\ n \in Nat
    OBVIOUS
  <2> QED
    <3> DEFINE va == v + len - n
    <3>1. va \in Nat
      BY <2>1
    <3> HIDE DEF va
    <3>2. Piece(pg, m, "VM", wr, 0, va, n, f) = Piece(pg, m, "VM", wr, 0, va, n, g)
      BY <1>1, <2>1, <3>1, PieceLooksBack
    <3> QED
      BY <3>2 DEF PieceOf, va
<1> HIDE DEF Body
<1>2. ASSUME NEW i \in Nat, \A j \in 0..(i - 1) : j \in S PROVE i \in S
  <2>1. CASE i > len
    BY <2>1
  <2>2. CASE i <= len /\ i = 0
    <3> DEFINE f == [n \in 0..0 |-> Body(0, <<>>)]
    <3>1. f[0] = Body(0, <<>>)
      OBVIOUS
    <3>2. Body(0, f) = Body(0, <<>>)
      <4>1. 0 \in 0..len /\ \A j \in 0..(0 - 1) : f[j] = <<>>[j]
        OBVIOUS
      <4> HIDE DEF f
      <4> QED
        BY <1>1, <4>1
    <3>3. f = [n \in 0..0 |-> Body(n, f)]
      <4>1. \A n \in 0..0 : n = 0
        OBVIOUS
      <4> QED
        BY <3>2, <4>1
    <3> QED
      BY <2>2, <3>3
  <2>3. CASE i <= len /\ i > 0
    <3>1. i - 1 \in 0..len /\ i - 1 \in S
      BY <1>2, <2>3
    <3>2. PICK f : f = [n \in 0..(i - 1) |-> Body(n, f)]
      BY <3>1
    <3> DEFINE g == [n \in 0..i |-> IF n < i THEN f[n] ELSE Body(i, f)]
    <3>3. \A n \in 0..i : g[n] = IF n < i THEN f[n] ELSE Body(i, f)
      OBVIOUS
    <3>4. ASSUME NEW n \in 0..i PROVE g[n] = Body(n, g)
      <4>1. \A j \in 0..(n - 1) : f[j] = g[j]
        BY <3>3
      <4>2. n \in 0..len
        BY <2>3
      <4> HIDE DEF g
      <4>3. Body(n, f) = Body(n, g)
        BY <1>1, <4>1, <4>2
      <4>4. n < i => n \in 0..(i - 1)
        OBVIOUS
      <4>5. n < i => f[n] = Body(n, f)
        BY <3>2, <4>4
      <4>6. n = i \/ n < i
        OBVIOUS
      <4> QED
        BY <3>3, <4>3, <4>5, <4>6
    <3>5. g = [n \in 0..i |-> Body(n, g)]
      <4>1. g = [n \in 0..i |-> g[n]]
        OBVIOUS
      <4> HIDE DEF g
      <4> QED
        BY <3>4, <4>1
    <3> HIDE DEF g
    <3>6. \E h : h = [n \in 0..i |-> Body(n, h)]
      BY <3>5
    <3>7. i \in 0..len
      BY <2>3
    <3> QED
      BY <3>6, <3>7
  <2> QED
    BY <2>1, <2>2, <2>3
<1>3. len \in S
  <2> HIDE DEF S
  <2> QED
    BY <1>2, Induction
<1>4. \E f : f = [n \in 0..len |-> Body(n, f)]
  BY <1>3
<1> QED
  BY <1>4 DEF Pieces, Body

LEMMA PiecesExact ==
    ASSUME NEW pg \in PageTables, NEW m \in Controls, m.pg, LargeAgree(m),
           NEW wr \in BOOLEAN, NEW v \in Nat, NEW len \in Nat
    PROVE  Exact(pg, m, wr, v, len, Pieces(pg, m, wr, v, len)[len])
<1> DEFINE F == Pieces(pg, m, wr, v, len)
           S == {n \in 0..len : Exact(pg, m, wr, v + len - n, n, F[n])} \cup {n \in Nat : n > len}
<1>1. \A n \in 0..len : F[n] = Piece(pg, m, "VM", wr, 0, v + len - n, n, F)
  BY PiecesExist DEF PieceOf
<1> HIDE DEF F
<1>2. ASSUME NEW i \in Nat, \A j \in 0..(i - 1) : j \in S PROVE i \in S
  <2>1. CASE i > len
    BY <2>1
  <2>2. CASE i <= len
    <3>1. v + len - i \in Nat /\ i \in 0..len
      BY <2>2
    <3>2. ASSUME NEW j \in 0..(i - 1)
          PROVE  Exact(pg, m, wr, (v + len - i) + (i - j), j, F[j])
      <4>1. j \in S /\ j \in 0..len /\ (v + len - i) + (i - j) = v + len - j
        BY <1>2, <2>2
      <4> QED
        BY <4>1
    <3>3. Exact(pg, m, wr, v + len - i, i, Piece(pg, m, "VM", wr, 0, v + len - i, i, F))
      BY <3>1, <3>2, PieceStep
    <3> QED
      BY <1>1, <3>1, <3>3
  <2> QED
    BY <2>1, <2>2
<1>3. len \in S
  <2> HIDE DEF S
  <2> QED
    BY <1>2, Induction
<1>4. v + len - len = v
  OBVIOUS
<1> QED
  BY <1>3, <1>4 DEF F

LEMMA AccessUnfold ==
    ASSUME NEW pg, NEW m, NEW wr, NEW v, NEW len
    PROVE  vm_access_sz(pg, m, wr, v, len) =
             IF ~m.pg THEN __vm_access_physical(v, len) ELSE Pieces(pg, m, wr, v, len)[len]
  BY DEF vm_access_sz, __vm_access_virtual, Pieces, PieceOf

\* Whether the guest may touch a byte.
MayTouch(pg, m, wr, a) == m.pg => May(pg, m, wr, a)

\* What an access of len bytes at v comes to.
Accessed(pg, m, wr, v, len, acc) ==
    /\ acc.rc \in {"DONE", "FAULT", "FAIL"} /\ acc.bytes \in Seq(Nat)
    /\ Len(acc.bytes) \in 0..len
    /\ \A i \in 1..Len(acc.bytes) :
         /\ acc.bytes[i] = Place(pg, m, v + i - 1) /\ MayTouch(pg, m, wr, v + i - 1)
         /\ m.pg => ~ThroughVmm(pg, m, 0, v + i - 1)
         /\ Beside(pg, m, v, len, v + i - 1)
    /\ acc.rc = "DONE" => Len(acc.bytes) = len
    /\ acc.rc = "FAULT" =>
         Len(acc.bytes) < len /\ ~MayTouch(pg, m, wr, v + Len(acc.bytes))
    /\ acc.rc = "FAIL" => \E i \in 1..len : OfVmm(pg, m, 0, v + i - 1)

\* vm_access_sz, with paging or without.
LEMMA AccessIs ==
    ASSUME NEW pg \in PageTables, NEW m \in Controls, LargeAgree(m),
           NEW wr \in BOOLEAN, NEW v \in Nat, NEW len \in Nat
    PROVE  Accessed(pg, m, wr, v, len, vm_access_sz(pg, m, wr, v, len))
<1> DEFINE acc == vm_access_sz(pg, m, wr, v, len)
<1>0. acc = vm_access_sz(pg, m, wr, v, len)
  OBVIOUS
<1> HIDE DEF acc
<1> SUFFICES Accessed(pg, m, wr, v, len, acc)
  BY <1>0
<1>1. CASE m.pg
  <2>1. acc = Pieces(pg, m, wr, v, len)[len]
    BY <1>0, <1>1, AccessUnfold
  <2>2. Exact(pg, m, wr, v, len, acc)
    BY <1>1, <2>1, PiecesExact
  <2>3. Len(acc.bytes) \in Nat
    BY <2>2 DEF Exact
  <2> QED
    BY <1>1, <2>2, <2>3 DEF Exact, Accessed, Place, MayTouch
<1>2. CASE ~m.pg
  <2>1. acc = __vm_access_physical(v, len)
    BY <1>0, <1>2, AccessUnfold
  <2>2. CASE len = 0
    <3>1. acc = [rc |-> "DONE", bytes |-> <<>>]
      BY <2>1, <2>2 DEF __vm_access_physical
    <3>2. /\ acc \in [rc : {"DONE", "FAULT", "FAIL"}, bytes : Seq(Nat)]
          /\ Len(acc.bytes) = 0 /\ acc.rc = "DONE"
      BY <3>1
    <3> QED
      BY <2>2, <3>2 DEF Accessed
  <2>3. CASE len > 0 /\ vmm_area_range(v, len)
    <3>1. acc = [rc |-> "FAIL", bytes |-> <<>>]
      BY <2>1, <2>3 DEF __vm_access_physical, __vm_access_system_identity
    <3>2. /\ acc \in [rc : {"DONE", "FAULT", "FAIL"}, bytes : Seq(Nat)]
          /\ Len(acc.bytes) = 0 /\ acc.rc = "FAIL"
      BY <3>1
    <3>3. vmm_area(v) /\ v + 1 - 1 = v /\ 1 \in 1..len
      BY <2>3 DEF vmm_area_range
    <3>4. \E i \in 1..len : OfVmm(pg, m, 0, v + i - 1)
      BY <1>2, <3>3 DEF OfVmm
    <3>5. 0 \in 0..len /\ \A i \in 1..0 : FALSE
      OBVIOUS
    <3> QED
      BY <3>2, <3>4, <3>5 DEF Accessed
  <2>4. CASE len > 0 /\ ~vmm_area_range(v, len)
    <3> DEFINE b == [i \in 1..len |-> v + i - 1]
    <3>1. acc = [rc |-> "DONE", bytes |-> b]
      BY <2>1, <2>4 DEF __vm_access_physical, __vm_access_system_identity, Operator
    <3>2. b \in Seq(Nat) /\ Len(b) = len /\ \A i \in 1..len : b[i] = v + i - 1
      OBVIOUS
    <3> HIDE DEF b
    <3>3. /\ acc \in [rc : {"DONE", "FAULT", "FAIL"}, bytes : Seq(Nat)]
          /\ acc.bytes = b /\ acc.rc = "DONE"
      BY <3>1, <3>2
    <3>4. Len(acc.bytes) = len /\ len \in 0..len
      BY <3>2, <3>3
    <3>5. \A i \in 1..len :
            acc.bytes[i] = Place(pg, m, v + i - 1) /\ MayTouch(pg, m, wr, v + i - 1)
      BY <1>2, <3>2, <3>3 DEF Place, MayTouch
    <3>6. \A i \in 1..len : Beside(pg, m, v, len, v + i - 1)
      <4>1. \E z \in Nat : v <= z /\ z < v + len /\ ~vmm_area(z)
        <5>1. ~vmm_area(v) \/ ~vmm_area(v + len - 1)
          BY <2>4 DEF vmm_area_range
        <5>2. v + len - 1 \in Nat /\ v <= v + len - 1 /\ v + len - 1 < v + len /\ v < v + len
          BY <2>4
        <5> QED
          BY <5>1, <5>2
      <4> QED
        BY <1>2, <4>1 DEF Beside, OnePage, Place
    <3> QED
      BY <1>2, <3>3, <3>4, <3>5, <3>6 DEF Accessed
  <2> QED
    BY <2>2, <2>3, <2>4
<1> QED
  BY <1>1, <1>2

(***************************************************************************)
(* The guest that executes I/O instructions                                *)
(***************************************************************************)
\* vmx_exit_io.c: how long the memory of an instruction is.
Length(io) == IF io.rep THEN io.sz * io.n ELSE io.sz

LEMMA WantedIs ==
    ASSUME NEW io \in IoInsn
    PROVE  /\ Length(io) \in Nat /\ Len(Wanted(io)) = Length(io)
           /\ \A i \in 1..Length(io) : Wanted(io)[i] = Place(pt, c, io.v + i - 1)
<1>1. io.sz \in {1, 2, 4} /\ io.n \in Nat
  BY DEF IoInsn
<1>2. Length(io) \in Nat
  BY <1>1 DEF Length
<1>3. Wanted(io) = [i \in 1..Length(io) |-> Place(pt, c, io.v + i - 1)]
  BY DEF Wanted, Place, Length
<1>4. \A f, n : (n \in Nat /\ f = [i \in 1..n |-> Place(pt, c, io.v + i - 1)]) =>
        Len(f) = n /\ \A i \in 1..n : f[i] = Place(pt, c, io.v + i - 1)
  OBVIOUS
<1> QED
  BY <1>2, <1>3, <1>4

\* What the processor runs with stays what it is; a page fault gives access.
GuestOK == c \in Controls /\ pt \in PageTables /\ (insn = NoInsn \/ insn \in Insns)

LEMMA GuestInit == StringInit => GuestOK
  BY StringAssumption DEF StringInit, GuestOK

LEMMA GuestStep == GuestOK /\ [StringNext]_strvars => GuestOK'
<1> SUFFICES ASSUME GuestOK, [StringNext]_strvars PROVE GuestOK'
  OBVIOUS
<1>1. CASE Issue
  BY <1>1 DEF Issue, GuestOK
<1>2. CASE vmx_vmexit_resolve_io
  BY <1>2 DEF vmx_vmexit_resolve_io, GuestOK
<1>3. CASE Retire
  BY <1>3 DEF Retire, GuestOK
<1>4. CASE PageIn
  <2> DEFINE open(e) == [e EXCEPT !.p = TRUE, !.w = TRUE, !.u = TRUE]
  <2>1. pt' = [f \in Frames |-> [i \in 0..1 |-> open(pt[f][i])]]
    BY <1>4 DEF PageIn
  <2>2. \A e \in Entry : open(e) \in Entry
    BY DEF Entry
  <2>3. \A f \in Frames, i \in 0..1 : pt[f][i] \in Entry
    BY DEF GuestOK, PageTables
  <2>4. c' = c /\ insn' = insn
    BY <1>4 DEF PageIn
  <2> HIDE DEF open
  <2>5. pt' \in PageTables
    BY <2>1, <2>2, <2>3 DEF PageTables
  <2> QED
    BY <2>4, <2>5 DEF GuestOK
<1>5. CASE UartRegister
  BY <1>5 DEF UartRegister, GuestOK
<1>6. CASE UNCHANGED strvars
  BY <1>6 DEF strvars, GuestOK
<1> QED
  BY <1>1, <1>2, <1>3, <1>4, <1>5, <1>6 DEF StringNext

StringSpec == StringInit /\ [][StringNext]_strvars

LEMMA WalkIsExact == GuestOK => WalkExact
<1> SUFFICES ASSUME GuestOK, insn # NoInsn, insn.s, LargeAgree(c) PROVE WalkExact
  BY DEF WalkExact
<1> DEFINE len == Length(insn)
           acc == vm_access_sz(pt, c, insn.in, insn.v, len)
           may(i) == c.pg => /\ Mapped(pt, c, 0, insn.v + i - 1)
                             /\ Allowed(pt, c, insn.in, 0, insn.v + i - 1)
           w == Wanted(insn)
<1>1. insn \in IoInsn /\ c \in Controls /\ pt \in PageTables
  BY StringAssumption DEF GuestOK
<1>2. insn.in \in BOOLEAN /\ insn.v \in Nat
  BY <1>1 DEF IoInsn
<1>3. len \in Nat /\ Len(w) = len /\ \A i \in 1..len : w[i] = Place(pt, c, insn.v + i - 1)
  BY <1>1, WantedIs
<1>4. \A i : may(i) <=> MayTouch(pt, c, insn.in, insn.v + i - 1)
  BY DEF MayTouch, May
<1> HIDE DEF len, may, w
<1>5. /\ acc.rc \in {"DONE", "FAULT", "FAIL"} /\ acc.bytes \in Seq(Nat)
      /\ Len(acc.bytes) \in 0..len
      /\ \A i \in 1..Len(acc.bytes) :
           /\ acc.bytes[i] = Place(pt, c, insn.v + i - 1)
           /\ MayTouch(pt, c, insn.in, insn.v + i - 1)
           /\ c.pg => ~ThroughVmm(pt, c, 0, insn.v + i - 1)
           /\ Beside(pt, c, insn.v, len, insn.v + i - 1)
      /\ acc.rc = "DONE" => Len(acc.bytes) = len
      /\ acc.rc = "FAULT" =>
           Len(acc.bytes) < len /\ ~MayTouch(pt, c, insn.in, insn.v + Len(acc.bytes))
      /\ acc.rc = "FAIL" => \E i \in 1..len : OfVmm(pt, c, 0, insn.v + i - 1)
  <2>1. Accessed(pt, c, insn.in, insn.v, len, acc)
    BY <1>1, <1>2, <1>3, AccessIs
  <2> HIDE DEF acc
  <2> QED
    BY <2>1 DEF Accessed
<1> HIDE DEF acc
<1>6. IsPrefix(acc.bytes, w)
  <2> DEFINE b == acc.bytes
             k == Len(b)
  <2>1. b \in Seq(Nat) /\ k \in 0..len /\ \A i \in 1..k : b[i] = w[i]
    <3>1. b \in Seq(Nat) /\ k \in 0..len
      BY <1>5
    <3>2. \A i \in 1..k : i \in 1..len /\ b[i] = Place(pt, c, insn.v + i - 1)
      BY <1>3, <1>5
    <3> QED
      BY <1>3, <3>1, <3>2
  <2>2. SubSeq(b, 1, k) = [i \in 1..k |-> b[i]] /\ SubSeq(w, 1, k) = [i \in 1..k |-> w[i]]
    <3>1. k \in Nat
      BY <1>3, <2>1
    <3> HIDE DEF b, k
    <3> QED
      BY <3>1
  <2> HIDE DEF b
  <2>3. SubSeq(b, 1, Len(b)) = SubSeq(w, 1, Len(b)) /\ Len(b) <= Len(w)
    BY <1>3, <2>1, <2>2
  <2> QED
    BY <2>3 DEF IsPrefix, b
<1>7. \A i \in 1..Len(acc.bytes) : may(i)
  BY <1>4, <1>5
<1>8. acc.rc = "FAULT" => ~may(Len(acc.bytes) + 1)
  <2>1. insn.v + (Len(acc.bytes) + 1) - 1 = insn.v + Len(acc.bytes)
    BY <1>2, <1>5
  <2> QED
    BY <1>4, <1>5, <2>1
<1>b. ASSUME NEW i \in 1..Len(acc.bytes), vmm_area(acc.bytes[i])
      PROVE  \E j \in 1..len : /\ OnePage(pt, c, 0, insn.v + i - 1, insn.v + j - 1)
                               /\ ~vmm_area(w[j])
  <2>1. PICK b \in Nat : /\ insn.v <= b /\ b < insn.v + len
                         /\ OnePage(pt, c, 0, insn.v + i - 1, b) /\ ~vmm_area(Place(pt, c, b))
    <3>1. Beside(pt, c, insn.v, len, insn.v + i - 1) /\ acc.bytes[i] = Place(pt, c, insn.v + i - 1)
      BY <1>5
    <3> QED
      BY <1>b, <3>1 DEF Beside
  <2> DEFINE j == b - insn.v + 1
  <2>2. j \in 1..len /\ insn.v + j - 1 = b
    BY <1>2, <1>3, <2>1
  <2> HIDE DEF j
  <2> QED
    BY <1>3, <2>1, <2>2
<1>9. /\ IsPrefix(acc.bytes, Wanted(insn))
      /\ \A i \in 1..Len(acc.bytes) :
           /\ may(i)
           /\ c.pg => ~ThroughVmm(pt, c, 0, insn.v + i - 1)
           /\ vmm_area(acc.bytes[i]) =>
                \E j \in 1..len : /\ OnePage(pt, c, 0, insn.v + i - 1, insn.v + j - 1)
                                  /\ ~vmm_area(Wanted(insn)[j])
      /\ acc.rc = "DONE" => Len(acc.bytes) = len
      /\ acc.rc = "FAULT" => ~may(Len(acc.bytes) + 1)
      /\ acc.rc = "FAIL" => \E i \in 1..len : OfVmm(pt, c, 0, insn.v + i - 1)
  BY <1>5, <1>6, <1>7, <1>8, <1>b DEF w
<1> QED
  BY <1>9 DEF WalkExact, len, acc, may, Length

\* Translation is exact, whatever tables, control bits and instructions the
\* guest runs with (mmu_walk.c, vm.c).
THEOREM WalkAgrees == StringSpec => []WalkExact
<1>1. StringInit => GuestOK
  BY GuestInit
<1>2. GuestOK /\ [StringNext]_strvars => GuestOK'
  BY GuestStep
<1>3. GuestOK => WalkExact
  BY WalkIsExact
<1> QED
  BY <1>1, <1>2, <1>3, PTL DEF StringSpec


\* What is left to move, and how much of it a piece of at most avail bytes is.
Missing(io, cx) == IF io.rep THEN io.sz * cx ELSE io.sz
PieceLen(io, cx, avail) == Min({Missing(io, cx), avail})

\* The outcome of a string access: of memory, and of the registers.
Moved(io, lin, avail, cx, p, r) ==
    /\ Accessed(pt, c, io.in, lin, PieceLen(io, cx, avail), r)
    /\ r.miss = Missing(io, cx) - Len(r.bytes)
    /\ r.ptr = p + Len(r.bytes)
    /\ r.rcx = IF io.rep THEN r.miss \div io.sz ELSE cx

LEMMA MissingIs ==
    ASSUME NEW io \in IoInsn, NEW cx \in Nat, NEW avail \in Nat
    PROVE  /\ io.sz \in {1, 2, 4} /\ Missing(io, cx) \in Nat
           /\ PieceLen(io, cx, avail) \in Nat
           /\ PieceLen(io, cx, avail) <= Missing(io, cx)
           /\ PieceLen(io, cx, avail) <= avail
           /\ PieceLen(io, cx, avail) \in {Missing(io, cx), avail}
<1>1. io.sz \in {1, 2, 4}
  BY DEF IoInsn
<1>2. Missing(io, cx) \in Nat
  BY <1>1 DEF Missing
<1> QED
  BY <1>1, <1>2, MinIs DEF PieceLen

LEMMA StringMoves ==
    ASSUME NEW io \in IoInsn, GuestOK, LargeAgree(c), io.s, ~io.back,
           NEW lin \in Nat, NEW avail \in Nat, NEW cx \in Nat, NEW p \in Nat
    PROVE  Moved(io, lin, avail, cx, p, dev_io_insn(io, lin, avail, cx, p))
<1> DEFINE n == PieceLen(io, cx, avail)
           acc == vm_access_sz(pt, c, io.in, lin, n)
           r == dev_io_insn(io, lin, avail, cx, p)
<1>1. c \in Controls /\ pt \in PageTables /\ io.in \in BOOLEAN /\ n \in Nat
  BY MissingIs DEF GuestOK, IoInsn
<1>2. Accessed(pt, c, io.in, lin, n, acc)
  <2> HIDE DEF n
  <2> QED
    BY <1>1, AccessIs
<1>3. r = [rc |-> acc.rc, bytes |-> acc.bytes, miss |-> Missing(io, cx) - Len(acc.bytes),
           ptr |-> p + Len(acc.bytes),
           rcx |-> IF io.rep THEN (Missing(io, cx) - Len(acc.bytes)) \div io.sz ELSE cx]
  BY DEF dev_io_insn, __io_insn_string, StringMove, Advance, PieceLen, Missing
<1>4. r = dev_io_insn(io, lin, avail, cx, p) /\ n = PieceLen(io, cx, avail)
  OBVIOUS
<1> HIDE DEF acc, r, n
<1>5. r.rc = acc.rc /\ r.bytes = acc.bytes /\ r.miss = Missing(io, cx) - Len(acc.bytes)
      /\ r.ptr = p + Len(acc.bytes)
      /\ r.rcx = IF io.rep THEN (Missing(io, cx) - Len(acc.bytes)) \div io.sz ELSE cx
  BY <1>3
<1> QED
  BY <1>2, <1>4, <1>5 DEF Moved, Accessed

(***************************************************************************)
(* The loop of __dev_uart_xfr                                              *)
(***************************************************************************)
\* The state at the exit that a transfer starts from.
ExitState ==
    /\ GuestOK /\ LargeAgree(c)
    /\ rcx \in Nat /\ ptr \in Nat /\ uart.index \in 0..BuffLen

\* A string of single bytes, and how many bytes are left of it at the exit.
Bytewise(io) == io.s /\ ~io.back /\ io.sz = 1
Whole(io) == IF io.rep THEN rcx ELSE 1

\* What is known after turn k: the types; an output that found room leaves
\* room; the registers tell what was moved; a failure is due to the area of
\* the VMM; every turn moves something; and what fits was moved once.
TurnType(b) ==
    b \in [rc : {"GO", "DONE", "FAULT", "FAIL"}, rcx : Nat, ptr : Nat,
          bytes : Seq(Int), idx : 0..BuffLen]
TurnRoom(io, b) == (~io.in /\ uart.index < BuffLen) => b.idx < BuffLen
TurnRegs(io, b) == Bytewise(io) =>
    /\ io.rep => /\ b.ptr + b.rcx = ptr + rcx /\ b.ptr >= ptr + Len(b.bytes)
                 /\ b.rc = "DONE" => b.rcx = 0
    /\ ~io.rep => /\ b.rcx = rcx
                  /\ b.rc \in {"GO", "FAULT"} => b.ptr = ptr /\ b.bytes = <<>>
TurnFails(io, b) ==
    Bytewise(io) /\ b.rc = "FAIL" => \E i \in 1..Whole(io) : OfVmm(pt, c, 0, ptr + i - 1)
TurnMoves(io, k, b) ==
    (Bytewise(io) /\ ~io.in /\ uart.index < BuffLen /\ b.rc = "GO") =>
        IF io.rep THEN b.rcx + k <= rcx ELSE k = 0
TurnSimple(io, k, b) ==
    (~io.s /\ io.sz = 1 /\ ~io.in /\ uart.index < BuffLen) =>
        b.rc # "FAIL" /\ (b.rc = "GO" => k = 0)
TurnBack(io, b) == (io.s /\ io.back) => b.rc \in {"GO", "FAIL"}
TurnOnce(io, b) == (Bytewise(io) /\ ~io.in /\ Whole(io) <= BuffLen) =>
    /\ b.rc = "GO" => \/ b.bytes = <<>> /\ b.rcx = rcx
                      \/ io.rep /\ 0 < b.rcx /\ b.rcx < rcx /\ b.idx = 0
    /\ b.rc = "DONE" /\ (Whole(io) <= b.idx \/ b.idx = 0) =>
          /\ Len(b.bytes) = Whole(io)
          /\ \A i \in 1..Whole(io) : b.bytes[i] = Place(pt, c, ptr + i - 1)
TurnInv(io, k, b) ==
    /\ TurnType(b) /\ TurnRoom(io, b) /\ TurnRegs(io, b) /\ TurnFails(io, b)
    /\ TurnMoves(io, k, b) /\ TurnSimple(io, k, b) /\ TurnBack(io, b) /\ TurnOnce(io, b)

\* Before the first turn.
TurnZero == [rc |-> "GO", rcx |-> rcx, ptr |-> ptr, bytes |-> <<>>, idx |-> uart.index]

LEMMA TurnFirst ==
    ASSUME NEW io \in IoInsn, ExitState
    PROVE  TurnInv(io, 0, TurnZero)
<1> DEFINE b == TurnZero
<1>1. /\ b.rc = "GO" /\ b.rcx = rcx /\ b.ptr = ptr /\ b.bytes = <<>> /\ b.idx = uart.index
  BY DEF TurnZero
<1>2. rcx \in Nat /\ ptr \in Nat /\ uart.index \in 0..BuffLen
  BY DEF ExitState
<1> HIDE DEF b
<1>3. Len(b.bytes) = 0 /\ b.bytes \in Seq(Int)
  BY <1>1
<1>4. TurnInv(io, 0, b)
  <2>1. TurnType(b)
    BY <1>2 DEF TurnType, TurnZero, b
  <2> QED
    BY <1>1, <1>2, <1>3, <2>1 DEF TurnInv, TurnRoom, TurnRegs, TurnFails, TurnMoves,
         TurnSimple, TurnBack, TurnOnce
<1> QED
  BY <1>4 DEF b

LEMMA DivIs ==
    ASSUME NEW m \in Nat, NEW sz \in {1, 2, 4}
    PROVE  m \div sz \in Nat /\ m \div 1 = m /\ (sz * m) \div sz = m
<1>1. CASE sz = 1
  BY <1>1
<1>2. CASE sz = 2
  BY <1>2
<1>3. CASE sz = 4
  BY <1>3
<1> QED
  BY <1>1, <1>2, <1>3

LEMMA FlushIs ==
    ASSUME NEW io \in IoInsn, NEW i \in 0..BuffLen
    PROVE  FlushFull(io, i) = IF i = BuffLen /\ ~io.in THEN 0 ELSE i
<1>1. BuffLen \in Nat /\ i \in Nat /\ i <= BuffLen
  BY StringAssumption
<1>2. Min({i, BuffLen}) = i
  BY <1>1, MinIs
<1> QED
  BY <1>1, <1>2 DEF FlushFull

\* A turn that meets a fault or the area of the VMM.
LEMMA TurnStops ==
    ASSUME NEW io \in IoInsn, ExitState, io.s, ~io.back, NEW k \in Nat,
           NEW b, TurnInv(io, k, b), b.rc = "GO",
           NEW r, Moved(io, ptr, BuffLen - b.idx, b.rcx, b.ptr, r), r.rc # "DONE"
    PROVE  TurnInv(io, k + 1, UartTurn(io, b, r))
<1> DEFINE avail == BuffLen - b.idx
           n == PieceLen(io, b.rcx, avail)
           d == Len(r.bytes)
           a == UartTurn(io, b, r)
<1>1. /\ b.rcx \in Nat /\ b.ptr \in Nat /\ b.bytes \in Seq(Int) /\ b.idx \in 0..BuffLen
      /\ BuffLen \in Nat /\ rcx \in Nat /\ ptr \in Nat
  BY StringAssumption DEF TurnInv, TurnType, ExitState
<1>2. avail \in Nat
  BY <1>1
<1>3. /\ io.sz \in {1, 2, 4} /\ Missing(io, b.rcx) \in Nat
      /\ n \in Nat /\ n <= Missing(io, b.rcx)
  BY <1>1, <1>2, MissingIs
<1>4. /\ r.rc \in {"FAULT", "FAIL"} /\ d \in 0..n
      /\ r.rc = "FAULT" => d < n
      /\ r.rc = "FAIL" => \E i \in 1..n : OfVmm(pt, c, 0, ptr + i - 1)
      /\ r.miss = Missing(io, b.rcx) - d /\ r.ptr = b.ptr + d
      /\ r.rcx = IF io.rep THEN r.miss \div io.sz ELSE b.rcx
  BY DEF Moved, Accessed
<1>5. /\ a.rc = r.rc /\ a.rcx = r.rcx /\ a.ptr = r.ptr /\ a.bytes = b.bytes /\ a.idx = b.idx
  <2>1. a = [b EXCEPT !.rc = r.rc, !.rcx = r.rcx, !.ptr = r.ptr]
    BY DEF UartTurn
  <2> QED
    BY <2>1 DEF TurnInv, TurnType
<1> HIDE DEF a, n, avail, d
<1>6. r.miss \in Nat /\ r.rcx \in Nat /\ r.ptr \in Nat
  <2>1. d \in Nat /\ d <= Missing(io, b.rcx)
    BY <1>3, <1>4
  <2>m. r.miss = Missing(io, b.rcx) - d /\ r.ptr = b.ptr + d
    BY <1>4
  <2>2. r.miss \in Nat /\ r.ptr \in Nat
    BY SMTT(30), <1>1, <1>3, <2>1, <2>m
  <2>3. r.miss \div io.sz \in Nat
    BY <1>3, <2>2, DivIs
  <2> QED
    BY <1>1, <1>4, <2>2, <2>3
<1>7. TurnType(a)
  <2>1. a = [rc |-> r.rc, rcx |-> r.rcx, ptr |-> r.ptr, bytes |-> b.bytes, idx |-> b.idx]
    BY DEF a, UartTurn, TurnInv, TurnType
  <2> QED
    BY <1>1, <1>4, <1>6, <2>1 DEF TurnType
<1>8. Bytewise(io) => /\ Missing(io, b.rcx) = IF io.rep THEN b.rcx ELSE 1
                      /\ r.rcx = IF io.rep THEN b.rcx - d ELSE b.rcx
  BY <1>1, <1>3, <1>4, <1>6, DivIs DEF Bytewise, Missing
<1>9. TurnRegs(io, b) /\ TurnRoom(io, b)
  BY DEF TurnInv
<1>10. TurnRegs(io, a)
  <2> SUFFICES ASSUME Bytewise(io)
               PROVE  /\ io.rep => a.ptr + a.rcx = ptr + rcx /\ a.ptr >= ptr + Len(a.bytes)
                      /\ ~io.rep => /\ a.rcx = rcx
                                    /\ a.rc = "FAULT" => a.ptr = ptr /\ a.bytes = <<>>
    BY <1>4, <1>5 DEF TurnRegs
  <2>1. d \in Nat /\ Len(b.bytes) \in Nat
    BY <1>1, <1>3, <1>4
  <2>2. CASE io.rep
    BY <1>1, <1>4, <1>5, <1>8, <1>9, <2>1, <2>2 DEF TurnRegs
  <2>3. CASE ~io.rep
    <3>1. r.rc = "FAULT" => d = 0
      BY <1>3, <1>4, <1>8, <2>1, <2>3
    <3> QED
      BY <1>1, <1>4, <1>5, <1>8, <1>9, <2>3, <3>1 DEF TurnRegs
  <2> QED
    BY <2>2, <2>3
<1>11. TurnFails(io, a)
  <2> SUFFICES ASSUME Bytewise(io), r.rc = "FAIL"
               PROVE  \E i \in 1..Whole(io) : OfVmm(pt, c, 0, ptr + i - 1)
    BY <1>5 DEF TurnFails
  <2>1. Whole(io) \in Nat /\ n <= Whole(io)
    <3>1. Len(b.bytes) \in Nat
      BY <1>1
    <3> QED
      BY <1>1, <1>3, <1>8, <1>9, <3>1 DEF TurnRegs, Whole
  <2>2. \A i \in 1..n : i \in 1..Whole(io)
    BY <1>3, <2>1
  <2>3. PICK i \in 1..n : OfVmm(pt, c, 0, ptr + i - 1)
    BY <1>4
  <2> QED
    BY <2>2, <2>3
<1>12. TurnRoom(io, a) /\ TurnMoves(io, k + 1, a) /\ TurnSimple(io, k + 1, a)
       /\ TurnBack(io, a) /\ TurnOnce(io, a)
  BY <1>4, <1>5, <1>9 DEF TurnRoom, TurnMoves, TurnSimple, TurnBack, TurnOnce
<1> QED
  BY <1>7, <1>10, <1>11, <1>12 DEF TurnInv, a

\* A turn whose piece was moved.
LEMMA TurnGoesOn ==
    ASSUME NEW io \in IoInsn, ExitState, io.s, ~io.back, NEW k \in Nat,
           NEW b, TurnInv(io, k, b), b.rc = "GO",
           NEW r, Moved(io, ptr, BuffLen - b.idx, b.rcx, b.ptr, r), r.rc = "DONE"
    PROVE  TurnInv(io, k + 1, UartTurn(io, b, r))
<1> DEFINE avail == BuffLen - b.idx
           n == PieceLen(io, b.rcx, avail)
           d == Len(r.bytes)
           miss == Missing(io, b.rcx)
           a == UartTurn(io, b, r)
<1>1. /\ b.rcx \in Nat /\ b.ptr \in Nat /\ b.bytes \in Seq(Int) /\ b.idx \in 0..BuffLen
      /\ BuffLen \in Nat \ {0} /\ rcx \in Nat /\ ptr \in Nat /\ uart.index \in 0..BuffLen
  BY StringAssumption DEF TurnInv, TurnType, ExitState
<1>2. avail \in Nat
  BY <1>1
<1>3. /\ io.sz \in {1, 2, 4} /\ miss \in Nat
      /\ n \in Nat /\ n <= miss /\ n <= avail /\ n \in {miss, avail}
  BY <1>1, <1>2, MissingIs
<1>4. /\ d = n /\ r.bytes \in Seq(Nat)
      /\ \A i \in 1..d : r.bytes[i] = Place(pt, c, ptr + i - 1)
      /\ r.miss = miss - d /\ r.ptr = b.ptr + d
      /\ r.rcx = IF io.rep THEN r.miss \div io.sz ELSE b.rcx
  BY DEF Moved, Accessed
<1>5. /\ a.rc = (IF r.miss = 0 THEN "DONE" ELSE "GO") /\ a.rcx = r.rcx /\ a.ptr = r.ptr
      /\ a.bytes = b.bytes \o r.bytes /\ a.idx = FlushFull(io, b.idx + d)
      /\ a = [rc |-> a.rc, rcx |-> a.rcx, ptr |-> a.ptr, bytes |-> a.bytes, idx |-> a.idx]
  BY DEF UartTurn
<1>6. miss = IF io.rep THEN io.sz * b.rcx ELSE io.sz
  BY DEF Missing
<1> HIDE DEF a, n, avail, d, miss
<1>7. b.idx + d \in 0..BuffLen
  <2>1. d \in Nat /\ d <= BuffLen - b.idx
    BY <1>3, <1>4 DEF avail
  <2> QED
    BY <1>1, <2>1
<1>8. a.idx = IF b.idx + d = BuffLen /\ ~io.in THEN 0 ELSE b.idx + d
  BY <1>5, <1>7, FlushIs
<1>9. /\ r.miss \in Nat /\ r.rcx \in Nat /\ r.ptr \in Nat
      /\ r.bytes \in Seq(Int) /\ a.bytes \in Seq(Int) /\ Len(a.bytes) = Len(b.bytes) + d
  <2>1. r.miss \in Nat /\ r.ptr \in Nat
    BY <1>1, <1>3, <1>4
  <2>2. r.miss \div io.sz \in Nat
    BY <1>3, <2>1, DivIs
  <2>3. r.bytes \in Seq(Int)
    BY <1>4
  <2>4. a.bytes \in Seq(Int) /\ Len(a.bytes) = Len(b.bytes) + d
    BY <1>1, <1>5, <2>3 DEF d
  <2> QED
    BY <1>1, <1>4, <2>1, <2>2, <2>3, <2>4
<1>10. TurnType(a)
  <2>1. a.idx \in 0..BuffLen
    BY <1>1, <1>7, <1>8
  <2>2. a.rc \in {"GO", "DONE", "FAULT", "FAIL"}
    BY <1>5
  <2> QED
    BY <1>5, <1>9, <2>1, <2>2 DEF TurnType
<1>11. /\ TurnRegs(io, b) /\ TurnRoom(io, b) /\ TurnMoves(io, k, b) /\ TurnOnce(io, b)
  BY DEF TurnInv
<1>12. TurnRoom(io, a)
  BY <1>1, <1>7, <1>8 DEF TurnRoom
<1>13. Bytewise(io) => /\ miss = IF io.rep THEN b.rcx ELSE 1
                       /\ r.rcx = IF io.rep THEN b.rcx - d ELSE b.rcx
  BY <1>1, <1>4, <1>6, <1>9, DivIs DEF Bytewise
<1>14. TurnRegs(io, a)
  <2> SUFFICES ASSUME Bytewise(io)
               PROVE  /\ io.rep => /\ a.ptr + a.rcx = ptr + rcx /\ a.ptr >= ptr + Len(a.bytes)
                                   /\ a.rc = "DONE" => a.rcx = 0
                      /\ ~io.rep => /\ a.rcx = rcx
                                    /\ a.rc = "GO" => a.ptr = ptr /\ a.bytes = <<>>
    BY <1>5 DEF TurnRegs
  <2>1. d \in Nat /\ Len(b.bytes) \in Nat
    BY <1>1, <1>3, <1>4
  <2>2. CASE io.rep
    <3>1. a.rc = "DONE" => miss - d = 0
      BY <1>4, <1>5
    <3>2. b.ptr + b.rcx = ptr + rcx /\ b.ptr >= ptr + Len(b.bytes)
      BY <1>11, <2>2 DEF TurnRegs
    <3>3. /\ a.ptr = b.ptr + d /\ a.rcx = b.rcx - d /\ miss = b.rcx
          /\ Len(a.bytes) = Len(b.bytes) + d
      BY <1>4, <1>5, <1>9, <1>13, <2>2
    <3>4. a.rc = "DONE" => a.rcx = 0
      BY <1>1, <2>1, <3>1, <3>3
    <3>5. a.ptr + a.rcx = ptr + rcx /\ a.ptr >= ptr + Len(a.bytes)
      <4>1. b.rcx \in Nat /\ b.ptr \in Nat /\ rcx \in Nat /\ ptr \in Nat
        BY <1>1
      <4> QED
        BY SMTT(30), <2>1, <3>2, <3>3, <4>1
    <3> QED
      BY <2>2, <3>4, <3>5
  <2>3. CASE ~io.rep
    <3>1. a.rc = "GO" => d = 0
      BY <1>3, <1>4, <1>5, <1>13, <2>1, <2>3
    <3>2. b.ptr = ptr /\ b.bytes = <<>> /\ b.rcx = rcx
      BY <1>11, <2>3 DEF TurnRegs
    <3>3. d = 0 => a.bytes = <<>>
      <4>1. d = 0 => Len(a.bytes) = 0
        BY <1>9, <3>2
      <4> QED
        BY <1>9, <4>1
    <3> QED
      BY <1>1, <1>4, <1>5, <1>13, <2>3, <3>1, <3>2, <3>3
  <2> QED
    BY <2>2, <2>3
<1>15. TurnFails(io, a) /\ TurnSimple(io, k + 1, a) /\ TurnBack(io, a)
  BY <1>5 DEF TurnFails, TurnSimple, TurnBack
<1>16. TurnMoves(io, k + 1, a)
  <2> SUFFICES ASSUME Bytewise(io), ~io.in, uart.index < BuffLen, a.rc = "GO"
               PROVE  IF io.rep THEN a.rcx + (k + 1) <= rcx ELSE k + 1 = 0
    BY DEF TurnMoves
  <2>1. miss - d # 0 /\ d = avail /\ avail >= 1
    <3>1. miss - d # 0
      BY <1>4, <1>5
    <3>2. d = avail
      BY <1>3, <1>4, <3>1
    <3>3. b.idx < BuffLen
      BY <1>11 DEF TurnRoom
    <3> QED
      BY <1>1, <3>1, <3>2, <3>3 DEF avail
  <2>2. CASE io.rep
    BY <1>1, <1>2, <1>5, <1>11, <1>13, <2>1, <2>2 DEF TurnMoves
  <2>3. CASE ~io.rep
    <3>1. d = 1
      BY <1>2, <1>3, <1>4, <1>13, <2>1, <2>3
    <3> QED
      BY <1>13, <2>1, <2>3, <3>1
  <2> QED
    BY <2>2, <2>3
<1>17. TurnOnce(io, a)
  <2> DEFINE once(x) ==
        /\ x.rc = "GO" => \/ x.bytes = <<>> /\ x.rcx = rcx
                          \/ io.rep /\ 0 < x.rcx /\ x.rcx < rcx /\ x.idx = 0
        /\ x.rc = "DONE" /\ (Whole(io) <= x.idx \/ x.idx = 0) =>
              /\ Len(x.bytes) = Whole(io)
              /\ \A i \in 1..Whole(io) : x.bytes[i] = Place(pt, c, ptr + i - 1)
  <2> SUFFICES ASSUME Bytewise(io), ~io.in, Whole(io) <= BuffLen PROVE once(a)
    BY DEF TurnOnce
  <2>1. \/ b.bytes = <<>> /\ b.rcx = rcx
        \/ io.rep /\ 0 < b.rcx /\ b.rcx < rcx /\ b.idx = 0
    BY <1>11 DEF TurnOnce
  <2>2. Whole(io) = (IF io.rep THEN rcx ELSE 1) /\ Whole(io) \in Nat
    BY <1>1 DEF Whole
  <2>3. d \in Nat /\ d <= miss /\ (d = miss \/ d = avail)
    BY <1>3, <1>4
  <2>4. CASE b.bytes = <<>> /\ b.rcx = rcx /\ d = miss
    <3>1. a.rc = "DONE" /\ d = Whole(io)
      BY <1>3, <1>4, <1>5, <1>13, <2>2, <2>4
    <3>2. a.bytes = r.bytes
      BY <1>5, <1>9, <2>4
    <3> QED
      BY <1>4, <3>1, <3>2 DEF d
  <2>5. CASE b.bytes = <<>> /\ b.rcx = rcx /\ d # miss
    <3>1. d = avail /\ d < miss /\ miss = Whole(io)
      BY <1>3, <1>13, <2>2, <2>3, <2>5
    <3>2. a.rc = "GO" /\ a.idx = 0
      <4>1. b.idx + d = BuffLen
        BY <1>1, <3>1 DEF avail
      <4>2. miss - d # 0
        BY <1>3, <2>3, <3>1
      <4> QED
        BY <1>4, <1>5, <1>8, <4>1, <4>2
    <3>3. CASE d = 0
      <4>1. a.bytes = <<>>
        <5>1. Len(a.bytes) = 0
          BY <1>9, <2>5, <3>3
        <5> QED
          BY <1>9, <5>1
      <4>2. a.rcx = rcx
        BY <1>1, <1>5, <1>13, <2>5, <3>3
      <4> QED
        BY <3>2, <4>1, <4>2
    <3>4. CASE d # 0
      <4>1. io.rep /\ 0 < a.rcx /\ a.rcx < rcx
        BY <1>1, <1>5, <1>13, <2>2, <2>3, <2>5, <3>1, <3>4
      <4> QED
        BY <3>2, <4>1
    <3> QED
      BY <3>3, <3>4
  <2>6. CASE io.rep /\ 0 < b.rcx /\ b.rcx < rcx /\ b.idx = 0
    <3>1. miss = b.rcx /\ avail = BuffLen /\ d = b.rcx
      BY <1>1, <1>13, <2>2, <2>3, <2>6 DEF avail
    <3>2. a.rc = "DONE"
      BY <1>1, <1>4, <1>5, <3>1
    <3>3. a.idx = b.rcx
      BY <1>1, <1>8, <2>2, <2>6, <3>1
    <3>4. ~(Whole(io) <= a.idx \/ a.idx = 0)
      BY <1>1, <2>2, <2>6, <3>3
    <3> QED
      BY <3>2, <3>4
  <2> QED
    BY <2>1, <2>4, <2>5, <2>6
<1> QED
  BY <1>10, <1>12, <1>14, <1>15, <1>16, <1>17 DEF TurnInv, a

\* A turn of an instruction that is not a string, or runs backwards.
LEMMA TurnOther ==
    ASSUME NEW io \in IoInsn, ExitState, ~io.s \/ io.back, io.rep => io.s, NEW k \in Nat,
           NEW b, TurnInv(io, k, b), b.rc = "GO"
    PROVE  TurnInv(io, k + 1,
             UartTurn(io, b, dev_io_insn(io, ptr, BuffLen - b.idx, b.rcx, b.ptr)))
<1> DEFINE avail == BuffLen - b.idx
           r == dev_io_insn(io, ptr, avail, b.rcx, b.ptr)
           a == UartTurn(io, b, r)
<1>1. /\ b.rcx \in Nat /\ b.ptr \in Nat /\ b.bytes \in Seq(Int) /\ b.idx \in 0..BuffLen
      /\ BuffLen \in Nat \ {0} /\ uart.index \in 0..BuffLen
      /\ io.sz \in {1, 2, 4} /\ avail \in 0..BuffLen
  BY StringAssumption DEF TurnInv, TurnType, ExitState, IoInsn
<1>2. TurnRoom(io, b)
  BY DEF TurnInv
<1>3. /\ r.rc \in {"DONE", "FAIL"} /\ r.rcx = b.rcx /\ r.ptr = b.ptr
      /\ r.rc = "DONE" => /\ ~io.s /\ r.miss = 0 /\ io.sz <= avail
                          /\ r.bytes \in Seq(Int) /\ Len(r.bytes) = io.sz
      /\ ~io.s /\ io.sz <= avail => r.rc = "DONE"
  <2>1. CASE io.s
    <3>1. r = [rc |-> "FAIL", rcx |-> b.rcx, ptr |-> b.ptr, bytes |-> <<>>,
               miss |-> IF io.rep THEN io.sz * b.rcx ELSE io.sz]
      BY <2>1 DEF dev_io_insn, __io_insn_string, StringMove
    <3> HIDE DEF r
    <3> QED
      BY <2>1, <3>1
  <2>2. CASE ~io.s
    <3> DEFINE rax == [i \in 1..io.sz |-> -i]
               ok == io.sz <= avail
    <3>1. r = [rc |-> IF ok THEN "DONE" ELSE "FAIL", rcx |-> b.rcx, ptr |-> b.ptr,
               miss |-> 0, bytes |-> IF ok THEN rax ELSE <<>>]
      BY <2>2 DEF dev_io_insn, __io_insn_simple
    <3>2. rax \in Seq(Int) /\ Len(rax) = io.sz
      <4> DEFINE neg(i) == -i
      <4>1. io.sz \in Nat /\ rax = [i \in 1..io.sz |-> neg(i)]
        BY <1>1
      <4>2. \A i \in 1..io.sz : neg(i) \in Int
        OBVIOUS
      <4> HIDE DEF neg, rax
      <4> QED
        BY <4>1, <4>2
    <3> HIDE DEF r, rax
    <3> QED
      BY <2>2, <3>1, <3>2
  <2> QED
    BY <2>1, <2>2
<1> HIDE DEF r
<1>4. ~Bytewise(io)
  BY DEF Bytewise
<1>5. CASE r.rc = "FAIL"
  <2>1. a = [rc |-> "FAIL", rcx |-> b.rcx, ptr |-> b.ptr, bytes |-> b.bytes, idx |-> b.idx]
    BY <1>3, <1>5 DEF UartTurn, TurnInv, TurnType
  <2> HIDE DEF a
  <2>2. a.rc = "FAIL" /\ a.idx = b.idx
    BY <2>1
  <2>3. TurnType(a)
    BY <1>1, <2>1 DEF TurnType
  <2>4. TurnSimple(io, k + 1, a)
    <3> SUFFICES ASSUME ~io.s, io.sz = 1, ~io.in, uart.index < BuffLen PROVE FALSE
      BY <2>2 DEF TurnSimple
    <3>1. 1 <= avail
      BY <1>1, <1>2 DEF TurnRoom
    <3> QED
      BY <1>3, <1>5, <3>1
  <2>5. TurnInv(io, k + 1, a)
    BY <1>2, <1>4, <2>2, <2>3, <2>4 DEF TurnInv, TurnRoom, TurnRegs, TurnFails, TurnMoves, TurnBack,
          TurnOnce
  <2> QED
    BY <2>5 DEF a, r
<1>6. CASE r.rc = "DONE"
  <2>1. a = [rc |-> "DONE", rcx |-> b.rcx, ptr |-> b.ptr, bytes |-> b.bytes \o r.bytes,
             idx |-> FlushFull(io, b.idx + Len(r.bytes))]
    BY <1>3, <1>6 DEF UartTurn
  <2>2. Len(r.bytes) = io.sz /\ b.idx + Len(r.bytes) \in 0..BuffLen
    BY <1>1, <1>3, <1>6
  <2>3. FlushFull(io, b.idx + Len(r.bytes)) =
          IF b.idx + Len(r.bytes) = BuffLen /\ ~io.in THEN 0 ELSE b.idx + Len(r.bytes)
    BY <2>2, FlushIs
  <2> HIDE DEF a
  <2>4. a.rc = "DONE" /\ a.idx \in 0..BuffLen /\ (~io.in => a.idx < BuffLen)
    BY <1>1, <2>1, <2>2, <2>3
  <2>5. TurnType(a)
    BY <1>1, <1>3, <1>6, <2>1, <2>4 DEF TurnType
  <2>6. TurnInv(io, k + 1, a)
    BY <1>3, <1>4, <1>6, <2>4, <2>5 DEF TurnInv, TurnRoom, TurnRegs, TurnFails, TurnMoves, TurnSimple,
          TurnBack, TurnOnce
  <2> QED
    BY <1>3, <1>6, <2>6 DEF a, r
<1> QED
  BY <1>3, <1>5, <1>6

\* What turn k comes to, from the turns before it.
TurnOf(io, k, f) ==
    IF k = 0 THEN TurnZero
    ELSE LET b == f[k - 1] IN
         IF b.rc # "GO" THEN b
         ELSE UartTurn(io, b, dev_io_insn(io, ptr, BuffLen - b.idx, b.rcx, b.ptr))
TurnNr(io) == BuffLen + io.sz * IoCount(io) + 2
Turns(io) == CHOOSE go : go = [k \in 0..TurnNr(io) |-> TurnOf(io, k, go)]

LEMMA TurnStep ==
    ASSUME NEW io \in IoInsn, ExitState, io.rep => io.s, NEW k \in Nat,
           NEW f, TurnInv(io, k, f[k])
    PROVE  TurnInv(io, k + 1, TurnOf(io, k + 1, f))
<1> DEFINE b == f[k]
           r == dev_io_insn(io, ptr, BuffLen - b.idx, b.rcx, b.ptr)
<1>1. TurnOf(io, k + 1, f) = IF b.rc # "GO" THEN b ELSE UartTurn(io, b, r)
  BY DEF TurnOf
<1>2. CASE b.rc # "GO"
  <2>1. TurnInv(io, k, b)
    OBVIOUS
  <2> HIDE DEF b
  <2>2. TurnInv(io, k + 1, b)
    BY <1>2, <2>1 DEF TurnInv, TurnMoves, TurnSimple
  <2> QED
    BY <1>1, <1>2, <2>2
<1>3. CASE b.rc = "GO" /\ (~io.s \/ io.back)
  <2>1. TurnInv(io, k, b)
    OBVIOUS
  <2>2. TurnInv(io, k + 1, UartTurn(io, b, r))
    <3> HIDE DEF b
    <3> QED
      BY <1>3, <2>1, TurnOther
  <2> QED
    BY <1>1, <1>3, <2>2
<1>4. CASE b.rc = "GO" /\ io.s /\ ~io.back
  <2>1. TurnInv(io, k, b) /\ GuestOK /\ LargeAgree(c) /\ ptr \in Nat
    BY DEF ExitState
  <2>2. TurnInv(io, k + 1, UartTurn(io, b, r))
    <3> HIDE DEF b
    <3>1. BuffLen - b.idx \in Nat /\ b.rcx \in Nat /\ b.ptr \in Nat
      BY <2>1, StringAssumption DEF TurnInv, TurnType
    <3>2. Moved(io, ptr, BuffLen - b.idx, b.rcx, b.ptr, r)
      BY <1>4, <2>1, <3>1, StringMoves
    <3> HIDE DEF r
    <3> QED
      BY <1>4, <2>1, <3>2, TurnStops, TurnGoesOn
  <2> QED
    BY <1>1, <1>4, <2>2
<1> QED
  BY <1>2, <1>3, <1>4

LEMMA TurnsExist ==
    ASSUME NEW io \in IoInsn, TurnNr(io) \in Nat
    PROVE  Turns(io) = [k \in 0..TurnNr(io) |-> TurnOf(io, k, Turns(io))]
<1> DEFINE N == TurnNr(io)
           Of(k, f) == TurnOf(io, k, f)
           S == {j \in Nat : \E f : f = [k \in 0..j |-> Of(k, f)]}
<1>1. ASSUME NEW k \in Nat, NEW f, NEW g, k = 0 \/ f[k - 1] = g[k - 1]
      PROVE  Of(k, f) = Of(k, g)
  BY <1>1 DEF TurnOf
<1> HIDE DEF Of
<1>2. ASSUME NEW i \in Nat, \A j \in 0..(i - 1) : j \in S PROVE i \in S
  <2>1. \E f : f = [k \in 0..i |-> Of(k, f)]
    <3>1. CASE i = 0
      <4> DEFINE f == [k \in 0..0 |-> Of(0, <<>>)]
      <4>1. f[0] = Of(0, <<>>) /\ \A k \in 0..0 : k = 0
        OBVIOUS
      <4> HIDE DEF f
      <4>2. Of(0, f) = Of(0, <<>>)
        BY <1>1
      <4>3. f = [k \in 0..0 |-> f[k]]
        BY DEF f
      <4>4. f = [k \in 0..0 |-> Of(k, f)]
        BY <4>1, <4>2, <4>3
      <4> QED
        BY <3>1, <4>4
    <3>2. CASE i > 0
      <4>1. PICK f : f = [k \in 0..(i - 1) |-> Of(k, f)]
        <5>1. i - 1 \in 0..(i - 1)
          BY <3>2
        <5> QED
          BY <1>2, <5>1
      <4> DEFINE g == [k \in 0..i |-> IF k < i THEN f[k] ELSE Of(i, f)]
      <4>2. \A k \in 0..i : g[k] = IF k < i THEN f[k] ELSE Of(i, f)
        OBVIOUS
      <4>3. g = [k \in 0..i |-> g[k]]
        OBVIOUS
      <4> HIDE DEF g
      <4>4. ASSUME NEW k \in 0..i PROVE g[k] = Of(k, g)
        <5>1. k = 0 \/ f[k - 1] = g[k - 1]
          <6>1. k # 0 => k - 1 \in 0..i /\ k - 1 < i
            OBVIOUS
          <6> QED
            BY <4>2, <6>1
        <5>2. Of(k, f) = Of(k, g)
          BY <1>1, <5>1
        <5>3. k < i => f[k] = Of(k, f)
          <6>1. k < i => k \in 0..(i - 1)
            OBVIOUS
          <6> QED
            BY <4>1, <6>1
        <5>4. k < i \/ k = i
          OBVIOUS
        <5> QED
          BY <4>2, <5>2, <5>3, <5>4
      <4>5. g = [k \in 0..i |-> Of(k, g)]
        BY <4>3, <4>4
      <4> QED
        BY <4>5
    <3> QED
      BY <3>1, <3>2
  <2> QED
    BY <2>1
<1>3. N \in S
  <2> HIDE DEF S
  <2> QED
    BY <1>2, Induction
<1>4. \E f : f = [k \in 0..N |-> Of(k, f)]
  BY <1>3
<1> QED
  BY <1>4 DEF Turns, Of

\* What the whole transfer comes to.
LEMMA XferIs ==
    ASSUME NEW io \in IoInsn, ExitState, io.rep => io.s
    PROVE  \E b : /\ TurnInv(io, TurnNr(io), b)
                  /\ __dev_uart_xfr(io) = [b EXCEPT !.rc = IF @ = "GO" THEN "HANG" ELSE @]
<1> DEFINE N == TurnNr(io)
           F == Turns(io)
           S == {k \in 0..N : TurnInv(io, k, F[k])} \cup {k \in Nat : k > N}
<1>1. N \in Nat
  <2>1. io.sz \in {1, 2, 4} /\ rcx \in Nat /\ BuffLen \in Nat
    BY StringAssumption DEF IoInsn, ExitState
  <2>2. IoCount(io) \in Nat
    BY <2>1 DEF IoCount
  <2> QED
    BY <2>1, <2>2 DEF TurnNr
<1>2. \A k \in 0..N : F[k] = TurnOf(io, k, F)
  <2>1. F = [k \in 0..N |-> TurnOf(io, k, F)]
    BY <1>1, TurnsExist
  <2> HIDE DEF F, N
  <2> QED
    BY <2>1
<1> HIDE DEF F, N
<1>3. ASSUME NEW i \in Nat, \A j \in 0..(i - 1) : j \in S PROVE i \in S
  <2>1. CASE i > N
    BY <2>1
  <2>2. CASE i = 0
    <3>1. F[0] = TurnZero
      BY <1>1, <1>2 DEF TurnOf
    <3> QED
      BY <1>1, <2>2, <3>1, TurnFirst
  <2>3. CASE i > 0 /\ i <= N
    <3> DEFINE k == i - 1
    <3>1. k \in Nat /\ i = k + 1 /\ i \in 0..N /\ k \in 0..N /\ k \in 0..(i - 1)
      BY <1>1, <2>3
    <3>2. TurnInv(io, k, F[k])
      BY <1>1, <1>3, <3>1
    <3>3. F[i] = TurnOf(io, i, F)
      BY <1>2, <3>1
    <3> HIDE DEF k
    <3>4. TurnInv(io, i, F[i])
      BY <3>1, <3>2, <3>3, TurnStep
    <3> QED
      BY <3>1, <3>4
  <2> QED
    BY <1>1, <2>1, <2>2, <2>3
<1>4. N \in S
  <2> HIDE DEF S
  <2> QED
    BY <1>1, <1>3, Induction
<1>5. TurnInv(io, N, F[N])
  BY <1>1, <1>4
<1>6. __dev_uart_xfr(io) = [F[N] EXCEPT !.rc = IF @ = "GO" THEN "HANG" ELSE @]
  BY DEF __dev_uart_xfr, F, N, Turns, TurnNr, TurnOf, TurnZero
<1> QED
  BY <1>5, <1>6 DEF N

(***************************************************************************)
(* What one exit does                                                      *)
(***************************************************************************)
\* COM1: the registers, the buffer, the bytes, and why it would not be done.
ComDone(io, r) ==
    /\ r.rc \in {"DONE", "FAULT", "FAIL", "HANG"} /\ r.rcx \in Nat /\ r.ptr \in Nat
    /\ r.bytes \in Seq(Int) /\ r.idx \in 0..BuffLen
    /\ ~io.in /\ uart.index < BuffLen => r.idx < BuffLen
    /\ Bytewise(io) /\ r.rc = "FAULT" =>
         IF io.rep THEN /\ r.ptr + r.rcx = ptr + rcx /\ r.ptr >= ptr
                        /\ r.ptr = ptr => r.bytes = <<>> /\ r.rcx = rcx
         ELSE r.ptr = ptr /\ r.rcx = rcx /\ r.bytes = <<>>
    /\ Bytewise(io) /\ r.rc = "FAIL" =>
         \E i \in 1..Whole(io) : OfVmm(pt, c, 0, ptr + i - 1)
    /\ Bytewise(io) /\ ~io.in /\ uart.index < BuffLen => r.rc # "HANG"
    /\ ~io.s /\ io.sz = 1 /\ ~io.in /\ uart.index < BuffLen => r.rc \in {"DONE", "FAULT"}
    /\ io.s /\ io.back => r.rc \in {"FAIL", "HANG"}
    /\ Bytewise(io) /\ r.rc = "DONE" /\ io.rep => r.rcx = 0
    /\ (/\ Bytewise(io) /\ ~io.in /\ r.rc = "DONE" /\ Whole(io) <= BuffLen
        /\ Whole(io) <= r.idx \/ r.idx = 0) =>
         /\ Len(r.bytes) = Whole(io)
         /\ \A i \in 1..Whole(io) : r.bytes[i] = Place(pt, c, ptr + i - 1)

LEMMA ComIs ==
    ASSUME NEW io \in IoInsn, ExitState, io.rep => io.s
    PROVE  ComDone(io, __dev_uart_xfr(io))
<1>1. PICK b : /\ TurnInv(io, TurnNr(io), b)
               /\ __dev_uart_xfr(io) = [b EXCEPT !.rc = IF @ = "GO" THEN "HANG" ELSE @]
  BY XferIs
<1> DEFINE r == __dev_uart_xfr(io)
           N == TurnNr(io)
<1>2. /\ b.rc \in {"GO", "DONE", "FAULT", "FAIL"} /\ b.rcx \in Nat /\ b.ptr \in Nat
      /\ b.bytes \in Seq(Int) /\ b.idx \in 0..BuffLen
  BY <1>1 DEF TurnInv, TurnType
<1>3. /\ r.rc = (IF b.rc = "GO" THEN "HANG" ELSE b.rc) /\ r.rcx = b.rcx /\ r.ptr = b.ptr
      /\ r.bytes = b.bytes /\ r.idx = b.idx
  BY <1>1 DEF TurnInv, TurnType
<1>4. rcx \in Nat /\ ptr \in Nat /\ BuffLen \in Nat \ {0} /\ io.sz \in {1, 2, 4}
  BY StringAssumption DEF ExitState, IoInsn
<1>5. N > 0 /\ (Bytewise(io) /\ io.rep => N > rcx)
  <2>1. N = BuffLen + io.sz * IoCount(io) + 2
    BY DEF TurnNr
  <2>2. IoCount(io) \in Nat /\ (io.s /\ io.rep => IoCount(io) = rcx)
    BY <1>4 DEF IoCount
  <2> HIDE DEF N
  <2> QED
    BY <1>4, <2>1, <2>2 DEF Bytewise
<1> HIDE DEF r, N
<1>6. ~io.in /\ uart.index < BuffLen => r.idx < BuffLen
  BY <1>1, <1>3 DEF TurnInv, TurnRoom
<1>7. /\ Bytewise(io) /\ r.rc = "FAULT" =>
           IF io.rep THEN /\ r.ptr + r.rcx = ptr + rcx /\ r.ptr >= ptr
                          /\ r.ptr = ptr => r.bytes = <<>> /\ r.rcx = rcx
           ELSE r.ptr = ptr /\ r.rcx = rcx /\ r.bytes = <<>>
      /\ Bytewise(io) /\ r.rc = "DONE" /\ io.rep => r.rcx = 0
  <2>1. TurnRegs(io, b)
    BY <1>1 DEF TurnInv
  <2>2. Len(b.bytes) \in Nat /\ (Len(b.bytes) = 0 => b.bytes = <<>>)
    BY <1>2
  <2> SUFFICES ASSUME Bytewise(io)
               PROVE  /\ r.rc = "FAULT" =>
                           IF io.rep THEN /\ r.ptr + r.rcx = ptr + rcx /\ r.ptr >= ptr
                                          /\ r.ptr = ptr => r.bytes = <<>> /\ r.rcx = rcx
                           ELSE r.ptr = ptr /\ r.rcx = rcx /\ r.bytes = <<>>
                      /\ r.rc = "DONE" /\ io.rep => r.rcx = 0
    OBVIOUS
  <2>3. CASE io.rep
    <3>1. /\ b.ptr + b.rcx = ptr + rcx /\ b.ptr >= ptr + Len(b.bytes)
          /\ b.rc = "DONE" => b.rcx = 0
      BY <2>1, <2>3 DEF TurnRegs
    <3>2. b.ptr >= ptr /\ (b.ptr = ptr => Len(b.bytes) = 0 /\ b.rcx = rcx)
      BY <1>2, <1>4, <2>2, <3>1
    <3> QED
      BY <1>3, <2>2, <2>3, <3>1, <3>2
  <2>4. CASE ~io.rep
    BY <1>3, <2>1, <2>4 DEF TurnRegs
  <2> QED
    BY <2>3, <2>4
<1>8. Bytewise(io) /\ r.rc = "FAIL" => \E i \in 1..Whole(io) : OfVmm(pt, c, 0, ptr + i - 1)
  <2>1. TurnFails(io, b)
    BY <1>1 DEF TurnInv
  <2> QED
    BY <1>3, <2>1 DEF TurnFails
<1>9. Bytewise(io) /\ ~io.in /\ uart.index < BuffLen => r.rc # "HANG"
  <2>1. TurnMoves(io, N, b)
    BY <1>1 DEF TurnInv, N
  <2>2. N \in Int
    <3>1. IoCount(io) \in Nat
      BY <1>4 DEF IoCount
    <3> QED
      BY <1>4, <3>1 DEF N, TurnNr
  <2>3. r.rc = "HANG" => b.rc = "GO"
    BY <1>2, <1>3
  <2> QED
    BY <1>2, <1>4, <1>5, <2>1, <2>2, <2>3 DEF TurnMoves
<1>10. ~io.s /\ io.sz = 1 /\ ~io.in /\ uart.index < BuffLen => r.rc \in {"DONE", "FAULT"}
  <2>1. TurnSimple(io, N, b)
    BY <1>1 DEF TurnInv, N
  <2> QED
    BY <1>2, <1>3, <1>5, <2>1 DEF TurnSimple
<1>11. io.s /\ io.back => r.rc \in {"FAIL", "HANG"}
  BY <1>1, <1>3 DEF TurnInv, TurnBack
<1>12. (/\ Bytewise(io) /\ ~io.in /\ r.rc = "DONE" /\ Whole(io) <= BuffLen
        /\ Whole(io) <= r.idx \/ r.idx = 0) =>
         /\ Len(r.bytes) = Whole(io)
         /\ \A i \in 1..Whole(io) : r.bytes[i] = Place(pt, c, ptr + i - 1)
  <2>1. TurnOnce(io, b)
    BY <1>1 DEF TurnInv
  <2>2. r.rc = "DONE" => b.rc = "DONE"
    BY <1>2, <1>3
  <2> QED
    BY <1>3, <2>1, <2>2 DEF TurnOnce
<1>13. /\ r.rc \in {"DONE", "FAULT", "FAIL", "HANG"} /\ r.rcx \in Nat /\ r.ptr \in Nat
       /\ r.bytes \in Seq(Int) /\ r.idx \in 0..BuffLen
  BY <1>2, <1>3
<1>14. ComDone(io, r)
  BY <1>6, <1>7, <1>8, <1>9, <1>10, <1>11, <1>12, <1>13 DEF ComDone
<1> QED
  BY <1>14 DEF r

\* A port passed on to the real device.
DevDone(io, r) ==
    /\ r.rc \in {"DONE", "FAULT", "FAIL"} /\ r.rcx \in Nat /\ r.ptr \in Nat
    /\ r.bytes \in Seq(Int) /\ DeviceRead(io) \in Nat
    /\ io.s /\ r.rc = "FAULT" /\ r.ptr = ptr => r.bytes = <<>> /\ r.rcx = rcx
    /\ io.s /\ r.rc = "DONE" =>
         /\ Len(r.bytes) = Missing(io, rcx)
         /\ \A i \in 1..Missing(io, rcx) : r.bytes[i] = Place(pt, c, ptr + i - 1)
         /\ io.rep => r.rcx = 0
         /\ io.port = "dev" /\ io.in => DeviceRead(io) = Missing(io, rcx)

LEMMA DevIs ==
    ASSUME NEW io \in IoInsn, ExitState, io.rep => io.s
    PROVE  DevDone(io, dev_io_proxify_filter(io))
<1> DEFINE r == dev_io_proxify_filter(io)
           len == io.sz * IoCount(io)
           t == dev_io_insn(io, ptr, len, rcx, ptr)
<1>1. io.sz \in {1, 2, 4} /\ rcx \in Nat /\ ptr \in Nat /\ GuestOK /\ LargeAgree(c)
  BY DEF ExitState, IoInsn
<1>2. IoCount(io) \in Nat /\ len \in Nat /\ (io.s => len = Missing(io, rcx))
  <2>1. IoCount(io) \in Nat /\ (io.s => IoCount(io) = IF io.rep THEN rcx ELSE 1)
    BY <1>1 DEF IoCount
  <2> QED
    BY <1>1, <2>1 DEF Missing
<1>3. DeviceRead(io) = IF io.port = "dev" /\ io.in /\ PoolHolds(io) /\ dev_io_native(io)
                       THEN len ELSE 0
  BY DEF DeviceRead
<1> HIDE DEF len
<1>4. CASE r = Refused
  <2>1. r.rc = "FAIL" /\ r.rcx = rcx /\ r.ptr = ptr /\ r.bytes = <<>>
    BY <1>4 DEF Refused
  <2>2. r.bytes \in Seq(Int)
    BY <2>1
  <2>3. DeviceRead(io) \in Nat
    BY <1>2, <1>3
  <2> HIDE DEF r
  <2>4. DevDone(io, r)
    BY <1>1, <2>1, <2>2, <2>3 DEF DevDone
  <2> QED
    BY <2>4 DEF r
<1>5. CASE r # Refused
  <2>1. /\ PoolHolds(io)
        /\ io.in => dev_io_native(io) /\ r = t
        /\ ~io.in => r = [t EXCEPT !.bytes = IF t.rc = "DONE" /\ dev_io_native(io) THEN @ ELSE <<>>]
    BY <1>5 DEF dev_io_proxify_filter, __dev_io_proxy_filter_in, __dev_io_proxy_filter_out, len
  <2>2. CASE io.s /\ ~io.back
    <3>1. Moved(io, ptr, len, rcx, ptr, t)
      BY <1>1, <1>2, <2>2, StringMoves
    <3>2. dev_io_native(io) /\ len = Missing(io, rcx)
      BY <1>2, <2>2 DEF dev_io_native
    <3>3. PieceLen(io, rcx, len) = len
      BY <1>1, <1>2, <3>2, MissingIs
    <3>4. /\ t.rc \in {"DONE", "FAULT", "FAIL"} /\ t.bytes \in Seq(Nat) /\ Len(t.bytes) \in 0..len
          /\ \A i \in 1..Len(t.bytes) : t.bytes[i] = Place(pt, c, ptr + i - 1)
          /\ t.rc = "DONE" => Len(t.bytes) = len
          /\ t.miss = len - Len(t.bytes) /\ t.ptr = ptr + Len(t.bytes)
          /\ t.rcx = IF io.rep THEN t.miss \div io.sz ELSE rcx
      BY <3>1, <3>2, <3>3 DEF Moved, Accessed
    <3>5. r.rc = t.rc /\ r.rcx = t.rcx /\ r.ptr = t.ptr
          /\ r.bytes = IF io.in \/ t.rc = "DONE" THEN t.bytes ELSE <<>>
      <4>1. io.in => r = t
        BY <2>1
      <4>2. ~io.in => r = [t EXCEPT !.bytes = IF t.rc = "DONE" THEN @ ELSE <<>>]
        BY <2>1, <3>2
      <4>3. \E acc, p, x, m : t = [rc |-> acc.rc, bytes |-> acc.bytes, miss |-> m,
                                   ptr |-> p, rcx |-> x]
        BY <2>2 DEF dev_io_insn, __io_insn_string, StringMove, Advance
      <4> HIDE DEF r, t
      <4>4. PICK acc, p, x, m : t = [rc |-> acc.rc, bytes |-> acc.bytes, miss |-> m,
                                     ptr |-> p, rcx |-> x]
        BY <4>3
      <4>5. CASE io.in
        BY <4>1, <4>5
      <4>6. CASE ~io.in
        BY <4>2, <4>4, <4>6
      <4> QED
        BY <4>5, <4>6
    <3> HIDE DEF r, t
    <3>6. t.miss \in Nat /\ t.rcx \in Nat /\ t.ptr \in Nat /\ t.bytes \in Seq(Int)
      <4>1. t.miss \in Nat /\ t.ptr \in Nat /\ t.bytes \in Seq(Int)
        BY <1>1, <1>2, <3>4
      <4>2. t.miss \div io.sz \in Nat
        BY <1>1, <4>1, DivIs
      <4> QED
        BY <1>1, <3>4, <4>1, <4>2
    <3>7. Len(t.bytes) = 0 => t.bytes = <<>> /\ t.rcx = rcx
      <4>1. ASSUME Len(t.bytes) = 0, io.rep PROVE t.miss \div io.sz = rcx
        <5>1. t.miss = io.sz * rcx
          BY <1>2, <3>2, <3>4, <4>1 DEF Missing
        <5> QED
          BY <1>1, <5>1, DivIs
      <4> QED
        BY <3>4, <3>6, <4>1
    <3>8. t.rc = "DONE" /\ io.rep => t.rcx = 0
      <4>1. t.rc = "DONE" => t.miss = 0
        BY <1>2, <3>4
      <4>2. 0 \div io.sz = 0
        BY <1>1
      <4> QED
        BY <3>4, <4>1, <4>2
    <3>9. DeviceRead(io) \in Nat /\ (io.port = "dev" /\ io.in => DeviceRead(io) = len)
      BY <1>2, <1>3, <2>1, <3>2
    <3>10. /\ r.rc \in {"DONE", "FAULT", "FAIL"} /\ r.rcx \in Nat /\ r.ptr \in Nat
           /\ r.bytes \in Seq(Int)
      BY <3>4, <3>5, <3>6
    <3>11. r.rc = "FAULT" /\ r.ptr = ptr => r.bytes = <<>> /\ r.rcx = rcx
      <4>1. r.ptr = ptr => Len(t.bytes) = 0
        BY <1>1, <1>2, <3>4, <3>5
      <4> QED
        BY <3>5, <3>7, <4>1
    <3>12. DevDone(io, r)
      BY <3>2, <3>4, <3>5, <3>8, <3>9, <3>10, <3>11 DEF DevDone
    <3> QED
      BY <3>12 DEF r
  <2>3. CASE ~(io.s /\ ~io.back)
    <3> DEFINE rax == [i \in 1..io.sz |-> -i]
    <3>1. rax \in Seq(Int)
      <4> DEFINE neg(i) == -i
      <4>1. io.sz \in Nat /\ rax = [i \in 1..io.sz |-> neg(i)]
        BY <1>1
      <4>2. \A i \in 1..io.sz : neg(i) \in Int
        OBVIOUS
      <4> HIDE DEF neg, rax
      <4> QED
        BY <4>1, <4>2
    <3>2. \E m : \E rc \in {"DONE", "FAIL"}, b \in {rax, <<>>} :
            /\ t = [rc |-> rc, rcx |-> rcx, ptr |-> ptr, bytes |-> b, miss |-> m]
            /\ io.s => rc = "FAIL"
      <4>1. CASE io.s
        BY <2>3, <4>1 DEF dev_io_insn, __io_insn_string, StringMove
      <4>2. CASE ~io.s
        BY <4>2 DEF dev_io_insn, __io_insn_simple
      <4> QED
        BY <4>1, <4>2
    <3>3. <<>> \in Seq(Int)
      OBVIOUS
    <3> HIDE DEF r, t, rax
    <3>m. PICK m : \E rc \in {"DONE", "FAIL"}, b \in {rax, <<>>} :
            /\ t = [rc |-> rc, rcx |-> rcx, ptr |-> ptr, bytes |-> b, miss |-> m]
            /\ io.s => rc = "FAIL"
      BY <3>2
    <3>4. PICK rc \in {"DONE", "FAIL"}, b \in {rax, <<>>} :
            /\ t = [rc |-> rc, rcx |-> rcx, ptr |-> ptr, bytes |-> b, miss |-> m]
            /\ io.s => rc = "FAIL"
      BY <3>m
    <3>5. r.rc = rc /\ r.rcx = rcx /\ r.ptr = ptr /\ r.bytes \in {b, <<>>}
      <4>1. CASE io.in
        BY <2>1, <3>4, <4>1
      <4>2. CASE ~io.in
        BY <2>1, <3>4, <4>2
      <4> QED
        BY <4>1, <4>2
    <3>6. DeviceRead(io) \in Nat
      BY <1>2, <1>3
    <3>7. DevDone(io, r)
      BY <1>1, <3>1, <3>3, <3>4, <3>5, <3>6 DEF DevDone
    <3> QED
      BY <3>7 DEF r
  <2> QED
    BY <2>2, <2>3
<1> QED
  BY <1>4, <1>5

(***************************************************************************)
(* The inductive invariant of the instructions                             *)
(***************************************************************************)
StringTypes ==
    /\ rcx \in Nat /\ ptr \in Nat /\ used \in Nat /\ moved \in Seq(Int) /\ uart \in Uart
    /\ inputs \in BOOLEAN /\ faults \in {"none", "clean", "torn"}
    /\ sts \in {"run", "done", "fault", "dead", "hang"}

\* An instruction that can be executed again: it is about to be, or has met
\* a page fault.
Open == insn # NoInsn /\ sts \in {"run", "fault"}

\* Without a tear nothing has been moved yet, so the whole is still to do.
Fresh ==
    (Open /\ faults # "torn" /\ insn.s /\ (insn.port = "com" => ~insn.in /\ insn.sz = 1)) =>
        moved = <<>> /\ rcx = insn.n /\ ptr = insn.v /\ used = 0

\* What is left of a string for COM1 ends where the string ends.
Span == (Open /\ insn.port = "com" /\ Bytewise(insn)) =>
    IF insn.rep THEN ptr >= insn.v /\ ptr + rcx = insn.v + insn.n
    ELSE ptr = insn.v /\ rcx = insn.n

\* Outputs leave room in the buffer of COM1.
Room == ~inputs => uart.index < BuffLen

StringInv ==
    /\ GuestOK
    /\ LargeAgree(c) =>
        /\ StringTypes /\ (insn = NoInsn => sts = "run")
        /\ Fresh /\ Span /\ Room /\ StringOnce /\ UartLives

LEMMA StringInvInit == StringInit => StringInv
<1> SUFFICES ASSUME StringInit PROVE StringInv
  OBVIOUS
<1>1. GuestOK
  BY GuestInit
<1>2. BuffLen \in Nat /\ BuffLen > 0 /\ 0 \in 0..BuffLen
  BY StringAssumption
<1>3. uart \in Uart /\ uart.index = 0
  BY <1>2 DEF StringInit, dev_uart_init, Uart, SerialIer, SerialIir, SerialLcr
<1>4. StringTypes
  <2>1. moved \in Seq(Int)
    BY DEF StringInit
  <2>2. rcx \in Nat /\ ptr \in Nat /\ used \in Nat /\ inputs \in BOOLEAN
    BY DEF StringInit
  <2>3. faults = "none" /\ sts = "run"
    BY DEF StringInit
  <2> QED
    BY <1>3, <2>1, <2>2, <2>3 DEF StringTypes
<1>5. Fresh /\ Span /\ Room
  BY <1>2, <1>3 DEF StringInit, Fresh, Span, Room, Open
<1>6. StringOnce /\ UartLives
  BY DEF StringInit, StringOnce, UartLives
<1> QED
  BY <1>1, <1>4, <1>5, <1>6 DEF StringInv, StringInit

\* The exits of one instruction.
LEMMA ResolveStep ==
    ASSUME StringInv, LargeAgree(c), vmx_vmexit_resolve_io
    PROVE  StringTypes' /\ (insn = NoInsn => sts = "run")' /\ Fresh' /\ Span' /\ Room'
           /\ StringOnce' /\ UartLives'
<1>1. PICK r \in {Transfer(insn)} :
         /\ rcx' = r.rcx /\ ptr' = r.ptr
         /\ moved' = moved \o r.bytes
         /\ used' = used + DeviceRead(insn)
         /\ inputs' = (inputs \/ (insn.port = "com" /\ insn.in))
         /\ uart' = IF insn.port = "com" THEN [uart EXCEPT !.index = r.idx] ELSE uart
         /\ sts' = CASE r.rc = "DONE" -> "done" [] r.rc = "FAULT" -> "fault"
                     [] r.rc = "HANG" -> "hang" [] OTHER -> "dead"
         /\ faults' = IF r.rc # "FAULT" THEN faults
                      ELSE IF (r.ptr # ptr \/ DeviceRead(insn) # 0) \/ faults = "torn"
                           THEN "torn" ELSE "clean"
  BY DEF vmx_vmexit_resolve_io
<1>2. sts = "run" /\ insn # NoInsn /\ c' = c /\ pt' = pt /\ insn' = insn
  BY DEF vmx_vmexit_resolve_io
<1>3. insn \in IoInsn /\ insn.port \in {"dev", "com"} /\ (insn.rep => insn.s)
  BY <1>2, StringAssumption DEF StringInv, GuestOK, IoInsn
<1>4. StringTypes /\ ExitState /\ Fresh /\ Span /\ Room
  BY DEF StringInv, ExitState, StringTypes, Uart
<1>5. Open
  BY <1>2 DEF Open
<1>6. /\ insn.port = "com" => ComDone(insn, r) /\ DeviceRead(insn) = 0
      /\ insn.port # "com" => DevDone(insn, r)
  <2>1. insn.port = "com" => ComDone(insn, r)
    BY <1>1, <1>3, <1>4, ComIs DEF Transfer
  <2>2. insn.port = "com" => DeviceRead(insn) = 0
    BY DEF DeviceRead
  <2>3. insn.port # "com" => DevDone(insn, r)
    BY <1>1, <1>3, <1>4, DevIs DEF Transfer
  <2> QED
    BY <2>1, <2>2, <2>3
<1>7. /\ r.rc \in {"DONE", "FAULT", "FAIL", "HANG"} /\ r.rcx \in Nat /\ r.ptr \in Nat
      /\ r.bytes \in Seq(Int) /\ DeviceRead(insn) \in Nat
  BY <1>6 DEF ComDone, DevDone
<1>8. /\ sts' \in {"done", "fault", "hang", "dead"}
      /\ sts' = "done" <=> r.rc = "DONE"
      /\ sts' = "fault" <=> r.rc = "FAULT"
      /\ sts' = "hang" <=> r.rc = "HANG"
      /\ sts' = "dead" <=> r.rc = "FAIL"
  BY <1>1, <1>7
<1>9. StringTypes'
  <2>1. uart' \in Uart
    <3>1. insn.port = "com" => r.idx \in 0..BuffLen
      BY <1>6 DEF ComDone
    <3>2. uart \in Uart
      BY <1>4 DEF StringTypes
    <3>3. CASE insn.port = "com"
      <4>1. uart' = [uart EXCEPT !.index = r.idx] /\ r.idx \in 0..BuffLen
        BY <1>1, <3>1, <3>3
      <4> QED
        BY <3>2, <4>1 DEF Uart
    <3> QED
      BY <1>1, <3>2, <3>3
  <2>2. moved' \in Seq(Int) /\ used' \in Nat /\ rcx' \in Nat /\ ptr' \in Nat
    BY <1>1, <1>4, <1>7 DEF StringTypes
  <2>3. inputs' \in BOOLEAN /\ faults' \in {"none", "clean", "torn"}
    BY <1>1, <1>4 DEF StringTypes
  <2> QED
    BY <1>8, <2>1, <2>2, <2>3 DEF StringTypes
<1>10. Room'
  <2>1. CASE insn.port # "com"
    BY <1>1, <1>4, <2>1 DEF Room
  <2>2. CASE insn.port = "com"
    <3>1. ~inputs' => ~inputs /\ ~insn.in
      BY <1>1, <1>3, <1>4, <2>2 DEF StringTypes, IoInsn
    <3>2. uart'.index = r.idx
      BY <1>1, <1>4, <2>2 DEF StringTypes, Uart
    <3>3. ~inputs' => r.idx < BuffLen
      BY <1>4, <1>6, <2>2, <3>1 DEF ComDone, Room
    <3> QED
      BY <3>2, <3>3 DEF Room
  <2> QED
    BY <2>1, <2>2
<1>11. ASSUME r.rc = "FAULT", faults' # "torn" PROVE r.ptr = ptr /\ DeviceRead(insn) = 0 /\ faults # "torn"
  BY <1>1, <1>11
<1>12. Fresh'
  <2> SUFFICES ASSUME Open', faults' # "torn", insn.s, insn.port = "com" => ~insn.in /\ insn.sz = 1
               PROVE  moved' = <<>> /\ rcx' = insn.n /\ ptr' = insn.v /\ used' = 0
    BY <1>2 DEF Fresh
  <2>1. r.rc = "FAULT"
    BY <1>8 DEF Open
  <2>2. r.ptr = ptr /\ DeviceRead(insn) = 0 /\ faults # "torn"
    BY <1>11, <2>1
  <2>3. moved = <<>> /\ rcx = insn.n /\ ptr = insn.v /\ used = 0
    BY <1>4, <1>5, <2>2 DEF Fresh
  <2>4. r.bytes = <<>> /\ r.rcx = rcx
    <3>1. CASE insn.port # "com"
      BY <1>6, <2>1, <2>2, <3>1 DEF DevDone
    <3>2. CASE insn.port = "com"
      <4>1. ComDone(insn, r) /\ insn.sz = 1
        BY <1>6, <3>2
      <4>2. Bytewise(insn)
        BY <2>1, <4>1 DEF ComDone, Bytewise
      <4> QED
        BY <2>1, <2>2, <4>1, <4>2 DEF ComDone
    <3> QED
      BY <3>1, <3>2
  <2> QED
    BY <1>1, <2>2, <2>3, <2>4
<1>13. Span'
  <2> SUFFICES ASSUME Open', insn.port = "com", Bytewise(insn)
               PROVE  IF insn.rep THEN ptr' >= insn.v /\ ptr' + rcx' = insn.v + insn.n
                      ELSE ptr' = insn.v /\ rcx' = insn.n
    BY <1>2 DEF Span, Bytewise
  <2>1. r.rc = "FAULT" /\ ComDone(insn, r)
    BY <1>6, <1>8 DEF Open
  <2>2. IF insn.rep THEN ptr >= insn.v /\ ptr + rcx = insn.v + insn.n
        ELSE ptr = insn.v /\ rcx = insn.n
    BY <1>4, <1>5 DEF Span
  <2>3. ptr \in Nat /\ insn.v \in Nat
    BY <1>3, <1>4 DEF StringTypes, IoInsn
  <2>4. IF insn.rep THEN r.ptr + r.rcx = ptr + rcx /\ r.ptr >= ptr
        ELSE r.ptr = ptr /\ r.rcx = rcx
    BY <2>1 DEF ComDone
  <2> QED
    BY <1>1, <1>7, <2>2, <2>3, <2>4
<1>14. /\ Wanted(insn)' = Wanted(insn) /\ Len(Wanted(insn)) = Length(insn) /\ Length(insn) \in Nat
       /\ \A i \in 1..Length(insn) : Wanted(insn)[i] = Place(pt, c, insn.v + i - 1)
       /\ Wanted(insn) = [i \in 1..Length(insn) |-> Wanted(insn)[i]]
  <2>1. Wanted(insn)' = Wanted(insn)
    BY <1>2 DEF Wanted
  <2>2. Wanted(insn) = [i \in 1..Length(insn) |-> Wanted(insn)[i]]
    BY DEF Wanted, Length
  <2> QED
    BY <1>3, <2>1, <2>2, WantedIs
<1>15. StringOnce'
  <2> SUFFICES ASSUME sts' = "done", insn.s, faults' # "torn",
                      insn.port = "com" => ~insn.in /\ insn.sz = 1 /\ Fits(Len(Wanted(insn)))'
               PROVE  /\ moved' = Wanted(insn)
                      /\ insn.rep => rcx' = 0
                      /\ insn.port = "dev" /\ insn.in => used' = Len(moved')
    BY <1>2, <1>14 DEF StringOnce
  <2>1. r.rc = "DONE" /\ faults # "torn"
    BY <1>1, <1>8
  <2>2. moved = <<>> /\ rcx = insn.n /\ ptr = insn.v /\ used = 0
    BY <1>4, <1>5, <2>1 DEF Fresh
  <2>3. /\ Len(r.bytes) = Length(insn)
        /\ \A i \in 1..Length(insn) : r.bytes[i] = Place(pt, c, insn.v + i - 1)
        /\ insn.rep => r.rcx = 0
        /\ insn.port = "dev" /\ insn.in => DeviceRead(insn) = Length(insn)
    <3>1. CASE insn.port # "com"
      <4>1. Missing(insn, rcx) = Length(insn)
        BY <2>2 DEF Missing, Length
      <4> QED
        BY <1>6, <2>1, <2>2, <3>1, <4>1 DEF DevDone
    <3>2. CASE insn.port = "com"
      <4>1. ComDone(insn, r) /\ ~insn.in /\ insn.sz = 1
        BY <1>6, <3>2
      <4>2. Bytewise(insn)
        BY <2>1, <4>1 DEF ComDone, Bytewise
      <4>3. Whole(insn) = Length(insn)
        BY <1>3, <2>2, <4>1 DEF Whole, Length, IoInsn
      <4>4. uart'.index = r.idx
        BY <1>1, <1>4, <3>2 DEF StringTypes, Uart
      <4>5. Whole(insn) <= r.idx \/ (r.idx = 0 /\ Whole(insn) <= BuffLen)
        BY <1>14, <3>2, <4>3, <4>4 DEF Fits
      <4>6. Whole(insn) <= BuffLen
        <5>1. r.idx \in 0..BuffLen /\ BuffLen \in Nat
          BY <4>1, StringAssumption DEF ComDone
        <5> QED
          BY <1>14, <4>3, <4>5, <5>1
      <4> QED
        BY <2>1, <2>2, <3>2, <4>1, <4>2, <4>3, <4>5, <4>6 DEF ComDone
    <3> QED
      BY <3>1, <3>2
  <2>4. r.bytes = Wanted(insn)
    <3>1. r.bytes = [i \in 1..Length(insn) |-> r.bytes[i]]
      <4>1. \A b \in Seq(Int) : b = [i \in 1..Len(b) |-> b[i]]
        OBVIOUS
      <4>2. r.bytes = [i \in 1..Len(r.bytes) |-> r.bytes[i]]
        BY <1>7, <4>1
      <4> QED
        BY <2>3, <4>2
    <3> QED
      BY <1>14, <2>3, <3>1
  <2>5. moved' = r.bytes
    BY <1>1, <1>7, <2>2
  <2> QED
    BY <1>1, <1>7, <1>14, <2>2, <2>3, <2>4, <2>5
<1>16. UartLives'
  <2> SUFFICES ASSUME sts' \in {"dead", "hang"}, insn.port = "com", ~inputs', ~insn.back,
                      ~(insn.sz > 1)
               PROVE  \E i \in 1..Length(insn) : OfVmm(pt, c, 0, insn.v + i - 1)
    BY <1>2, <1>14 DEF UartLives
  <2>1. ~inputs /\ ~insn.in /\ insn.sz = 1
    BY <1>1, <1>3, <1>4 DEF StringTypes, IoInsn
  <2>2. uart.index < BuffLen /\ ComDone(insn, r) /\ r.rc \in {"FAIL", "HANG"}
    BY <1>4, <1>6, <1>8, <2>1 DEF Room
  <2>3. insn.s /\ Bytewise(insn)
    BY <2>1, <2>2 DEF ComDone, Bytewise
  <2>4. r.rc = "FAIL" /\ \E i \in 1..Whole(insn) : OfVmm(pt, c, 0, ptr + i - 1)
    BY <2>1, <2>2, <2>3 DEF ComDone
  <2>5. IF insn.rep THEN ptr >= insn.v /\ ptr + rcx = insn.v + insn.n
        ELSE ptr = insn.v /\ rcx = insn.n
    BY <1>4, <1>5, <2>3 DEF Span
  <2>6. ptr \in Nat /\ insn.v \in Nat /\ insn.n \in Nat /\ rcx \in Nat
    BY <1>3, <1>4 DEF StringTypes, IoInsn
  <2>7. Length(insn) = IF insn.rep THEN insn.n ELSE 1
    BY <2>1, <2>6 DEF Length
  <2>8. PICK i \in 1..Whole(insn) : OfVmm(pt, c, 0, ptr + i - 1)
    BY <2>4
  <2> DEFINE j == ptr - insn.v + i
  <2>9. j \in 1..Length(insn) /\ insn.v + j - 1 = ptr + i - 1
    BY <2>5, <2>6, <2>7, <2>8 DEF Whole
  <2> QED
    BY <2>8, <2>9
<1>17. (insn = NoInsn => sts = "run")'
  BY <1>2
<1> QED
  BY <1>9, <1>10, <1>12, <1>13, <1>15, <1>16, <1>17

\* The end of an instruction, a page fault served, a new one, and the other
\* registers of COM1.
LEMMA OtherStep ==
    ASSUME StringInv, LargeAgree(c), Issue \/ Retire \/ PageIn \/ UartRegister \/ UNCHANGED strvars
    PROVE  StringTypes' /\ (insn = NoInsn => sts = "run")' /\ Fresh' /\ Span' /\ Room'
           /\ StringOnce' /\ UartLives'
<1>1. /\ StringTypes /\ (insn = NoInsn => sts = "run") /\ Fresh /\ Span /\ Room
      /\ StringOnce /\ UartLives
  BY DEF StringInv
<1>2. \A io \in Insns : io # NoInsn /\ io.v \in Nat /\ io.n \in Nat
  BY StringAssumption DEF IoInsn, NoInsn
<1>3. CASE Issue
  <2>1. PICK io \in Insns : insn' = io /\ rcx' = io.n /\ ptr' = io.v
    BY <1>3 DEF Issue
  <2>2. /\ sts' = "run" /\ moved' = <<>> /\ used' = 0 /\ faults' = "none"
        /\ uart' = uart /\ inputs' = inputs
    BY <1>3 DEF Issue
  <2>3. StringTypes'
    <3>1. moved' \in Seq(Int)
      BY <2>2
    <3> QED
      BY <1>1, <1>2, <2>1, <2>2, <3>1 DEF StringTypes
  <2>4. Fresh' /\ Span' /\ Room'
    <3>1. io.v \in Nat /\ io.n \in Nat
      BY <1>2
    <3> QED
      BY <1>1, <2>1, <2>2, <3>1 DEF Fresh, Span, Room
  <2>5. StringOnce' /\ UartLives'
    BY <2>2 DEF StringOnce, UartLives
  <2> QED
    BY <2>2, <2>3, <2>4, <2>5
<1>4. CASE Retire
  <2>1. /\ sts' = "run" /\ moved' = <<>> /\ used' = 0 /\ faults' = "none" /\ insn' = NoInsn
        /\ rcx' = 0 /\ ptr' = 0 /\ uart' = uart /\ inputs' = inputs
    BY <1>4 DEF Retire
  <2>2. StringTypes'
    <3>1. moved' \in Seq(Int)
      BY <2>1
    <3> QED
      BY <1>1, <2>1, <3>1 DEF StringTypes
  <2>3. Fresh' /\ Span' /\ Room'
    BY <1>1, <2>1 DEF Fresh, Span, Room, Open
  <2>4. StringOnce' /\ UartLives'
    BY <2>1 DEF StringOnce, UartLives
  <2> QED
    BY <2>1, <2>2, <2>3, <2>4
<1>5. CASE PageIn
  <2>1. /\ sts = "fault" /\ sts' = "run" /\ moved' = moved /\ used' = used /\ faults' = faults
        /\ insn' = insn /\ rcx' = rcx /\ ptr' = ptr /\ uart' = uart /\ inputs' = inputs
    BY <1>5 DEF PageIn
  <2>2. StringTypes'
    BY <1>1, <2>1 DEF StringTypes
  <2>3. Fresh' /\ Span' /\ Room'
    <3>1. Open' => Open
      BY <2>1 DEF Open
    <3> QED
      BY <1>1, <2>1, <3>1 DEF Fresh, Span, Room, Bytewise
  <2>4. StringOnce' /\ UartLives'
    BY <2>1 DEF StringOnce, UartLives
  <2> QED
    BY <2>1, <2>2, <2>3, <2>4
<1>6. CASE UartRegister
  <2>1. /\ sts' = sts /\ moved' = moved /\ used' = used /\ faults' = faults
        /\ insn' = insn /\ rcx' = rcx /\ ptr' = ptr /\ inputs' = inputs
        /\ sts = "run" /\ insn = NoInsn
    BY <1>6 DEF UartRegister
  <2>2. uart' \in Uart /\ uart'.index = uart.index
    <3>1. uart \in Uart
      BY <1>1 DEF StringTypes
    <3>2. CASE \E on, safe \in BOOLEAN : __dev_uart_ier(on, safe)
      <4>1. PICK on \in BOOLEAN, safe \in BOOLEAN : __dev_uart_ier(on, safe)
        BY <3>2
      <4> QED
        BY <3>1, <4>1 DEF __dev_uart_ier, Uart, SerialIer, SerialIir, SerialLcr
    <3>3. CASE __dev_uart_iir
      BY <3>1, <3>3 DEF __dev_uart_iir, Uart, SerialIir
    <3>4. CASE \E dla \in BOOLEAN : __dev_uart_lcr(dla)
      BY <3>1, <3>4 DEF __dev_uart_lcr, Uart, SerialLcr
    <3>5. CASE uart' = [uart EXCEPT !.irq = FALSE]
      BY <3>1, <3>5 DEF Uart
    <3> QED
      BY <1>6, <3>2, <3>3, <3>4, <3>5 DEF UartRegister
  <2>3. StringTypes'
    BY <1>1, <2>1, <2>2 DEF StringTypes
  <2>4. Fresh' /\ Span' /\ Room'
    BY <1>1, <2>1, <2>2 DEF Fresh, Span, Room, Open
  <2>5. StringOnce' /\ UartLives'
    BY <2>1 DEF StringOnce, UartLives
  <2> QED
    BY <2>1, <2>3, <2>4, <2>5
<1>7. CASE UNCHANGED strvars
  <2>1. /\ c' = c /\ pt' = pt /\ insn' = insn /\ rcx' = rcx /\ ptr' = ptr /\ uart' = uart
        /\ moved' = moved /\ used' = used /\ inputs' = inputs /\ faults' = faults /\ sts' = sts
    BY <1>7 DEF strvars
  <2>2. StringTypes' /\ (insn = NoInsn => sts = "run")'
    BY <1>1, <2>1 DEF StringTypes
  <2>3. Fresh' /\ Span' /\ Room'
    BY <1>1, <2>1 DEF Fresh, Span, Room, Open, Bytewise
  <2>4. StringOnce' /\ UartLives'
    BY <1>1, <2>1 DEF StringOnce, UartLives, Wanted, Fits
  <2> QED
    BY <2>2, <2>3, <2>4
<1> QED
  BY <1>3, <1>4, <1>5, <1>6, <1>7

LEMMA StringInvStep == StringInv /\ [StringNext]_strvars => StringInv'
<1> SUFFICES ASSUME StringInv, [StringNext]_strvars PROVE StringInv'
  OBVIOUS
<1>1. GuestOK'
  BY GuestStep DEF StringInv
<1>2. c' = c
  BY DEF StringNext, Issue, vmx_vmexit_resolve_io, Retire, PageIn, UartRegister, strvars
<1>3. LargeAgree(c)' => LargeAgree(c)
  BY <1>2
<1>4. LargeAgree(c)' =>
        /\ StringTypes' /\ (insn = NoInsn => sts = "run")' /\ Fresh' /\ Span' /\ Room'
        /\ StringOnce' /\ UartLives'
  BY <1>3, ResolveStep, OtherStep DEF StringNext
<1> QED
  BY <1>1, <1>4 DEF StringInv

THEOREM StringSafe == StringSpec => []StringInv
<1> QED
  BY StringInvInit, StringInvStep, PTL DEF StringSpec

\* A string instruction that has finished moved every byte once and in
\* order, unless a page fault tore it (io.c, uart.c).
THEOREM MovedOnce == StringSpec => []StringOnce
<1>1. StringInv => StringOnce
  BY DEF StringInv, StringOnce
<1> QED
  BY <1>1, StringSafe, PTL

\* Bytes written to COM1 never end the VMM (uart.c).
THEOREM OutputsLive == StringSpec => []UartLives
<1>1. StringInv => UartLives
  BY DEF StringInv, UartLives
<1> QED
  BY <1>1, StringSafe, PTL
=============================================================================
