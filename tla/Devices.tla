------------------------------- MODULE Devices -------------------------------
(***************************************************************************)
(* The legacy devices whose ports are intercepted, and the BIOS services   *)
(* of the guest in real mode: core/device.c, devices/{kbd,ps2,sio,pci,     *)
(* acpi}.c, drivers/sio.c, the PIC detection of devices/io.c, the mode     *)
(* switches of core/vm.c, core/emulate_int15.c and core/emulate_rmode.c.   *)
(* A port is a name, the value on it what the handlers tell apart.         *)
(***************************************************************************)
EXTENDS Integers, Sequences, SequencesExt

CONSTANTS
    SmapNr,     \* smap->nr
    MaxNest     \* how many real mode interrupts are nested

ASSUME DevicesAssumption == SmapNr \in Nat \ {0} /\ MaxNest \in Nat

VARIABLES
    trap,       \* the ports of the I/O bitmap that exit
    dev,        \* info->vm.dev
    hw,         \* the devices themselves (external)
    pmode,      \* the guest runs with cr0.pe
    seen,       \* the last value the guest read of the cards' identity, "upper" if
                \* by the upper half of the data port
    loop,       \* the guest's walk of the memory map with int 15h
    stack, at,  \* its real mode stack, and where it executes: [loc, ie], ie
                \* the flag rflags.if; the address behind an INT stands for the INT
    frames,     \* the interrupts it has not returned from (history)
    oddaddr,    \* it used the PCI ports in a way no filter sees whole (history)
    diverted,   \* so the ports of the Super I/O, or wrote SIO_DATA after an exit
                \* had moved the index (history)
    dsts        \* "run", or "dead" after a panic

portvars == <<trap, dev, hw, pmode, seen, oddaddr, diverted, dsts>>
biosvars == <<loop, stack, at, frames>>
devvars == <<portvars, biosvars>>

\* dev_io_ports.h, in the order of their numbers.
PortOrder == <<"PIC_CMD", "PIC_DATA", "SIO_INDEX", "SIO_DATA", "KBD_DATA",
               "KBD_CTRL", "PS2", "PIC2", "PCI_ADDR", "PCI_DATA", "PCI_DATA_HI",
               "PM1">>
PortRange(a, b) ==
    {PortOrder[i] : i \in {j \in DOMAIN PortOrder :
        \E x, y \in DOMAIN PortOrder :
            PortOrder[x] = a /\ PortOrder[y] = b /\ x <= j /\ j <= y}}
KbdPorts == PortRange("KBD_DATA", "KBD_CTRL")
ReleasedPorts == PortRange("PIC_CMD", "PIC2")

\* What the guest writes: commands and the gate A20 bit of the output port on
\* the keyboard controller, the PS/2 control byte, the COM1 bit on SIO_DATA,
\* configuration addresses, a register and the two low bits of its number, mm
\* and bus_master of the card, PM1 control.
KbdCmds == {"other", "READ_O_PORT", "WRITE_O_PORT"}
OutputPort == {"0", "1"}
Ps2Bytes == {"0", "1", "reset"}
PicBytes == {"icw1", "ocw"}
PciRegs == {"other", "net_dvd", "net_cmd", "ehci_dvd"}
PciAddrs == [reg : PciRegs, low : {0, 2}]
CardCmds == {"0", "1"}
Pm1Words == {"other", "s3"}
Values(p) ==
    CASE p = "PIC_CMD" -> PicBytes
      [] p = "KBD_CTRL" -> KbdCmds
      [] p = "KBD_DATA" -> OutputPort
      [] p = "PS2" -> Ps2Bytes
      [] p = "PCI_ADDR" -> PciAddrs
      [] p = "PCI_DATA" -> CardCmds
      [] p = "PM1" -> Pm1Words
      [] OTHER -> {"0", "1"}

\* vm_dev_init.
vm_dev_init ==
    /\ trap = PortRange("PIC_CMD", "PIC_DATA") \cup KbdPorts
                \cup {"PS2", "PCI_ADDR", "SIO_INDEX", "PM1"}
    /\ dev = [a20 |-> "1", last_cmd |-> "other", out_a20 |-> "0", ps2_a20 |-> "0",
              wait_icw2 |-> FALSE, sio_filter |-> "none", pci_filter |-> "none"]

DevInit ==
    /\ vm_dev_init
    /\ hw = [kcmd |-> "other", ka20 |-> "1", ps2 |-> "0", idx |-> "1", com1 |-> "1",
             addr |-> "other", card |-> "1", chosen |-> "1"]
    /\ pmode = FALSE /\ seen = "none" /\ oddaddr = FALSE /\ diverted = FALSE
    /\ dsts = "run"
    /\ loop = [open |-> FALSE, rbx |-> 0, got |-> <<>>, bad |-> FALSE]
    /\ stack = <<>> /\ at = [loc |-> 0, ie |-> 1] /\ frames = <<>>

-----------------------------------------------------------------------------
(***************************************************************************)
(* The devices.  chosen is the index the guest selected last.  The bridge  *)
(* has no low bits of a register number.                                   *)
(***************************************************************************)
HwOut(h, p, v) ==
    CASE p = "KBD_CTRL" -> [h EXCEPT !.kcmd = v]
      [] p = "KBD_DATA" ->
            [h EXCEPT !.ka20 = IF h.kcmd = "WRITE_O_PORT" THEN v ELSE @, !.kcmd = "other"]
      [] p = "PS2" -> [h EXCEPT !.ps2 = v]
      [] p = "SIO_INDEX" -> [h EXCEPT !.idx = v, !.chosen = v]
      [] p = "SIO_DATA" -> [h EXCEPT !.com1 = IF h.idx = "0" THEN v ELSE @]
      [] p = "PCI_ADDR" -> [h EXCEPT !.addr = v.reg]
      [] p = "PCI_DATA" -> [h EXCEPT !.card = IF h.addr = "net_cmd" THEN v ELSE @]
      [] OTHER -> h

\* What an instruction transfers behind the first unit, which alone the filters
\* look at: the rest of a string, on the same port, or the upper byte of a word
\* on the next.  Only of the ports that are filtered.
NoRest == [port |-> "none"]
Rests(p) ==
    {NoRest} \cup (IF p \in {"SIO_INDEX", "SIO_DATA", "PCI_ADDR", "PCI_DATA"}
                  THEN {[port |-> p, v |-> w] : w \in Values(p)} ELSE {})
             \cup (IF p = "SIO_INDEX"
                  THEN {[port |-> "SIO_DATA", v |-> w] : w \in Values("SIO_DATA")} ELSE {})
HwOuts(h, p, v, rest) ==
    IF rest = NoRest THEN HwOut(h, p, v) ELSE HwOut(HwOut(h, p, v), rest.port, rest.v)

\* sio_check_com1: at every exit, through the index register of the chip.
sio_check_com1(h) == [h EXCEPT !.idx = "0", !.com1 = "1"]

\* What an exit leaves in the devices before its handler runs.
AtExit == sio_check_com1(hw)

-----------------------------------------------------------------------------
(***************************************************************************)
(* The handlers, called by dev_access with the devices as h.               *)
(***************************************************************************)

\* dev_a20_set; npg_setup_a20 only logs.
dev_a20_set(d, on) == [d EXCEPT !.a20 = on]

\* __io_pic_detect: after ICW1 the next byte on the data port is ICW2, and
\* the interception is released.
__io_pic_detect(p, v) ==
    IF p = "PIC_CMD"
    THEN dev' = [dev EXCEPT !.wait_icw2 = @ \/ v = "icw1"] /\ UNCHANGED trap
    ELSE /\ dev' = [dev EXCEPT !.wait_icw2 = FALSE]
         /\ trap' = IF dev.wait_icw2 THEN trap \ ReleasedPorts ELSE trap

\* dev_io_proxify on the ports of the PIC.
PicWrite(h, p, v) ==
    /\ __io_pic_detect(p, v) /\ hw' = h
    /\ UNCHANGED <<seen, pmode, oddaddr, dsts>>

\* __dev_kbd_ctrl.
__dev_kbd_ctrl(h, in, v) ==
    /\ dev' = IF in THEN dev ELSE [dev EXCEPT !.last_cmd = v]
    /\ hw' = IF in THEN h ELSE HwOut(h, "KBD_CTRL", v)
    /\ UNCHANGED <<trap, seen, pmode, oddaddr, dsts>>

\* __dev_kbd_data: gate A20 is never closed in the device.
__dev_kbd_data(h, in, v) ==
    LET o_port == dev.last_cmd = "WRITE_O_PORT" IN
    /\ dev' = IF in \/ ~o_port THEN dev ELSE dev_a20_set([dev EXCEPT !.out_a20 = v], v)
    /\ hw' = IF in THEN h ELSE HwOut(h, "KBD_DATA", IF o_port THEN "1" ELSE v)
    /\ UNCHANGED <<trap, seen, pmode, oddaddr, dsts>>

\* dev_ps2: the device itself is never accessed.
dev_ps2(h, in, v) ==
    /\ hw' = h
    /\ IF ~in /\ v = "reset"
       THEN dsts' = "dead" /\ UNCHANGED dev
       ELSE LET bit == IF in THEN dev.ps2_a20 ELSE v IN
            dev' = dev_a20_set([dev EXCEPT !.ps2_a20 = bit], bit) /\ UNCHANGED dsts
    /\ UNCHANGED <<trap, seen, pmode, oddaddr>>

\* __dev_sio_filter_index and __dev_sio_filter_com1, and dev_sio around them.
__dev_sio_filter_index(v) ==
    /\ trap' = IF v = "0" THEN trap \cup {"SIO_DATA"} ELSE trap \ {"SIO_DATA"}
    /\ dev' = [dev EXCEPT !.sio_filter = IF v = "0" THEN "com1" ELSE "index"]

__dev_sio_filter_com1(v) == "1"

dev_sio(h, p, in, v, rest) ==
    /\ IF p = "SIO_INDEX"
       THEN LET i == IF in THEN h.idx ELSE v IN
            /\ __dev_sio_filter_index(i)
            /\ hw' = IF in THEN h ELSE HwOuts(h, p, v, rest)
       ELSE /\ hw' = IF in THEN h
                     ELSE HwOuts(h, p, IF dev.sio_filter = "com1"
                                       THEN __dev_sio_filter_com1(v) ELSE v, rest)
            /\ UNCHANGED <<trap, dev>>
    /\ UNCHANGED <<seen, pmode, oddaddr, dsts>>

\* Mutant: only the identity of the card is filtered.
FilterIdentity(a) ==
    IF a.low = 0 /\ a.reg \in {"net_dvd", "ehci_dvd"} THEN a.reg ELSE "none"

\* __dev_pci_filter_e1000 and __dev_pci_filter_ehci: the filter an address
\* asks for, "none" for VM_IGNORE.  All eight bits of the number are compared.
PciFilter(a) ==
    IF a.low = 0 /\ a.reg # "other" THEN a.reg ELSE "none"

\* __dev_pci_filter_addr.
__dev_pci_filter_addr(a) ==
    /\ trap' = IF PciFilter(a) = "none" THEN trap \ {"PCI_DATA"} ELSE trap \cup {"PCI_DATA"}
    /\ dev' = [dev EXCEPT !.pci_filter = IF PciFilter(a) = "none" THEN "addr" ELSE PciFilter(a)]

\* __dev_pci_filter_dvd_e1000, _dvd_ehci and _cmd_sts_e1000.
__dev_pci_filter_dvd(v) == "invalid"
__dev_pci_filter_cmd_sts_e1000(v) == "1"

\* What PCI_CONFIG_DATA reads as: the identity of a card (the device number is
\* its upper half), or something else.
PciData(h) == IF h.addr \in {"net_dvd", "ehci_dvd"} THEN "id" ELSE "data"

\* dev_pci.  Of an access to PCI_CONFIG_ADDR in pieces (cut) only a part of
\* the pool is fresh, and the device takes no address from it.
dev_pci(h, p, in, v, cut, rest) ==
    /\ IF p = "PCI_ADDR"
       THEN /\ \E a \in PciAddrs :
                 /\ ~cut => a = IF in THEN [reg |-> h.addr, low |-> 0] ELSE v
                 /\ __dev_pci_filter_addr(a)
            /\ hw' = IF in \/ cut THEN h ELSE HwOuts(h, p, v, rest)
            /\ oddaddr' = (oddaddr \/ cut \/ (~in /\ (v.low # 0 \/ rest # NoRest)))
            /\ UNCHANGED seen
       ELSE /\ hw' = IF in THEN h
                     ELSE HwOuts(h, p, IF dev.pci_filter = "net_cmd"
                                       THEN __dev_pci_filter_cmd_sts_e1000(v) ELSE v, rest)
            /\ seen' = CASE ~in -> seen
                         [] in /\ rest = NoRest /\ PciData(h) = "id"
                               /\ dev.pci_filter \in {"net_dvd", "ehci_dvd"}
                              -> __dev_pci_filter_dvd(v)
                         [] OTHER -> PciData(h)
            /\ oddaddr' = (oddaddr \/ rest # NoRest)
            /\ UNCHANGED <<trap, dev>>
    /\ UNCHANGED <<pmode, dsts>>

\* vm_enter_pmode and vm_enter_rmode: the part about ports.
vm_enter_pmode == trap' = trap \ KbdPorts /\ pmode' = TRUE
vm_enter_rmode == trap' = trap \cup KbdPorts /\ pmode' = FALSE

\* acpi_facs_wake_vector fails unless there is a real mode vector (woken);
\* acpi_wake_up puts the guest there in real mode.
acpi_wake_up(h, woken) ==
    /\ hw' = h
    /\ IF ~woken THEN dsts' = "dead" /\ UNCHANGED <<trap, pmode>>
       ELSE /\ IF pmode THEN vm_enter_rmode ELSE UNCHANGED <<trap, pmode>>
            /\ UNCHANGED dsts

\* dev_acpi_pm1_ctl: entering S3 comes back as a wake up at once.
dev_acpi_pm1_ctl(h, in, v) ==
    /\ IF ~in /\ v = "s3" THEN \E woken \in BOOLEAN : acpi_wake_up(h, woken)
       ELSE hw' = h /\ UNCHANGED <<trap, pmode, dsts>>
    /\ UNCHANGED <<dev, seen, oddaddr>>

-----------------------------------------------------------------------------
\* dev_access: an intercepted port.
dev_access(p, in, v, cut, rest) ==
    CASE p \in {"PCI_ADDR", "PCI_DATA"} -> dev_pci(AtExit, p, in, v, cut, rest)
      [] p \in {"SIO_INDEX", "SIO_DATA"} -> dev_sio(AtExit, p, in, v, rest)
      [] p = "PM1" -> dev_acpi_pm1_ctl(AtExit, in, v)
      [] p = "PS2" -> dev_ps2(AtExit, in, v)
      [] p = "KBD_CTRL" -> __dev_kbd_ctrl(AtExit, in, v)
      [] p = "KBD_DATA" -> __dev_kbd_data(AtExit, in, v)
      [] OTHER -> IF in THEN hw' = AtExit /\ UNCHANGED <<trap, dev, seen, pmode, oddaddr, dsts>>
                  ELSE PicWrite(AtExit, p, v)

Intercepted ==
    /\ dsts = "run"
    /\ \E p \in trap : \E in, cut \in BOOLEAN : \E v \in Values(p), rest \in Rests(p) :
        /\ cut => p = "PCI_ADDR" /\ rest = NoRest
        /\ dev_access(p, in, v, cut, rest)
        /\ diverted' = (diverted \/ (p = "SIO_DATA" /\ hw.idx # hw.chosen)
                          \/ (p \in {"SIO_INDEX", "SIO_DATA"} /\ ~in /\ rest # NoRest))
    /\ UNCHANGED biosvars

\* The guest reaches the device directly.
Native ==
    /\ dsts = "run"
    /\ \E p \in ToSet(PortOrder) \ trap : \E in \in BOOLEAN : \E v \in Values(p) :
        /\ v # "reset"
        /\ hw' = IF in THEN hw ELSE HwOut(hw, p, v)
        /\ seen' = CASE in /\ p = "PCI_DATA" -> PciData(hw)
                     [] in /\ p = "PCI_DATA_HI" /\ PciData(hw) = "id" -> "upper"
                     [] OTHER -> seen
        /\ diverted' = (diverted \/ (p = "SIO_DATA" /\ hw.idx # hw.chosen))
    /\ UNCHANGED <<trap, dev, pmode, oddaddr, dsts, biosvars>>

\* Any other exit, and those that switch the mode of the guest.
OtherExit ==
    /\ dsts = "run" /\ hw' = AtExit
    /\ \/ UNCHANGED <<trap, pmode>>
       \/ ~pmode /\ vm_enter_pmode
       \/ pmode /\ vm_enter_rmode
    /\ UNCHANGED <<dev, seen, oddaddr, diverted, dsts, biosvars>>

-----------------------------------------------------------------------------
(***************************************************************************)
(* Real mode interrupts: the guest exits on INT n and IRET.                *)
(***************************************************************************)

\* One entry of the memory map has this size.
EntrySz == 20

\* Mutant: the last entry is not recognised.
SmapLate(rbx, rcx) ==
    LET size == IF rcx > EntrySz THEN EntrySz ELSE rcx
        left == SmapNr * EntrySz - rbx
    IN  IF left <= 0 THEN [rbx |-> 0, rcx |-> 0]
        ELSE IF left < EntrySz THEN [rbx |-> 0, rcx |-> left]
        ELSE [rbx |-> rbx + size, rcx |-> size]

\* emulate_int15_smap: the continuation value and how much was copied.
emulate_int15_smap(rbx, rcx) ==
    LET size == IF rcx > EntrySz THEN EntrySz ELSE rcx
        left == SmapNr * EntrySz - rbx
    IN  IF left <= 0 THEN [rbx |-> 0, rcx |-> 0]
        ELSE IF left <= EntrySz THEN [rbx |-> 0, rcx |-> left]
        ELSE [rbx |-> rbx + size, rcx |-> size]

\* emulate_int15, BIOS_GET_SMAP: the guest starts with rbx = 0 and goes on
\* with what it was given until it is given 0.  A buffer that is too small is
\* refused with the carry flag.
GetSmap ==
    /\ dsts = "run" /\ ~pmode
    /\ \E rcx \in {EntrySz - 1, EntrySz, EntrySz + 4} :
        LET rbx == IF loop.open THEN loop.rbx ELSE 0
            r == emulate_int15_smap(rbx, rcx)
        IN  IF rcx < EntrySz THEN UNCHANGED loop
            ELSE loop' = [open |-> r.rbx # 0, rbx |-> r.rbx,
                          got |-> Append(IF loop.open THEN loop.got ELSE <<>>,
                                         rbx \div EntrySz),
                          bad |-> r.rcx # EntrySz]
    /\ hw' = AtExit
    /\ UNCHANGED <<trap, dev, pmode, seen, oddaddr, diverted, dsts, stack, at, frames>>

\* emulate_int15_a20_disable and _enable; _status and _support change nothing,
\* the extended memory services only registers.
A20Service ==
    /\ dsts = "run" /\ ~pmode
    /\ \E on \in {"0", "1"} : dev' = dev_a20_set(dev, on)
    /\ hw' = AtExit
    /\ UNCHANGED <<trap, pmode, seen, oddaddr, diverted, dsts, biosvars>>

\* All code is in one segment.
CS == 100

\* emulate_rmode_push.
emulate_rmode_push(s, x) == Append(s, x)

\* emulate_rmode_far_call: segment, then offset of the next instruction.
emulate_rmode_far_call(s, from) ==
    emulate_rmode_push(emulate_rmode_push(s, CS), from)

\* emulate_rmode_interrupt: the flags are pushed as they were, IF is cleared.
emulate_rmode_interrupt ==
    /\ dsts = "run" /\ ~pmode /\ Len(frames) < MaxNest
    /\ \E vector \in 1..2 :
        /\ stack' = emulate_rmode_far_call(emulate_rmode_push(stack, at.ie), at.loc)
        /\ at' = [loc |-> 10 * vector, ie |-> 0]
        /\ frames' = Append(frames, at)
    /\ hw' = AtExit
    /\ UNCHANGED <<trap, dev, pmode, seen, oddaddr, diverted, dsts, loop>>

\* emulate_rmode_far_ret and emulate_rmode_iret: offset, segment, flags.
emulate_rmode_iret ==
    /\ dsts = "run" /\ ~pmode /\ Len(stack) >= 3
    /\ at' = [loc |-> stack[Len(stack)], ie |-> stack[Len(stack) - 2]]
    /\ stack' = SubSeq(stack, 1, Len(stack) - 3)
    /\ frames' = Front(frames)
    /\ hw' = AtExit
    /\ UNCHANGED <<trap, dev, pmode, seen, oddaddr, diverted, dsts, loop>>

\* The handler of the guest switches interrupts on.
Sti ==
    /\ dsts = "run" /\ ~pmode /\ at.ie = 0
    /\ at' = [at EXCEPT !.ie = 1]
    /\ UNCHANGED <<portvars, loop, stack, frames>>

DevNext ==
    \/ Intercepted \/ Native \/ OtherExit
    \/ GetSmap \/ A20Service \/ emulate_rmode_interrupt \/ emulate_rmode_iret \/ Sti

DevSpec == DevInit /\ [][DevNext]_devvars

-----------------------------------------------------------------------------
DevRegs == [a20 : OutputPort, last_cmd : KbdCmds, out_a20 : OutputPort,
            ps2_a20 : OutputPort, wait_icw2 : BOOLEAN,
            sio_filter : {"none", "com1", "index"},
            pci_filter : {"none", "addr", "net_dvd", "net_cmd", "ehci_dvd"}]
HwRegs == [kcmd : KbdCmds, ka20 : OutputPort, ps2 : OutputPort, idx : {"0", "1"},
           com1 : {"0", "1"}, addr : PciRegs, card : CardCmds, chosen : {"0", "1"}]

PortTypeOK ==
    /\ trap \subseteq ToSet(PortOrder) /\ dev \in DevRegs /\ hw \in HwRegs
    /\ pmode \in BOOLEAN /\ oddaddr \in BOOLEAN /\ diverted \in BOOLEAN
    /\ seen \in {"none", "id", "data", "invalid", "upper"} /\ dsts \in {"run", "dead"}

Loops == [open : BOOLEAN, rbx : Nat, got : Seq(Nat), bad : BOOLEAN]
Points == [loc : Nat, ie : {0, 1}]

BiosTypeOK ==
    /\ loop \in Loops /\ at \in Points /\ frames \in Seq(Points) /\ Len(frames) <= MaxNest
    /\ stack \in Seq(Nat)

\* The devices the VMM lives on stay its own, where the filters reach.  The
\* guest reads the identity of the network card or of the EHCI controller at
\* PCI_CONFIG_DATA, and switches memory space or bus mastering of the card off,
\* only after an access no filter sees whole: an address in pieces, one whose
\* register number is no multiple of four, or a string (pci.c).  COM1, which
\* carries the messages of the VMM, is on: the guest switches it off only
\* after the ports of the chip were released with those of the PIC, by a
\* string or a word there, or by writing to the data port after an exit moved
\* the index it had selected (devices/sio.c, drivers/sio.c).
DevicesKept ==
    /\ ~oddaddr => hw.card = "1" /\ seen # "id"
    /\ hw.com1 = "0" => diverted \/ "SIO_INDEX" \notin trap

\* What the VMM does in the place of the BIOS and of the processor in real
\* mode: the walk of the memory map by int 15h gives every entry once, in
\* order and whole, and ends behind the last one (emulate_int15.c); and
\* however interrupts nest, each IRET goes back behind its INT with the flags
\* from there (emulate_rmode.c).
RealModeServed ==
    /\ ~loop.bad
    /\ loop.got = [i \in 1..Len(loop.got) |-> i - 1]
    /\ (~loop.open /\ loop.got # <<>>) => Len(loop.got) = SmapNr
    /\ Len(stack) = 3 * Len(frames)
    /\ \A i \in 1..Len(frames) :
         /\ stack[3 * i - 2] = frames[i].ie
         /\ stack[3 * i - 1] = CS
         /\ stack[3 * i] = frames[i].loc

-----------------------------------------------------------------------------
(***************************************************************************)
(* What these two rest on.                                                 *)
(***************************************************************************)

\* Addresses always exit, and while an address that matters is selected, whole,
\* its data port does, with the filter the address asked for.
PciInv ==
    /\ "PCI_ADDR" \in trap
    /\ ~oddaddr /\ hw.addr # "other" => "PCI_DATA" \in trap /\ dev.pci_filter = hw.addr

\* The data port of the Super I/O exits only for COM1, and always then unless
\* the ports were released.
SioInv ==
    /\ "SIO_DATA" \in trap => dev.sio_filter = "com1"
    /\ "SIO_INDEX" \in trap /\ hw.chosen = "0" => diverted \/ "SIO_DATA" \in trap

\* The continuation value is the offset of the first entry not yet given.
LoopInv ==
    loop.open => /\ loop.rbx = EntrySz * Len(loop.got)
                 /\ Len(loop.got) \in 1..(SmapNr - 1)

PortInv == PortTypeOK /\ PciInv /\ SioInv /\ DevicesKept
BiosInv == BiosTypeOK /\ LoopInv /\ RealModeServed
DevInv == PortInv /\ BiosInv
=============================================================================
