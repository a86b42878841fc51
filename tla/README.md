# Formal model of ramooflax

ramooflax is a small hypervisor for one virtual machine on one physical core.
It is loaded before the operating system, gives the guest the real hardware
and stays resident to let a remote client watch and stop the guest through a
gdb stub. This directory holds TLA+ modules translated from its sources, the
TLC configurations that check them on small instances, and TLAPS proofs for
every instance.

`PROJECT.json` maps every definition to the lines it models, lists the runs,
the mutants that show each property can fail, the components and the hazards.

    tlc -workers 2 -config Debugger.cfg MCDebugger
    tlapm DebuggerProofs.tla        (and each of the other *Proofs modules)

## 1. Inventory

The VMM is an event loop: the guest runs, the processor exits to the VMM, a
handler resolves the exit (`vmx_exit.c`), `controller()` reports a pending
event, polls the stub and switches the traps, and the guest runs again. There
is no second thread in the VMM. What makes it hard is that the guest switches
processes between exits, that the client may interrupt at any exit, that
debugger, client filters and guest share `#DB`, `#BP`, `rflags.tf`, DR0-DR7 and
one exception bitmap, that most changes are deferred to the end of the exit,
and that the hardware behind the control channel (a network card, a USB debug
port shared with the guest) works on its own.

| component | state | operations | hard behaviour | what makes it correct |
|---|---|---|---|---|
| software breakpoints `dbg_soft.c` | table of slots, counter, status `on rs dis`, trap bytes in guest code | set, delete, lookup, lift, put back, enable, disable, reset | code pages absent, the same address twice, delete during a step | every trap byte has a slot that saved the guest's own byte; a detached guest runs its own code |
| single-step `dbg_hard_stp.c` | on, requestor, saved tf | request, arm, `#DB`, release | steps of the client and of the VMM over a breakpoint, in several processes | a lifted breakpoint is put back; nobody is left stepping |
| hardware breakpoints `dbg_hard.c`, `dbg_hard_brk.c`, `dr.c` | DR shadows, status, DR7 | set, delete, `#DB`, guest mov dr | guest uses the registers too; `#DB` shared with the step | armed registers are intercepted, the guest's values survive |
| controller `ctrl.c`, `ctrl_evt.c` | cr3 filter, traps, user masks, one event slot | filter on/off/keep, traps on/off, raise, deliver, reset | event waits for its process, bitmap written at several places | only asked-for exceptions are intercepted; a pending event is reported |
| gdb stub `gdbstub*.c` | enabled, locked, ack, input buffer | poll, connect, interrupt, commands, detach | poll rate, partial packets, damaged packets, raw transfers that fault, a client that disappears | answers pair with commands; a client in control holds the VM; leaving frees it |
| python client `client/ramooflax` | register cache, handlers, breakpoints, pools of answers and stops | attach, run, resume, stop, `^C`, detach | out-of-order stop and answer, lazy writes, failures half-way | no stale register, each stop to its handler, list and stub agree but for what a refusal leaves behind |
| vm-exits `vmm/src/vmx`, `vmm/src/core` | VMCS cache, CR and EFER shadows | one resolver per exit | interrupted event delivery, pending `#DB`, mode changes | the next vm-entry is accepted; no event lost |
| guest memory `vm.c`, `mmu_walk.c` | guest page tables | walk, read, write, string transfers | accesses over several pages that fault half-way | same bytes as the processor's; no table of the VMM walked, no page of it on its own reached |
| nested tables `npt_map.c`, `vmx_ept.c`, `svm_npt.c` | nested tables, page pool | map, unmap, remap, MTRR types | ranges, large pages split and merged, rebuilt while the guest runs | every page of a range exactly once; VMM area absent; no page leaked |
| allocator `pool.c`, `ppg.c`, `slab.c`, `malloc.c` | free and used pages, caches | pop, push, grow, malloc, free | exhaustion half-way, double free | no object handed out twice |
| devices `devices/`, `drivers/sio.c`, `emulate_int15.c`, `emulate_rmode.c` | uart, kbd, ps2, pci, sio shadows, I/O bitmap | one per port, BIOS services | string I/O in pieces, index and data ports, A20 by two devices, nested interrupts | native behaviour, VMM resources hidden as far as the intercepted ports reach |
| channel `drivers/ehci.c`, `drivers/e1000.c`, `net/` | debug port, toggles, rings, ARP cache | init, read, write | lost packets, pulled cable, resets by the guest, card and driver out of step | damage bounded by failures; recovery ends; frames accounted for |
| setup, loader | memory map, layout of the VMM area, tables, VMCS | run once | overlaps in the map, prediction of tables | VMM memory reserved and sufficient |
| interrupts `intr.c`, `vmx_exit_int.c` | pending vector, window | - | none: `vmx_vmcs.c:129` leaves `pin.eint` and `pin.nmi` at 0, so these exits do not happen | - |

## 2. Modules

    SoftBreak --- Debugger --- MCDebugger       HardBreak --- MCHardBreak
                     |                              |
                  DebuggerProofs                 HardBreakProofs

                                                NptMap --- Boot --- MCBoot
    CtrlEvents --- MCCtrlEvents
        |                                       Allocator <== VmmHeap
    CtrlEventsProofs                                             |
                                                          VmmHeapProofs
    GuestMemory --- StringIo --+
                     Devices --+-- MCDevices    VmExit --- VmExitProofs
                               |
                          DevicesProofs         Client --- MCClient
                                                   |
    MCNetLink --- NetLink  Dbgp  GdbLink        ClientProofs
                     |      |      |
                      ChannelProofs

`---` is EXTENDS; `<==` is refinement (`Promise == INSTANCE Allocator WITH ...`).
An action is one handler, from the exit, the packet or the call to its end,
or, where hardware or a peer can step in, the part up to the next wait.

**SoftBreak** holds the operators of `dbg_soft.c` on the table and on guest
bytes: what a VMM access returns for each cell, set, delete, restore and
remove over the whole table, with the failures the code ignores.

**Debugger** composes them with the single-step engine, the cr3 filter, the
traps and the part of the controller that delivers a stop. A cell is an
address in an address space. `mem` is what the processor fetches, `code`
what the guest itself wrote; `code` and `seen` are history variables that no
guard reads. The guest executes, switches address space, hits breakpoints, has
an `int3` of its own, pages code out and in, and writes to it. The client sets,
deletes, steps, continues, filters, detaches, or interrupts. `Habits` adds what
a careless client does: set an address twice, delete the breakpoint it stands
on.

**HardBreak** models the debug registers: the set the processor has, the
shadow of the guest's, the requested conditions, DR7, the status bits, `#DB` in
the bitmap, the traps, and a guest that writes DR0-DR7 itself, general detect
included. Execution breakpoints fire before the instruction, data breakpoints
and steps after it, possibly in one `#DB`. Software breakpoints are a set of
addresses here (`SoftAt`): what counts is their internal step.

**CtrlEvents** models the rest of the controller: exception, control-register,
cpuid, hypercall, nested-fault and S3 filters of the client, the event slot,
privilege and address space at delivery, the bitmap and its writers, mode
changes, the polled stub, attach and detach. The debugger is the set of
exceptions it needs.

**GdbLink** is the protocol between `gdbstub*.c` and `gdb.py`/`vm.py`: two FIFO
channels of tokens. The stub's `pc` says in which loop of `gdbstub_pkt.c` it
is (`gdb_preempt`, `gdb_recv_pkt`, `gdb_wait_ack`, a raw transfer), `cst` what
the client waits for. The line cuts a read anywhere and damages packets, a raw
transfer faults after its first part, clients quit, die and are replaced;
`upset` (history) records which of these broke the session in a way the
protocol cannot repair.

**Client** is the python side above the packets: the loops of `vm.py` (`run`,
`resume`, `answer`, `stop`, the SIGINT handler), the lazily read and written
register cache of `register.py`, the handlers of `cpu.py` and the list of
`breakpoints.py`, against what the stub keeps: its table of software slots and their
count, its hardware slots, its masks. A command and its answer are one step, taken
after any `^C` under way. The stub refuses either kind of breakpoint, and what
`dbg_soft_set` has claimed before it refuses stays claimed. `unread`, `unbacked`
and `astray` are history: breakpoints with a slot whose byte was never read, names
whose breakpoint the stub no longer has, loops that a `^C` crossed.

**VmExit** is `vmx_vmexit_handler` as one action: read through the VMCS cache,
resolve, `vmx_vmexit_idt_deliver`, `vmx_check_dbgctl`, the controller, commit,
and then the processor's checks of vm-entry, those `vmx_exit_invg.c` spells out
when an entry was refused (the map names them there).
Resolvers: control registers with their shadows, EFER, LIDT and SIDT with the
limit reduced in real mode, exceptions, EPT violations, CPUID and the other
emulated instructions. `View(s)` is what a handler's state will be for the
processor after the commit, whatever is still only in the cache.

**NptMap** holds `npt_map.c` on a scaled tree (`Fan` entries per table instead of
512): map, unmap and remap of an entry at each level, splitting, zapping, and
the decomposition of ranges. **Boot** runs the loader's and the setup's steps
over a machine `hw` (memory map, processor, MTRRs, page sizes, devices), lays
out the VMM area, predicts and builds the tables, and afterwards lets the guest
rewrite `MTRR_DEF_TYPE`, which has the tables built again, and the client use the
npg commands. The MTRRs come in any order, narrow before wide included.

**VmmHeap** models `pool.c`, `ppg.c`, `slab.c` and `malloc.c` with their circular
lists as sequences; **Allocator** is what they promise: blocks that do not overlap.
The refinement mapping computes the blocks in use from the lists.

**GuestMemory** has the three page walks and the access loop of `vm.c`, next to
the processor's own translation as a reference. **StringIo** runs the I/O
instructions over it (`vmx_exit_io.c`, `io.c`, `uart.c`) with page faults and
restarts. **Devices** is the state machine of the port devices: keyboard
controller, port 92h, Super I/O, PCI configuration (register numbers with low bits,
addresses in pieces, the upper half of the data port), the ports the PIC detection
releases, ACPI PM1, and int 15h, INT and IRET in real mode. **MCDevices** puts
both next to each other. The walks are written level by level (`Level`), as the
code has them, the access loop as a recursive function over the bytes left, and
the flag an interrupt pushes is 0 or 1, as it is on the stack.

**Dbgp** is the EHCI debug port driver with its call stack: an emission that fails
`FAIL_TRSH` times initialises the controller again, which configures the device,
which emits. Every wait either sees its condition or runs out of retries. `harm`,
which counts the failures damage is measured by, stops at `HarmCap`; the proof
showed that the cap has to leave room for every fault and every packet.
**NetLink** is `net_read`/`net_write`, ARP, ICMP and UDP over the two rings of
`e1000.c`, with the card as a process of its own. `e1k_recv_pkt` is four steps, the
test of the status, the copy, the clear and the write of the tail register, since
the card may own the very descriptor and store a frame between any two of them. A
copy torn by that is counted as the newer frame.

Abstractions to keep in mind. Debugger and HardBreak leave out the client's own
exception masks and mode changes, which write the bitmap at once: those are in
CtrlEvents. Guest code in Debugger and HardBreak is user code, so that every
stop is delivered at its exit; delivery at kernel privilege is in CtrlEvents.
What a command does to the guest is not in GdbLink, how it travels not in
Client. Contents of memory, packets and registers are small sets or left out.

## 3. Runs

| run | instance | what it shows |
|---|---|---|
| `debugger` | 1 process, 3 addresses, 2 slots | no active breakpoint is passed unnoticed and no trap byte reaches the guest as its own `#BP`; a detached guest has clean code and no step; table, counter and saved bytes agree |
| `debugger_faults` | 2 processes, a pageable and a refused cell, self-modifying code, careless client | a lifted breakpoint always has its step; traps are on exactly for the filtered process |
| `hard` | 2 processes with the filter, or 1 process using DR0-DR7 at 2 addresses; 1 register | other processes never armed; status bits, DR7, `#DB` and the shadow agree; the guest reads its addresses back |
| `events` | 2 processes, filter; exceptions, one control register, CPUID, nested faults; poll every other exit | the bitmap is what was asked for; a connecting or interrupting client is served; a pending event is reported if its process keeps exiting at the right privilege |
| `link` | 5 commands, one of which the stub may refuse, buffer of 5 tokens, poll rate 2, 2 damaged packets | answers pair with commands; a client in control holds the VM; unless refused for ever every command is answered, every interrupt gives control back, a VM left runs |
| `client` | sessions with registers and events or the cr3 filter, steps, `^C`; sessions with breakpoints at 2 addresses, 2 software slots, 1 hardware slot, 2 names, sets refused for want of room or of the byte; 2 stops under way | register cache never stale; each stop reaches what was set for it, unless its slot was claimed unread; list and stub agree after failures, with the exceptions of section 3; `stop()` returns |
| `vmexit` | limits of real and protected mode, 3 types of events | every committed state passes the checks of vm-entry; IDT limit survives mode switches; no event vanishes; a step over an emulated instruction is kept |
| `boot_tables` | 81 machines of 16 pages, tables of 2 entries, 2 operations after boot | VMM area never mapped nor cached in a translation; no page leaked; without MTRRs and hidden devices the predicted pages suffice, but for one shortage (section 3); each page's type between what its MTRRs have in common and that of the last one, rebuilds included; ranges exact |
| `heap` | 3 pages of 4 units, 2 descriptors per page | pages and descriptors accounted for; caches sorted; implements `Allocator` |
| `devices` | tables of every paging mode with one defect each, strings over 2 pages, uart buffer 3, 3 map entries, 2 nested interrupts | translation exact; string data moved once; COM1, the card and the identity of the cards are kept where the filters of their ports reach; int 15h and IRET exact |
| `dbgp` | 2 USB addresses, threshold 1, 2 retries, 3 packets out, 1 in, 2 faults | packets go where the device listens; damage bounded by failures; initialisation ends |
| `net` | 3 descriptors per ring, ARP cache of 2, 4 frames in, 6 out | ARP answers true; no frame read twice; transmit ring a queue until lapped; stored frames read or lost to a later one |

Bounds. Two processes are enough for "this one and another"; traps of all slots
are switched together, so one slot or register suffices with a filter; two
slots and three addresses cover reuse of a freed slot below a used one and a
full table. Three descriptors let cursor, head and tail all differ and wrap.
Two USB addresses let a nested initialisation find the device at its old and at
its new one. A tree with two entries has every combination of aligned and
unaligned ends over four levels. Three pages let the pool run out between the
descriptor page and the first page of a cache. `vmexit_cnt` is kept modulo the
poll rate, which is all the code reads of it; every other cap is a named constant.

Constraints. `MCHardBreak` takes either two processes at one address or one
process that writes the registers at two: the registers are the machine's, and
the filter is about who runs. `MCDevices` keeps at most two families of ports
busy, since no handler reads the state of more than two, and PCI, which shares its
state with no other, alone.
`GdbLink` stops following a session once two unrepairable disturbances hit it.
`MCClient` gives a behaviour one of two topics. `Session` has no breakpoints but
register values at hand or events filtered, and `^C` at any time. `BreakSession` has
the breakpoints, used from the console of one loop whose stops no `^C` crosses; steps
go there with an empty list, the second address without the cr3 filter and without
a name set twice. Both have pc and dr6. What the topics leave out of the three
invariants is proved (`ClientSafe`).

Deadlock is not checked where the system may stop: the VMM gives up
(`debugger_faults`, `events`, `vmexit`, `devices`), or the bounded operations
after boot are used up or setup panics (`boot_tables`).

Fairness, each from the code:

* `events`: the controller is straight-line code on the only core; guest exits
  are assumed, since the code has no timer to force one and operating systems
  exit at each mov cr3.
* `link`: stub and client each take their next step when they have one; a client
  need not send anything, and the guest keeps exiting (part of the stub's steps).
* `client`: the stub serves a `^C`, the client receives what has come and
  returns from its call; stops need not happen.
* `dbgp`: the driver runs, the BIOS gives up its semaphore (`ehci_acquire` waits
  for it for ever), and the user plugs a high-speed device in the end.
* `net`: a call runs to its end (`Reading`, the four steps of a read, and the
  write), and the stub polls again and again whatever it writes (strong fairness of
  the read call).

### What does not hold, and why the instances exclude it

The constants of the runs, the premises inside the properties (`upset = {}`,
`lapped`, `oddaddr`, `unread`, `inputs` and the like) and the assumptions `Disciplined`
and `Orderly` of the theorems leave out situations in which the code does not
keep the property. TLC shows those the models can
reach when the restriction is lifted:

*Debugger.*
* `DetachedClean`, `Pageable # {}`: a breakpoint whose page is absent at delete is
  dropped from the table with its byte in memory; `__dbg_soft_del_bp` tests for 0
  a result that is never 0 (`dbg_soft.c:81`).
* `TableInv`, `Pageable # {}`: a set that fails leaves an active slot with a byte
  never read (`dbg_soft.c:99`); `"duplicate"`: an address set again lands in a
  slot freed below the first and saves the trap byte as code (`dbg_soft.c:95`);
  `"deleteResumed"`: a breakpoint deleted during its own step comes back as a
  trap byte without owner (`dbg_soft.c:260`).
* `NoMissedBreak`, two processes: a breakpoint is lifted without a step while
  the step of another process is on (`dbg_hard_stp.c:182`). The tf saved for one
  process is given to the one that runs at detach (`dbg_hard_stp.c:68`).
* A data breakpoint met by the instruction under a software breakpoint is
  dropped with the internal step (`dbg_evt.c:48`); an execution breakpoint there
  overwrites, in the union `dbg.evt`, the pointer the step writes through
  (`dbg_hard_brk.c:172`). After detach the update of the traps writes the
  guest's DR7 over (`dbg_hard_brk.c:153`). A second hardware breakpoint is armed
  only at the next switch of the traps (`dbg_hard.c:75`).

*Controller and stub.*
* A client that leaves its filters behind (`ctrl.c:139`) stops the VM for nobody
  at the next event. An event that waits for its process is reported
  after its filter was released, and possibly in another process
  (`ctrl_evt.c:255`). A mask written while another process runs is intercepted
  there (`gdbstub_vmm.c:230`): `BitmapAsAsked` says "no more than asked for" outside
  the filter. Under a filter a breakpoint on kernel code is met again and
  again and never reported (`ctrl.c:94`), hence the premise of `PendingDelivered`.
* The stub never sends a packet again that the client refused; a `^C` where the stub
  expects an acknowledgement is eaten by `gdb_wait_ack` (`gdbstub_pkt.c:400`); a
  fault in the middle of a raw transfer leaves the client waiting. A command refused
  with a bare nak, `rd_msr` of a register the VMM cannot read (`gdbstub_vmm.c:703`),
  is sent again as long as it is refused (`gdb.py:181`): premise of `Served`. A rate of 0
  never polls (`LinkAssumption`). The table of VMM commands is indexed one too
  far (`gdbstub_vmm.c:775`).

*Client.*
* A `^C` that crosses a stop makes a second stop, which is taken later while the VM
  runs (`vm.py`): the loop is `astray`. `resume()` with a stop requested writes an
  old pc back. A breakpoint named by a numeral may be taken for an automatic name
  (`Explicit` has none).
* A software breakpoint on a byte the stub cannot read is refused with its slot
  claimed (`dbg_soft.c:99`, before the read), and `breakpoints.py:136` raises before it
  lists it; a page that is absent claims every free slot and ends no visit. The stub
  then has slots the list knows nothing of, stops on them, and the trap filter finds
  nothing: `unread` in `BreaksAgree`, `sure` in `StopHandled`.
* Two names may stand for one breakpoint (the second set raises the count and takes
  no slot, unless one below is free): removing one takes it from the other. A cr3
  filter deletes the stub's table behind the list, and with names left from before
  it the count may run out before the slots. `unbacked` in `BreaksAgree`.
* `VMState.restore` goes back one state only (`vm.py:45`), so after nested operations
  the VM object may say it waits, or is interactive, when neither is so. `Interrupt`
  takes what SIGINT does in either state wherever the object may be in it.

*Memory and devices.*
* An MTRR is merged with an earlier one only through an entry of the same size that
  kept its mark (`vmx_ept.h:300`); over pages mapped in another size its type replaces
  theirs. A narrow uncached range numbered before a wide write-back one comes out
  write-back, and fixed ranges are merged with the variable ones instead of taking
  priority. `MemoryAsMtrrs` therefore gives two bounds and not the type; the run
  meets both, and holds with neither tightened.
* `pmem_pg_predict` counts two tables of a kind. When both ends of the VMM's area and
  the top of memory cut three different large pages, a third is needed and setup
  panics (`Shortage` in `TablesSound`). Splits for MTRRs and hidden devices are not
  predicted at all; the machines of the run that have them ask for pages (`poolopt`).
* `vmm_area_range` asks whether both ends of an access lie in the VMM's area
  (`info_data.h:38`). An access within one large page that begins outside the area
  and ends inside, or reaches across it, is served, on the VMM's bytes; `WalkExact`
  compares it with the processor, and the run has such a page. The walks themselves
  look at one entry and never read a table of the VMM.
* Of the PCI ports 0xcf8 and 0xcfc are intercepted (`pci.c:172`). A word read at 0xcfe
  reads the upper half of the identity, the device number, natively (`seen` is
  "upper"); a byte read below does not reach it. The filter compares the register
  number exactly while the bridge drops its low two bits (`pci.c:87`, `:94`, `:140`), so
  2 for 0 or 5 for 4 opens the data port, as does an address written in pieces or by a
  string: `oddaddr` in `DevicesKept`. A word written to the index port of the Super I/O
  reaches its data port, unfiltered (`diverted`).
* A rebuild after `MTRR_DEF_TYPE` maps the VMM's own devices again, which setup had
  hidden (`vmx_exit_msr.c:41`); `AreaProtected` is therefore about memory. The npg
  commands flush no translation (`gdbstub_vmm.c:589`, `:603`), which leaves the
  client's change without effect until the next one; a 2M entry looked up under
  an absent page directory is not tested (`npt_map.c:428`).
* A page fault in the middle of a string instruction advances the registers past
  data that was not moved and reads the device again (`io.c`). Reading the data
  register of COM1 fills its buffer. `__pg_walk_pmode_pae` wants cr4.pse.
* Releasing the PIC's ports frees a whole range, 60h and 92h (A20) and the Super I/O
  among it (`io.c:199`).
* The result of `vmx_vmexit_idt_deliver` is tested with `!` and is never 0
  (`vmx_exit.c:171`), so the VMM goes on after a failure. A write of
  EFER the processor would refuse is not refused (premise of `EntryAccepted`).

*Channel.* After a failed transfer the toggles differ and up to two packets are
lost at each failure; `harm` counts them. The receive tail follows the cursor,
not the head, so a ring whose tail met its head stays silent until a poll moves
it; the port of the UDP peer is that of whoever sent last.

## 4. Proofs

All theorems hold for every value of the constants that satisfies the named
assumption of the module (`SoftBreakAssumption`, `DebuggerAssumption`,
`HardBreakAssumption`, `GuestDr7Assumption`, `CtrlEventsAssumption`,
`ClientAssumption`, `LimitsAssumption`, `HeapAssumption`, `NetAssumption`,
`ArrivingAssumption`, `MemoryAssumption`, `StringAssumption`,
`DevicesAssumption`, `LinkAssumption`, `CmdsAssumption`, `DbgpAssumption`).
TLC evaluates these on every run.

*DebuggerProofs.* `TypeCorrect` needs no restriction and keeps the counter within
the table. `FilterSafe` proves, under `Disciplined`, `OthersUndisturbed` and
`FilterInv`: with traps off and no update due no byte in memory is
a trap of ours, and the guest only runs with no update due. `OthersUndisturbed`
alone is not inductive, because breakpoints are changed in the stub while
another process is current. `TableSafe` proves `TableInv` (one slot per
address, free slots bare, saved byte is the guest's, the resumed slot active)
under `Disciplined`, for the reasons section 3 gives. `TrapsAreOwned` follows.

The rest of the module is about what the guest runs under. `LiftedSteps`
(`LiftedIsStepping`) and `TrapsFollow` (`TrapsFollowProcess`) hold for every client,
faulting pages included. `TrapsFollowProcess` speaks of a running guest only;
`TrapInv` adds that between an exit and the next entry the bitmap is what the traps
say or an update is due. `ClientOwns` is `TrapInv` with `DetachInv`: without a
client nothing of the debugger's is on. `DetachedUntouched` gives the part of
`DetachedClean` that holds for any number of processes; that nobody is left with
rflags.tf is `DetachedSafe`, under `OneProcess`, since the step of one
process is released in another (section 3). `CountSafe`: the counter is the
number of active slots, so the last delete and no other switches `#BP` off.
`NoBreakMissed` proves `NoMissedBreak` from `ArmedInv`: a slot whose status says
"written" has its trap in memory, and an active slot without it has either an
update of the traps or the end of a step coming, with the process still
where the client saw it. Its hypotheses are `Disciplined`, `OneProcess` and
`PlainCode0` (no `int3` in the guest's own code, which the client could not tell
from a breakpoint set over it), which are also the instance of the run.

*HardBreakProofs.* `HardSafe` proves `HardInv`, which adds to the agreement of the
status bits that traps off means bare registers and that an armed register has
its `#DB` masked or an update due; `OthersNeverArmed` (`OthersUnarmed`) and
`ArmedAlwaysIntercepted` follow.

*CtrlEventsProofs.* `BitmapSafe` proves `BitmapAsAsked` for every client. It is
inductive only with "the bitmap is what the traps say unless an update is due"
(`BitmapInv`), and uses that the check at privilege 0 depends on the address
space alone. `SessionInvariant` proves, under `Orderly` (no cr3 filter, filters
emptied before detach), that no event outlives its exit; `DetachedRuns` and
`StopsAsked` follow; section 3 shows that both halves of `Orderly` matter.

*VmExitProofs.* The accessors come first: a read changes no field of `View(s)`,
a write changes one, a commit makes `View(s)` the processor's state. Every
resolver then keeps `Resolved`, which is about `View` alone, and the end of the
handler takes `Resolved` to `IInv`. `EntrySafe` (`EntryAccepted`) needs
`ModesAgree`: the shadows of cr0, cr4 and EFER, the entry controls and the real
registers say the same of paging and long mode unless the guest wrote an
EFER the processor would have refused. `IdtLimitSafe` needs that the limit saved at
the switch to real mode is the guest's own (`LimitKept`); `EventsSafe` and
`StepSafe` need only that the cache is empty while the guest runs. No hypothesis
restricts the guest.

*VmmHeapProofs.* `IInv` says of each list what the code relies on: the pool's
free pages and those of the caches are disjoint and known, `used` increases
strictly, each cache's pages have the counts of their objects, every
object in use has its owner. It is stated with the page under way as a
parameter, because `slab_new` inserts a cache before it has its first page and
may have to take it out again. `PagesSafe` and `SortedSafe` follow, and
`HeapAllocates`: every step of `VmmHeap` is a step of `Allocator` or a stutter,
for any pool, page size and requests.

*ChannelProofs* is about the network stack, the protocol above it and the debug port.
`NetInv` gives cursor, head and tail of each ring their distances (`RingInv`) and
says which entries of the ARP cache a lookup can reach (`ArpInv`): `ArpTrue` alone
is not inductive, since an entry behind an empty address is neither found nor
updated. `FramesSafe`, `FifoSafe` and `ArpSafe` follow, for rings and caches of any
size. While a frame is copied it is both in the ring and read: `CopyInv` says that
what the driver saw in a descriptor stays or is written over, never taken away.
`NetAssumption` asks for more frames out than in: a bound of the model, so
that the driver is never kept from answering.

The second part is GdbLink, for any set of commands the handlers know
(`CmdsAssumption`), any poll rate but 0 and any buffer a packet fits in.
`AnswersMatch` and `InStep` look at the end of an exchange; `LinkInv` says, for
everything the client may wait for, what the two queues and `gdb_input` hold and
in which loop the stub is. Each of its parts lists the few stages of one exchange:
a command and its ack (`AckInv`), its answer (`AnswerInv`), raw memory (`RawInv`),
a resume and its stop (`WaitInv`), the first interrupt (`StopInv`), a "k" that may
cross a stop (`KillInv`). A refused command is a damaged one to the protocol: a nak,
and the same packet again. Three things make it inductive. A command may be sent
while the stub is still in the raw write before it, with that command's ack and
memory ahead on the line (`Behind`). Clients that came and went without a word
leave any number of "+" to be read, each of which attaches the stub or changes nothing
(`Left`). And reads cut the line anywhere, so all of it speaks of `line`, what is
in the buffer followed by what has not been read, which a read does not change
(`MovesKeep`): a packet is parsed only when it is whole and alone (`PacketRead`).
`LinkSafe` proves it of every session that nothing disturbed; `AnswersSafe` and
`InStepSafe` follow. `LinkTypes` holds of the disturbed ones too: `gdb_recv_packet`
never reads past its buffer.

The third part is Dbgp, for any number of addresses, threshold, retries, packets and
faults, so for stacks of any depth. `StackOK` says which frame waits for which at which
label (`WaitsFor`); a call, a step and a return are then looked at once
(`CallShape`, `TopShape`, `PopShape`), and every action is one of them.
`AddressSafe` needs `AddressInv`: outside a configuration driver and device
agree (`QuietAgrees`); inside one the request on top goes to the address
`dbgp_configure` holds, and a device met at its old address has the new one pending
or moves with the next request (`DeviceMoves`); and a request only runs with the
port enabled, so that it never starts an initialisation of its own before it
has failed (`PortEnabled`). `DamageSafe` needs `StreamInv`: what is lost so far, plus
what the device would still discard because `wr_toggle` and its own toggle differ
(`Discards`), is at most two for each harm, and one element more of either stream is a
repetition only if a harm paid for it; once `harm` is full, the faults bound the
repetitions and the packets the losses. A packet that re-initialises the
controller still stands under all of that, and is found by its distance from the
bottom of the stack (`PacketFrame`, `FarStack`).

*ClientProofs.* `BreaksSafe` (`BreaksAgree`) is about the list and the stub alone,
whatever the stub refuses. A slot appears without a name only when its byte was not
read, whether the set was refused for it or passed it on to another slot, and then
its breakpoint is in `unread` as long as it has one (`AgreeIn`). It needs that an
automatic name still to come is not in the list, or an unnamed breakpoint would
write over an entry. `RegsSafe` and `HandledSafe` (`StopHandled`)
need `SessionInv`: a loop that no `^C` crossed either waits for a VM it
has released with an empty cache, or owes its end to exactly one stop, whose
registers are those the guest was stopped with (`Owed`); in every other place it
holds the VM and nothing is on its way. The properties of the trap filter rest on
`BreaksAgree` too: what the stub stops on is in the list, or claimed unread. `ClientSafe` is all of
it, for every client, handler and `^C`.

*DevicesProofs* is in three parts.

The ports: `DevSafe` proves `DevInv`. `DevicesKept` alone is not inductive. What it
lacks is that an address written whole to the PCI address port which matters, low bits
clear, has its data port intercepted with the filter that address asked for (`PciInv`), and that the
data port of the Super I/O exits only while COM1 is selected and, until the ports
are released, always then (`SioInv`). `RealModeServed` needs that the
continuation value of int 15h is the offset of the next entry (`LoopInv`). The
stack is compared with the frames word by word, so that no fold is left.

The walk: `WalkAgrees` proves `WalkExact`, for all tables (cyclic ones included),
control bits and lengths. The four levels of `__pg_walk_*` are followed one after
the other (`LevelEnds`: what one level yields is what the processor does with that
entry), which gives `WalkIs` for each mode; the access loop is then proved by
well-founded induction on the bytes left, one page at a time: within
`AlignNext` of an address the translation is the walk's plus an offset.

The strings: `StringSafe` proves `StringInv`. It adds to the two properties that an
instruction met by no fault, or by one before its first byte, still has the
registers it began with (`Fresh`), that what is left of a string for COM1 ends
where the string ends (`Span`), and that outputs leave room for one more byte
(`Room`). The loop of `__dev_uart_xfr` has
its own invariant over its turns (`TurnInv`), and a bound on their number, so that
"never ends" is excluded rather than assumed. `MovedOnce` and `OutputsLive` follow,
like `WalkAgrees` under `LargeAgree` (no PAE without cr4.pse, section 3). The
proof showed the first premise of `StringOnce` on COM1 to be too weak: the room in
the buffer counts before the transfer, not after a flush in its middle; the run
has strings longer than one byte on COM1 since.

Only model-checked: the invariants of the run `boot_tables`. They are about what
recursive range decompositions over trees compute, with RECURSIVE operators.
Liveness (`ClientServed`, `PendingDelivered`, `Served`, `StopReturns`, `Recovers`,
`RxServed`) stays with TLC: fairness is out of their reach too.

## 5. Not modelled

* Plug-in events (`vmm/src/control/events`): handlers a developer compiles in.
* Interrupt exits, which setup never enables.
* What single emulated instructions compute, the values of CPUID and of MSRs that
  pass through, register values of system calls (sysenter_cs).
* The exits of SVM: built with `CONFIG_ARCH=amd` only. Its nested tables
  are machines of Boot.
* Scans of the PCI bus, the screen, the IOMMU's own registers, ATA (never reached):
  straight lines of register writes.
* Printing and string helpers; vendored udis86; build scripts; sources no Makefile
  lists (`common/libc/paging.c`, `devices/pic.c`, `core/pf.c`, `core/smi.c`).
* The client's helpers for operating systems and its examples.
