-------------------------------- MODULE Boot --------------------------------
(***************************************************************************)
(* From the boot loader to the first vm-entry, and what may change the     *)
(* nested page tables afterwards.  The loader relocates the setup module,  *)
(* setup parses the firmware's tables, checks the processor, carves the    *)
(* VMM's area out of the top of the memory the firmware reports at 1 MB,   *)
(* builds the nested page tables around it (vmx_ept.c or svm_npt.c), hides *)
(* the devices the VMM keeps for itself and starts the guest.  At run time *)
(* the guest rewrites MTRR_DEF_TYPE, which rebuilds the tables, and the    *)
(* remote client changes them with its npg commands.                       *)
(*                                                                         *)
(* hw describes the machine; it never changes.  Memory is counted in pages *)
(* and the contents of the VMM's area in units, Unit of them to a page.    *)
(***************************************************************************)
EXTENDS NptMap, FiniteSetsExt

CONSTANTS Machines,     \* the machines to boot
          Probes,       \* pages whose cached translation is followed
          LowMem,       \* the page at 1 MB
          Top4G,        \* pages below 4 GB
          MinRam,       \* VMM_MIN_RAM_SZ
          Unit,         \* units of the VMM's area per page
          IommuGigs,    \* 1G entries the IOMMU's second level maps (9)
          ClientRanges, \* ranges <<start, end>> the client asks for
          ClientAttrs,  \* attributes it asks for
          MaxOps        \* bound on client and guest operations

VARIABLES pc,     \* the step setup is at
          hw,     \* the machine
          area,   \* info->area, in pages
          top,    \* info->hrd.mem.top
          smap,   \* the memory map the guest will be shown
          lay,    \* where pmem_init put what, in units
          npt,    \* the nested page tables and the page pool
          pool0,  \* the pages pool_init put in the pool
          mtrr,   \* info->vm.mtrr_def.e
          tlb,    \* the nested translations the processor may have cached
          opened, \* pages the client asked to map
          edited, \* the client changed an entry of the tables
          nops    \* client and guest operations so far

built == <<hw, area, top, smap, lay, pool0>>
vars == <<pc, built, npt, mtrr, tlb, opened, edited, nops>>

Sk == hw.skills
Ops1 == nops < MaxOps /\ nops' = nops + 1
Continue(next) == pc' = next /\ UNCHANGED <<built, npt, mtrr, tlb, opened, edited, nops>>
Panic == Continue("panic")

Init ==
  /\ pc = "loader" /\ hw \in Machines
  /\ area = [start |-> 0, end |-> 0] /\ top = 0 /\ smap = <<>> /\ lay = <<>>
  /\ npt = EmptyMap(0) /\ pool0 = 0 /\ mtrr = (hw.mtrrs # <<>>)
  /\ tlb = {} /\ opened = {} /\ edited = FALSE /\ nops = 0

----------------------------------------------------------------------------
(* The loader.  setup_module protects the modules from the setup code it   *)
(* loads: mods_end is read from the first module at each turn of its loop. *)
ModsEnd == hw.mods[1].end

(* __elf_module_load refuses a segment that starts before that end.        *)
LoadOverlaps == hw.setup.load < ModsEnd

Loader ==
  /\ pc = "loader"
  /\ IF Len(hw.mods) < 1 \/ "lmode" \notin hw.cpu \/ ~hw.elf \/ LoadOverlaps
     THEN Panic ELSE Continue("dev")

(* acpi_init: the root pointer and its XSDT, acpi_xsdt_parse and           *)
(* acpi_fadt_parse, and the s3 option of the VMM's command line; the first *)
(* that is missing stops the boot.  dmar is for a VMM with CONFIG_IOMMU.   *)
FadtWanted == {"facs", "pm1a", "notreduced"}
XsdtWanted == {"fadt"} \cup FadtWanted \cup (IF hw.iommu THEN {"dmar"} ELSE {})
AcpiWanted == {"rsdp", "xsdt", "s3"} \cup XsdtWanted
DevInit ==
  /\ pc = "dev"
  /\ IF AcpiWanted \subseteq hw.acpi THEN Continue("cpu") ELSE Panic

(* What the checks of vmx_cpu.c ask of the processor, one set a function.  *)
(* vmx_cpu_features turns VMX on in the feature-control register when the  *)
(* register is not locked: "vmxon" stands for on, or not locked.           *)
EptFeat == {"wb", "pwl4", "invept"}
Proc2Feat == {"uguest", "dt", "ept"} \cup EptFeat
ProcFeat == {"proc2"} \cup Proc2Feat
BasicInfo == {"lma"}
VmxWanted == {"vmx", "vmxon", "paddr64"} \cup BasicInfo \cup ProcFeat
SvmFeatures == {"svm", "npt", "svmon"}
SvmWanted == SvmFeatures \cup {"asid", "lbr"}
CpuInit ==
  /\ pc = "cpu"
  /\ IF (IF hw.arch = "vmx" THEN VmxWanted ELSE SvmWanted) \subseteq hw.cpu
     THEN Continue("pmem") ELSE Panic

----------------------------------------------------------------------------
(* smap_parse: the top of memory, and the end of the VMM's area, which is  *)
(* the top reached when the available entry at 1 MB is met: the code       *)
(* counts on a sorted map.                                                 *)
Top(es) == Max({0} \cup {e.base + e.len : e \in ToSet(es)})
IsLowRam(e) == e.avl /\ e.base = LowMem
AreaEnd(es) ==
  LET at == {i \in 1..Len(es) : IsLowRam(es[i])}
  IN IF at = {} THEN 0 ELSE Top(SubSeq(es, 1, Max(at)))
MemTop(es) == IF Top(es) > Top4G THEN Top(es) ELSE Top4G

(* smap_init: the guest's copy of the map, with the entry at 1 MB cut.     *)
GuestSmap(es, start) ==
  [i \in 1..Len(es) |-> IF IsLowRam(es[i]) THEN [es[i] EXCEPT !.len = start - es[i].base] ELSE es[i]]

(* pmem_pg_predict: the tables the VMM's and the VM's paging will need.    *)
Needed(l, t) == (t - 1) \div Size[l] + 1
VmmTables(t) == 1 + Needed(4, t) + (IF "1G" \in hw.vmmskills THEN 0 ELSE Needed(3, t))
VmPool(t) == Needed(4, t) + (IF "1G" \in Sk THEN 2 ELSE Needed(3, t))
                          + (IF "2M" \in Sk THEN 2 ELSE Needed(2, t))
PoolPages(t) == VmPool(t) + hw.poolopt

(* The objects of the VMM's area in the order pmem_init lays them out.     *)
Items(t) ==
  <<<<"stack", 2>>, <<"pool", PoolPages(t)>>, <<"io_pool", 1>>, <<"vmm_pg", VmmTables(t)>>,
    <<"vm_pml4", 1>>, <<"vmc", 2>>, <<"net", IF hw.mmio # {} THEN 1 ELSE 0>>, <<"sg", 1>>,
    <<"elf", hw.elfsize>>, <<"smap", 1>>, <<"pool_desc", 1>>, <<"ppg_desc", 1>>, <<"info", 1>>>>
Fixed(t) == FoldLeft(LAMBDA s, it : s + it[2], 0, Items(t))
Layout(from, its) ==
  [i \in 1..Len(its) |->
     [name |-> its[i][1], size |-> its[i][2],
      at |-> FoldLeft(LAMBDA s, it : s + it[2], from, SubSeq(its, 1, i - 1))]]

PmemInit ==
  /\ pc = "pmem"
  /\ LET t == MemTop(hw.smap)
         end == AreaEnd(hw.smap)
         room == end * Unit - Fixed(t)
         start == IF room < 0 THEN end ELSE room \div Unit
     IN IF Len(hw.mods) # 2 \/ end < MinRam \/ start >= end THEN Panic
        ELSE /\ area' = [start |-> start, end |-> end] /\ top' = t
             /\ lay' = Layout(start * Unit, Items(t))
             /\ smap' = GuestSmap(hw.smap, start)
             /\ npt' = EmptyMap(PoolPages(t)) /\ pool0' = PoolPages(t)
             /\ pc' = "vmem"
             /\ UNCHANGED <<hw, mtrr, tlb, opened, edited, nops>>

----------------------------------------------------------------------------
(* vmx_ept_map and svm_npt_map.  Without MTRRs the map is laid around the  *)
(* VMM's area; with them everything is mapped with the default type, each  *)
(* MTRR's range is mapped again with its own, and the area is taken out at *)
(* the end.                                                                *)
DftAttr(on) == Attr(Full, IF on THEN hw.mtrrdef ELSE UC, FALSE)
MapAround(t) ==
  npg_map(npg_map(t, 0, area.start, DftAttr(FALSE), Sk), area.end, top, DftAttr(FALSE), Sk)

MapMtrrOver(t, s, e, ty) == npg_map(t, s, e, Attr(Full, ty, TRUE), Sk)
MapMtrr(t, s, e, ty) == npg_map(npg_unmap(t, s, e, Sk), s, e, Attr(Full, ty, TRUE), Sk)
MapVariable(t) == FoldLeft(LAMBDA u, r : MapMtrr(u, r.base, r.base + r.len, r.ty), t, hw.mtrrs)
FixedFrom(i) == FoldLeft(LAMBDA s, r : s + r[1], 0, SubSeq(hw.fixed, 1, i - 1))
MapFixed(t) ==
  FoldLeft(LAMBDA u, i : MapMtrr(u, FixedFrom(i), FixedFrom(i) + hw.fixed[i][1], hw.fixed[i][2]),
           t, [i \in 1..Len(hw.fixed) |-> i])
MapWithMtrrOpen(t) ==
  LET all == RemapFinest(npg_map(t, 0, top, DftAttr(TRUE), Sk), 0, Sk)
  IN MapFixed(MapVariable(npg_unmap(all, area.start, area.end, Sk)))
MapWithMtrr(t) ==
  LET all == RemapFinest(npg_map(t, 0, top, DftAttr(TRUE), Sk), 0, Sk)
  IN npg_unmap(MapFixed(MapVariable(all)), area.start, area.end, Sk)

NpgMap(t, on) == IF hw.arch = "vmx" /\ on THEN MapWithMtrr(t) ELSE MapAround(t)

Checked(t, next) == IF t.ok THEN pc' = next ELSE pc' = "panic"

VmemInit ==
  /\ pc = "vmem"
  /\ npt' = NpgMap(npt, mtrr)
  /\ Checked(npt', IF hw.iommu THEN "iommu" ELSE "vm")
  /\ UNCHANGED <<built, mtrr, tlb, opened, edited, nops>>

(* iommu_init for the unit that covers the remaining devices: its          *)
(* registers are hidden, then the second level table and the context and   *)
(* root tables are taken from the pool.  Any of them missing is a panic.   *)
SltPages == 2 + IommuGigs * (1 + Fan)
IommuPages == SltPages + 2
Hide(t, ps) ==
  FoldLeft(LAMBDA u, p : npg_unmap(u, p, p + 1, Sk), t, SetToSortSeq(ps, LAMBDA x, y : x < y))
IommuInit ==
  /\ pc = "iommu"
  /\ LET u == Hide(npt, {hw.drhd})
     IN IF u.ok /\ "agaw" \in hw.cpu /\ u.pool >= IommuPages
        THEN npt' = [u EXCEPT !.pool = @ - IommuPages] /\ pc' = "vm"
        ELSE npt' = u /\ pc' = "panic"
  /\ UNCHANGED <<built, mtrr, tlb, opened, edited, nops>>

(* vm_init: the registers of the network controller are hidden and the     *)
(* virtual machine's control structure is filled and loaded.               *)
VmInit ==
  /\ pc = "vm"
  /\ npt' = Hide(npt, hw.mmio)
  /\ Checked(npt', "running")
  /\ UNCHANGED <<built, mtrr, tlb, opened, edited, nops>>

----------------------------------------------------------------------------
(* The processor may cache any nested translation the guest can use.       *)
GuestTouches(p) ==
  /\ pc = "running" /\ p \in Mapped(npt) \ tlb
  /\ tlb' = tlb \cup {p}
  /\ UNCHANGED <<pc, built, npt, mtrr, opened, edited, nops>>

(* A write to MTRR_DEF_TYPE that changes E: vmx_ept_remap flushes the TLB, *)
(* unmaps everything and maps again.                                       *)
GuestWritesMtrrDef ==
  /\ pc = "running" /\ hw.arch = "vmx" /\ Ops1
  /\ mtrr' = ~mtrr /\ tlb' = {}
  /\ npt' = NpgMap(npg_unmap(npt, 0, top, Sk), mtrr')
  /\ Checked(npt', "running")
  /\ UNCHANGED <<built, opened, edited>>

(* gdb_vmm_npg_map and gdb_vmm_npg_unmap; neither flushes the TLB.         *)
ClientMaps(r, a) ==
  /\ pc = "running" /\ Ops1
  /\ npt' = npg_map(npt, r[1], r[2], a, Sk)
  /\ opened' = opened \cup (r[1]..(r[2] - 1))
  /\ Checked(npt', "running")
  /\ edited' = TRUE
  /\ UNCHANGED <<built, mtrr, tlb>>

ClientUnmaps(r) ==
  /\ pc = "running" /\ Ops1
  /\ npt' = npg_unmap(npt, r[1], r[2], Sk)
  /\ Checked(npt', "running")
  /\ edited' = TRUE
  /\ UNCHANGED <<built, mtrr, tlb, opened>>

(* gdb_vmm_npg_get_pte splits the pages above the one asked for, and       *)
(* flushes the TLB when it found an entry.                                 *)
ClientGetsPte(p) ==
  /\ pc = "running" /\ Ops1
  /\ npt' = RemapFinest(npt, p, Sk)
  /\ tlb' = IF HasPte(npt', p) THEN {} ELSE tlb
  /\ Checked(npt', "running")
  /\ UNCHANGED <<built, mtrr, opened, edited>>

(* gdb_vmm_npg_set_pte overwrites an entry that exists.                    *)
ClientSetsPte(p, a) ==
  /\ pc = "running" /\ Ops1 /\ HasPte(npt, p)
  /\ npt' = [npt EXCEPT !.e[Node(1, p)] = Entry("page", a)]
  /\ opened' = opened \cup {p}
  /\ edited' = TRUE /\ tlb' = {}
  /\ UNCHANGED <<pc, built, mtrr>>

Next ==
  \/ Loader \/ DevInit \/ CpuInit \/ PmemInit \/ VmemInit \/ IommuInit \/ VmInit
  \/ GuestWritesMtrrDef
  \/ \E p \in Probes : GuestTouches(p) \/ ClientGetsPte(p)
  \/ \E p \in Probes, a \in ClientAttrs : ClientSetsPte(p, a)
  \/ \E r \in ClientRanges : ClientUnmaps(r) \/ \E a \in ClientAttrs : ClientMaps(r, a)

Spec == Init /\ [][Next]_vars

----------------------------------------------------------------------------
AreaPages == area.start..(area.end - 1)
Running == pc = "running"

(* The kinds of values; the tables are described by TablesSound.           *)
TypeOK ==
  /\ pc \in {"loader", "dev", "cpu", "pmem", "vmem", "iommu", "vm", "running", "panic"}
  /\ hw \in Machines /\ top \in Nat /\ pool0 \in Nat /\ mtrr \in BOOLEAN
  /\ npt.ok \in BOOLEAN /\ npt.low \in BOOLEAN
  /\ tlb \subseteq Pages /\ opened \subseteq Pages
  /\ edited \in BOOLEAN /\ nops \in 0..MaxOps

(* pmem_init's objects lie inside the area without overlapping, and the    *)
(* memory map the guest is shown offers none of the area.                  *)
LayoutFits ==
  lay # <<>> =>
    /\ \A i \in 1..Len(lay) : /\ lay[i].at >= area.start * Unit
                              /\ lay[i].at + lay[i].size <= area.end * Unit
                              /\ i > 1 => lay[i].at >= lay[i - 1].at + lay[i - 1].size
    /\ \A e \in ToSet(smap) : e.avl => AreaPages \cap (e.base..(e.base + e.len - 1)) = {}

(* The guest never reaches a page of the VMM's area, through the tables or *)
(* through a translation the processor kept, unless the client asked for   *)
(* that page: every rebuild of the tables (vmx_ept_map_with_mtrr,          *)
(* vmx_ept_map_no_mtrr) leaves the area out, whatever the MTRRs cover, and *)
(* what the area is for fits into it.                                      *)
AreaProtected ==
  /\ Running => AreaPages \cap (Mapped(npt) \cup tlb) \subseteq opened
  /\ LayoutFits

(* The pages pmem_pg_predict counts are enough to build the tables of a    *)
(* machine without MTRRs, unless the area's two ends and the top of memory *)
(* all fall inside large pages, three different ones: two tables of a kind *)
(* are counted.  Then, and only then, the boot stops for want of a page.   *)
Cut(l) == {Node(l, b) : b \in {c \in {area.start, area.end, top} : c % Size[l] # 0}}
Shortage ==
  ("1G" \in Sk /\ Cardinality(Cut(3)) > 2) \/ ("2M" \in Sk /\ Cardinality(Cut(2)) > 2)
PoolPredicted == ~npt.ok /\ nops = 0 /\ hw.mtrrs = <<>> /\ hw.mmio = {} => Shortage

(* The tables and the free pages are the pages pool_init handed out, less  *)
(* the IOMMU's, and nothing is left below an entry that is not a table: no *)
(* operation of npt_map.c leaks a page or frees one twice.  What was       *)
(* predicted for them suffices.                                            *)
TablesSound ==
  /\ PoolPredicted
  /\ npt.ok /\ pc \in {"vmem", "iommu", "vm", "running"} =>
       /\ npt.pool + Cardinality(Tables(npt))
            = pool0 - (IF hw.iommu /\ pc \in {"vm", "running"} THEN IommuPages ELSE 0)
       /\ \A n \in Nodes : n[1] < 4 /\ npt.e[Node(n[1] + 1, n[2] * Size[n[1]])].k # "table"
                             => npt.e[n] = Absent

(* The types of the MTRRs over a page, in the order the VMM maps them      *)
(* (vmx_ept_map_with_mtrr): the variable ones by number, then the fixed.   *)
TypesAt(p) ==
  LET over(r) == p \in r.base..(r.base + r.len - 1)
      fixed == {i \in 1..Len(hw.fixed) : p \in FixedFrom(i)..(FixedFrom(i + 1) - 1)}
      variable == SelectSeq(hw.mtrrs, over)
  IN [i \in 1..Len(variable) |-> variable[i].ty] \o SetToSeq({hw.fixed[i][2] : i \in fixed})
MtrrsOn == mtrr /\ hw.arch = "vmx"

(* The type all of them allow, and the type of the last one: the default   *)
(* type where there is none, uncached when the MTRRs are off.              *)
CommonType(p) ==
  IF ~MtrrsOn THEN UC
  ELSE IF TypesAt(p) = <<>> THEN hw.mtrrdef
  ELSE {b \in 0..2 : \A ty \in ToSet(TypesAt(p)) : b \in ty}
LastType(p) ==
  IF ~MtrrsOn THEN UC ELSE Last(<<hw.mtrrdef>> \o TypesAt(p))

(* Every page of memory outside the VMM's area is mapped, through all the  *)
(* splitting and remapping that ranges of unlike sizes cause, at boot and  *)
(* each time the guest has the tables built again, with a type no weaker   *)
(* than what its MTRRs have in common and no stronger than the last one's: *)
(* the common type where the last range has it.  __ept_mtrr_resolve sees   *)
(* the range mapped before only through an entry of the same size, so      *)
(* where an earlier range was stricter either bound may be met.            *)
MemoryAsMtrrs ==
  (pc = "vm" \/ Running) /\ ~edited =>
    \A p \in (0..(top - 1)) \ (AreaPages \cup hw.mmio \cup {hw.drhd}) :
      /\ Walk(npt, p).k = "page"
      /\ CommonType(p) \subseteq Walk(npt, p).ty /\ Walk(npt, p).ty \subseteq LastType(p)

(* The client's range operations reach the pages of the range and no other *)
(* page, whatever sizes they split the range into.                         *)
RangeExact ==
  [][\A r \in ClientRanges :
       LET in == r[1]..(r[2] - 1)
           same(p) == /\ Walk(npt', p).k = Walk(npt, p).k
                      /\ p \in Mapped(npt) => GetAttr(Walk(npt', p)) = GetAttr(Walk(npt, p))
       IN /\ ClientUnmaps(r) /\ npt'.ok =>
               \A p \in Pages : IF p \in in THEN p \notin Mapped(npt') ELSE same(p)
          /\ \A a \in ClientAttrs : ClientMaps(r, a) /\ npt'.ok =>
               \A p \in Pages : IF p \in in THEN p \in Mapped(npt') ELSE same(p)]_vars
=============================================================================
