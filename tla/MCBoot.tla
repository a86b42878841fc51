------------------------------- MODULE MCBoot -------------------------------
(* Machines of 16 pages with tables of two entries.                        *)
EXTENDS Boot

Ram(b, l) == [base |-> b, len |-> l, avl |-> TRUE]
Rsv(b, l) == [base |-> b, len |-> l, avl |-> FALSE]
Var(b, l, ty) == [base |-> b, len |-> l, ty |-> ty]

(* A machine on which everything works: no MTRRs, all page sizes.          *)
Plain ==
  [mods |-> <<[start |-> 1, end |-> 2], [start |-> 2, end |-> 3]>>, setup |-> [load |-> 3],
   cpu |-> {"lmode", "agaw"} \cup VmxWanted, elf |-> TRUE, 
   acpi |-> {"rsdp", "xsdt", "fadt", "facs", "pm1a", "notreduced", "s3", "dmar"},
   iommu |-> FALSE, drhd |-> 15, arch |-> "vmx", smap |-> <<Ram(0, 1), Ram(1, 6), Rsv(7, 1), Ram(8, 5)>>,
   vmmskills |-> {"1G"}, skills |-> {"2M", "1G"}, poolopt |-> 0, elfsize |-> 3,
   mmio |-> {}, mtrrs |-> <<>>, mtrrdef |-> UC, fixed |-> <<>>]

Smaps == {<<Ram(0, 1), Ram(1, e - 1), Rsv(e, 1)>> \o h :
            e \in {5, 6, 7}, h \in {<<>>, <<Ram(8, 3)>>, <<Ram(8, 4)>>, <<Ram(8, 6)>>}}
Skills == {{}, {"2M"}, {"2M", "1G"}}

(* Every memory map and page size, without MTRRs *)
NoMtrrs == {[Plain EXCEPT !.smap = s, !.skills = sk] : s \in Smaps, sk \in Skills}

(* MTRRs over a default type, the wide ones first or last, with a fixed    *)
(* part.  The pool has the pages the "pool" option of the command line     *)
(* adds.                                                                   *)
Mtrrs == {<<Var(0, 8, WB), Var(4, 4, UC)>>, <<Var(0, 16, WB), Var(6, 2, WT), Var(7, 1, UC)>>,
          <<Var(0, 8, WB), Var(2, 1, WT)>>,
          <<Var(6, 2, UC), Var(0, 8, WB)>>, <<Var(4, 4, UC), Var(0, 8, WB)>>,
          <<Var(0, 1, UC), Var(7, 1, UC), Var(6, 2, WT), Var(0, 16, WB)>>}
WithMtrrs == {[Plain EXCEPT !.mtrrs = m, !.skills = sk, !.poolopt = 8, !.fixed = f] :
                m \in Mtrrs, sk \in Skills, f \in {<<>>, <<<<1, WB>>, <<1, UC>>>>}}

Devices == {[Plain EXCEPT !.iommu = TRUE, !.poolopt = p, !.mmio = {10}, !.drhd = 11] : p \in {0, 20}}

Lacking == {[Plain EXCEPT !.acpi = @ \ {"s3"}], [Plain EXCEPT !.cpu = @ \ {"uguest"}],
            [Plain EXCEPT !.mods = Tail(@)], [Plain EXCEPT !.setup.load = 0],
            [Plain EXCEPT !.smap = <<Ram(0, 1), Ram(1, 1)>>]}
Amd == {[Plain EXCEPT !.arch = "svm", !.cpu = {"lmode"} \cup SvmWanted, !.skills = sk] :
          sk \in {{"2M"}, {"2M", "1G"}}}

AllMachines == NoMtrrs \cup WithMtrrs \cup Devices \cup Lacking \cup Amd
Ranges == {<<0, 2>>, <<3, 9>>, <<4, 12>>, <<6, 7>>}
Attrs == {Attr({"r"}, WB, FALSE)}
=============================================================================
