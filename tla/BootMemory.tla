----------------------------- MODULE BootMemory -----------------------------
(***************************************************************************)
(* From the firmware's memory map to the kernel's untyped memory: the UEFI *)
(* boot loader loads the kernel and writes the handoff block, a HAL reads  *)
(* it (or, on RISC-V, the device tree) and builds the hardware manifest,   *)
(* and the kernel seeds one UntypedMemory per free fragment of usable RAM. *)
(*                                                                         *)
(* Addresses count half pages, so that a range may end inside a page.  The *)
(* firmware's map gives every page a UEFI memory type, or Hole.            *)
(***************************************************************************)
EXTENDS Naturals, Sequences, FiniteSets, SequencesExt

CONSTANTS
  MaxRegions,     \* MAX_MEMORY_REGIONS, and the HAL's MAX_TRACKED_REGIONS
  MaxUntyped,     \* MAX_UNTYPED
  RootCapSlots,   \* slots of the root capability space
  HandoffDescs,   \* descriptors that fit in the handoff buffer
  MaxPeripherals, \* MAX_PERIPHERAL_DEVICES
  Platforms,      \* the machines: their fields are the ones used below
  Unknown

VARIABLES
  stage,      \* how far the boot is; "panic" and "overrun" are ends
  fw,         \* the firmware's map: page |-> UEFI memory type
  machine,    \* the platform that boots
  handoff,    \* the handoff block: descriptors and the RSDP
  hal,        \* what the HAL discovered, then the manifest it built of it
  kstate      \* KernelState, as far as populate_from_boot_info fills it

bootVars == <<stage, fw, machine, handoff, hal, kstate>>

PageUnits == 2
Hole == 99      \* no descriptor covers the page

\* What a table of n entries keeps of a sequence.
FirstOf(s, n) == SubSeq(s, 1, IF Len(s) < n THEN Len(s) ELSE n)

\* The descriptors of the firmware's map: its runs of pages of one type.
Descriptors(map) ==
  LET last   == Cardinality(DOMAIN map) - 1
      starts == {p \in 0 .. last : map[p] # Hole /\ (p = 0 \/ map[p - 1] # map[p])}
      \* the first page after the run that starts at p
      stop(p) == CHOOSE q \in p + 1 .. last + 1 :
                   (q = last + 1 \/ map[q] # map[p]) /\ \A r \in p .. q - 1 : map[r] = map[p]
  IN [i \in 1 .. Cardinality(starts) |->
        LET p == SetToSortSeq(starts, <)[i]
        IN [ty |-> map[p], start |-> p * PageUnits, pages |-> stop(p) - p]]

\* AllocatePages: conventional pages become LOADER_DATA (UEFI type 2).
Taken(map, pages) == [p \in DOMAIN map |-> IF p \in pages THEN 2 ELSE map[p]]
FreePages(map) == {p \in DOMAIN map : map[p] = 7}
PagesOf(lo, hi) == {p \in 0 .. 100 : p * PageUnits < hi /\ (p + 1) * PageUnits > lo}
-----------------------------------------------------------------------------
(* The boot loader. *)

\* Elf64Header::parse: the first check that fails decides.
ParseHeader(e) ==
  CASE e.len < 64        -> "TooShort"
    [] ~e.magic          -> "BadMagic"
    [] ~e.class64        -> "NotClass64"
    [] ~e.little         -> "NotLittleEndian"
    [] e.type # "EXEC"   -> "NotExecutable"
    [] ~e.machine        -> "WrongMachine"
    [] OTHER             -> "ok"

\* parse_and_collect_load_segments: the table must lie inside the file; only
\* PT_LOAD entries are segments.
CollectLoadSegments(e) ==
  IF ParseHeader(e) # "ok" THEN [err |-> ParseHeader(e), segs |-> <<>>]
  ELSE IF e.phend > e.len THEN [err |-> "BadProgramHeaderOffset", segs |-> <<>>]
  ELSE [err |-> "ok", segs |-> SelectSeq(e.phdrs, LAMBDA h : h.load)]

\* load_kernel_segments: each segment gets its pages at its own address.
LoadKernelSegments ==
  /\ stage = "loader"
  /\ LET elf == CollectLoadSegments(machine.elf)
         Allocate(r, seg) ==
           LET need == PagesOf(seg.paddr, seg.paddr + seg.memsz)
           IN IF r.ok /\ need \subseteq FreePages(r.map)
              THEN [r EXCEPT !.map = Taken(r.map, need)] ELSE [r EXCEPT !.ok = FALSE]
         done == FoldLeft(Allocate, [map |-> fw, ok |-> elf.err = "ok"], elf.segs)
     IN /\ fw' = done.map
        /\ stage' = IF done.ok THEN "handoff" ELSE "panic"
  /\ UNCHANGED <<machine, handoff, hal, kstate>>

\* locate_acpi_rsdp and build_handoff_block: a buffer anywhere, zeroed.
BuildHandoffBlock ==
  /\ stage = "handoff"
  /\ \/ /\ FreePages(fw) = {} /\ stage' = "panic" /\ UNCHANGED <<fw, handoff>>
     \/ \E p \in FreePages(fw) :
          /\ fw' = Taken(fw, {p})
          /\ handoff' = [descs |-> <<>>, rsdp |-> machine.rsdp]
          /\ stage' = "explore"
  /\ UNCHANGED <<machine, hal, kstate>>

\* The exploratory map decides whether the buffer is large enough.
ExploreMap ==
  /\ stage = "explore"
  /\ stage' = IF Len(Descriptors(fw)) > HandoffDescs THEN "panic" ELSE "final"
  /\ UNCHANGED <<fw, machine, handoff, hal, kstate>>

\* memory_map() allocates its buffer, and firmware timers may allocate too:
\* the map may have grown since it was measured.
FirmwareAllocates ==
  /\ stage = "final" /\ machine.busy
  /\ \E p \in FreePages(fw) : fw' = [fw EXCEPT ![p] = 4]
  /\ machine' = [machine EXCEPT !.busy = FALSE]
  /\ UNCHANGED <<stage, handoff, hal, kstate>>

\* The final map is copied without measuring it again, then boot services end.
ExitBootServices ==
  /\ stage = "final"
  /\ IF Len(Descriptors(fw)) > HandoffDescs THEN stage' = "overrun" /\ UNCHANGED handoff
     ELSE stage' = "hal" /\ handoff' = [handoff EXCEPT !.descs = Descriptors(fw)]
  /\ UNCHANGED <<fw, machine, hal, kstate>>
-----------------------------------------------------------------------------
(* The HALs. *)

\* classify_uefi_type: what may be used once boot services are gone.
ClassifyUefiType(ty) ==
  CASE ty \in {1, 2, 3, 4, 7} -> "Usable"
    [] ty = 9                 -> "AcpiReclaimable"
    [] ty = 10                -> "AcpiNvs"
    [] ty \in {11, 12}        -> "Mmio"
    [] OTHER                  -> "Reserved"

RegionOf(d, iommu) ==
  [base |-> d.start, len |-> d.pages * PageUnits, kind |-> ClassifyUefiType(d.ty), iommu |-> iommu]

\* The table of the XSDT with a signature, and what ACPI tells the HAL.  A
\* later MADT replaces what an earlier one said.
TablesOf(sig) ==
  IF handoff.rsdp = 0 THEN <<>> ELSE SelectSeq(machine.acpi, LAMBDA t : t.sig = sig)

AcpiDmarPresent == TablesOf("DMAR") # <<>>

AcpiMcfgEcamBase ==
  IF TablesOf("MCFG") = <<>> \/ TablesOf("MCFG")[1].entries = <<>> THEN 0
  ELSE TablesOf("MCFG")[1].entries[1].base

\* find_gicd_in_madt: the first distributor before an entry of no length.
FindGicdInMadt(entries) ==
  LET stops == {i \in DOMAIN entries : entries[i].kind = "gicd" \/ entries[i].len = 0}
      first == CHOOSE i \in stops : \A j \in stops : i <= j
  IN IF stops = {} THEN Unknown
     ELSE IF entries[first].kind = "gicd" THEN entries[first].base ELSE Unknown

AcpiDiscover ==
  LET madts == TablesOf("APIC")
      found == IF madts = <<>> THEN Unknown ELSE FindGicdInMadt(Last(madts).entries)
  IN [gicd |-> found, smmu |-> TablesOf("IORT") # <<>>]

\* from_uefi_memory_map: regions beyond the table are counted and dropped.
FromUefiMemoryMap(iommu) ==
  LET kept == FirstOf(handoff.descs, MaxRegions)
  IN [regions |-> [i \in DOMAIN kept |-> RegionOf(kept[i], iommu)],
      dropped |-> Len(handoff.descs) - Len(kept), iommu |-> iommu]

\* PeripheralDiscovery::new on x86-64 and arm64: the functions of every device
\* of the bus whose function 0 answers, as far as they are virtio's.
ClassifyVirtioPci(class) ==
  CASE class = 1 -> "Block" [] class = 2 -> "Network" [] class = 3 -> "Gpu" [] OTHER -> "Unknown"

MsiVectorForKind(kind) == CASE kind = "Block" -> 44 [] kind = "Network" -> 45 [] OTHER -> 46

ResolvePciIntxIrq(device, pin) == IF pin = 0 THEN 0 ELSE 32 + 3 + ((device + pin - 1) % 4)

\* probe_bar0: an I/O BAR or one that answers no size leaves no window.
ProbeBar0(f) == IF f.bar.io \/ f.bar.size = 0 THEN [base |-> 0, size |-> 0]
                ELSE [base |-> f.bar.base, size |-> f.bar.size]

\* The functions of device d that answer: only a multi-function device has more
\* than its first, and one whose first is silent has none.
PciFunctions(d) ==
  LET dev == machine.pci[d]
  IN IF dev.fns[1] = Unknown THEN <<>>
     ELSE SelectSeq(IF dev.multi THEN dev.fns ELSE <<dev.fns[1]>>, LAMBDA f : f # Unknown)

PciScan(Irq(_, _)) ==
  LET Found(d) == LET virtio == SelectSeq(PciFunctions(d), LAMBDA f : f.virtio)
                  IN [i \in DOMAIN virtio |->
                        [kind |-> ClassifyVirtioPci(virtio[i].class), window |-> ProbeBar0(virtio[i]),
                         config |-> virtio[i].config, irq |-> Irq(d, virtio[i])]]
      all == FoldLeft(LAMBDA acc, d : acc \o Found(d), <<>>, [d \in DOMAIN machine.pci |-> d])
  IN FirstOf(all, MaxPeripherals)

PeripheralsX86 == IF AcpiMcfgEcamBase = 0 THEN <<>>
                  ELSE PciScan(LAMBDA d, f : MsiVectorForKind(ClassifyVirtioPci(f.class)))

PeripheralsArm == PciScan(LAMBDA d, f : ResolvePciIntxIrq(d, f.pin))

\* The device-tree walks are folds over the tokens of the structure block; a
\* token of no known kind stops them.
BeforeEnd(tokens) ==
  LET stops == {i \in DOMAIN tokens : tokens[i].t \notin {"begin", "end", "prop", "nop"}}
  IN IF stops = {} THEN tokens
     ELSE SubSeq(tokens, 1, (CHOOSE i \in stops : \A j \in stops : i <= j) - 1)

\* walk_device_tree.  A node that is neither memory nor PLIC counts as a
\* possible IOMMU until it ends, the root node included.
WalkToken(w, k) ==
  CASE k.t = "begin" ->
         LET in == IF k.name \in {"memory", "plic"} THEN k.name ELSE "iommu"
         IN IF w.cur = Unknown THEN [w EXCEPT !.depth = @ + 1, !.cur = in, !.at = w.depth + 1]
            ELSE [w EXCEPT !.depth = @ + 1]
    [] k.t = "end" ->
         IF w.depth = w.at THEN [w EXCEPT !.depth = @ - 1, !.cur = Unknown, !.at = 0]
         ELSE [w EXCEPT !.depth = @ - 1]
    [] k.t = "prop" /\ k.name = "reg" /\ w.cur = "memory" -> [w EXCEPT !.memory = k.value]
    [] k.t = "prop" /\ k.name = "reg" /\ w.cur = "plic" -> [w EXCEPT !.plic = k.value.base]
    [] k.t = "prop" /\ k.name = "compatible" /\ w.cur = "iommu" ->
         [w EXCEPT !.iommu = @ \/ k.value = "iommu"]
    [] OTHER -> w

WalkDeviceTree ==
  FoldLeft(WalkToken, [cur |-> Unknown, at |-> 0, depth |-> 0, memory |-> Unknown,
                       plic |-> Unknown, iommu |-> FALSE],
           IF machine.dt.magic THEN BeforeEnd(machine.dt.tokens) ELSE <<>>)

ClassifyDeviceId(id) ==
  CASE id = 0 -> Unknown [] id = 1 -> "Network" [] id = 2 -> "Block" [] id = 3 -> "Console"
    [] id = 16 -> "Gpu" [] OTHER -> "Unknown"

\* discover_virtio_mmio_devices: a node's window and line are known when it
\* ends, and its slot is probed then.
MmioToken(w, k) ==
  IF Len(w.found) >= MaxPeripherals THEN w
  ELSE CASE k.t = "begin" ->
              IF ~w.in /\ k.name = "virtio_mmio"
              THEN [w EXCEPT !.depth = @ + 1, !.in = TRUE, !.at = w.depth + 1,
                             !.reg = Unknown, !.irq = 0]
              ELSE [w EXCEPT !.depth = @ + 1]
         [] k.t = "end" ->
              IF w.in /\ w.depth = w.at
              THEN LET id == IF w.reg = Unknown THEN 0 ELSE w.reg.id
                   IN [w EXCEPT !.depth = @ - 1, !.in = FALSE, !.at = 0,
                                !.found = IF ClassifyDeviceId(id) = Unknown THEN @
                                          ELSE Append(@, [kind |-> ClassifyDeviceId(id),
                                                 window |-> [base |-> w.reg.base, size |-> w.reg.size],
                                                 config |-> 0, irq |-> w.irq])]
              ELSE [w EXCEPT !.depth = @ - 1]
         [] k.t = "prop" /\ w.in /\ k.name = "reg" -> [w EXCEPT !.reg = k.value]
         [] k.t = "prop" /\ w.in /\ k.name = "interrupts" -> [w EXCEPT !.irq = k.value]
         [] OTHER -> w

MmioPeripherals ==
  FoldLeft(MmioToken, [in |-> FALSE, at |-> 0, depth |-> 0, reg |-> Unknown, irq |-> 0, found |-> <<>>],
           IF machine.dt.magic THEN BeforeEnd(machine.dt.tokens) ELSE <<>>).found

\* split_reserved_prefix: what lies below the kernel image is the firmware's.
SplitReservedPrefix(base, end, kernel) ==
  IF kernel > base /\ kernel < end
  THEN << <<base, kernel, "Reserved">>, <<kernel, end, "Usable">> >>
  ELSE << <<base, end, "Usable">> >>

\* from_device_tree, with QEMU's defaults for what the walk did not find.
FromDeviceTree ==
  LET dt    == WalkDeviceTree
      mem   == IF dt.memory = Unknown THEN machine.defaultMemory ELSE dt.memory
      parts == SplitReservedPrefix(mem.base, mem.base + mem.size, machine.kernel.lo)
  IN [regions |-> [i \in DOMAIN parts |->
                     [base |-> parts[i][1], len |-> parts[i][2] - parts[i][1],
                      kind |-> parts[i][3], iommu |-> dt.iommu]],
      dropped |-> 0, iommu |-> dt.iommu]

\* HardwareManifestRaw, filled by its push operations.
PushAll(mem, controller, devices) ==
  [regions     |-> FirstOf(mem.regions, MaxRegions),
   truncated   |-> 0,
   devices     |-> FirstOf(devices, MaxPeripherals),
   controller  |-> controller,
   iommu       |-> mem.iommu,
   timerHz     |-> machine.timerHz]

\* built_hardware_manifest.  The UEFI HALs add the regions they dropped; the
\* RISC-V HAL drops none.
ManifestX86 ==
  LET mem == FromUefiMemoryMap(AcpiDmarPresent)
  IN [PushAll(mem, "apic", PeripheralsX86) EXCEPT !.truncated = @ + mem.dropped]

ManifestArm ==
  LET acpi == AcpiDiscover
      mem  == FromUefiMemoryMap(acpi.smmu)
      gicd == IF acpi.gicd = Unknown THEN machine.defaultController ELSE acpi.gicd
  IN [PushAll(mem, gicd, PeripheralsArm) EXCEPT !.truncated = @ + mem.dropped]

ManifestRiscv ==
  LET plic == IF WalkDeviceTree.plic = Unknown THEN machine.defaultController ELSE WalkDeviceTree.plic
  IN PushAll(FromDeviceTree, plic, MmioPeripherals)

\* hal_x86_64_rust_entry, hal_arm64_rust_entry, hal_riscv64_rust_entry.  With
\* no ECAM base the x86-64 scan reads what no device answers.
HalEntryX86 ==
  /\ stage = "hal" /\ machine.arch = "x86"
  /\ hal' = ManifestX86
  /\ stage' = "kernel"
  /\ UNCHANGED <<fw, machine, handoff, kstate>>

HalEntryArm ==
  /\ stage = "hal" /\ machine.arch = "arm"
  /\ hal' = ManifestArm
  /\ stage' = "kernel"
  /\ UNCHANGED <<fw, machine, handoff, kstate>>

HalEntryRiscv ==
  /\ stage = "hal" /\ machine.arch = "riscv"
  /\ hal' = ManifestRiscv
  /\ stage' = "kernel"
  /\ UNCHANGED <<fw, machine, handoff, kstate>>
-----------------------------------------------------------------------------
(* The kernel. *)

\* BootInfo::validate; the ranges are linker symbols.
Validate ==
  /\ machine.kernel.lo <= machine.kernel.hi
  /\ machine.bootStack.lo <= machine.bootStack.hi
  /\ hal.regions # <<>>
  /\ hal.timerHz # 0

Holes == << machine.kernel, machine.bootStack, [lo |-> 0, hi |-> machine.kernel.lo] >>

\* subtract_holes: the holes clipped to the range, in order of their start;
\* the fragments are what lies between them.
\* mutant of SubtractHoles: the holes are taken in the order they are given
SubtractHolesUnsorted(lo, hi) ==
  LET Top(a, b) == IF a > b THEN a ELSE b
      Low(a, b) == IF a < b THEN a ELSE b
      cut == SelectSeq([i \in 1 .. 3 |-> [lo |-> Top(Holes[i].lo, lo), hi |-> Low(Holes[i].hi, hi)]],
                       LAMBDA h : h.lo < h.hi)
      Pass(r, h) == [at |-> Top(r.at, h.hi),
                     out |-> IF h.lo > r.at THEN Append(r.out, [lo |-> r.at, hi |-> h.lo]) ELSE r.out]
      done == FoldLeft(Pass, [at |-> lo, out |-> <<>>], cut)
  IN IF done.at < hi THEN Append(done.out, [lo |-> done.at, hi |-> hi]) ELSE done.out

SubtractHoles(lo, hi) ==
  LET Top(a, b) == IF a > b THEN a ELSE b
      Low(a, b) == IF a < b THEN a ELSE b
      cut == SelectSeq([i \in 1 .. 3 |-> [lo |-> Top(Holes[i].lo, lo), hi |-> Low(Holes[i].hi, hi)]],
                       LAMBDA h : h.lo < h.hi)
      ordered == SetToSortSeq(ToSet(cut), LAMBDA a, b : a.lo < b.lo)
      Pass(r, h) == [at |-> Top(r.at, h.hi),
                     out |-> IF h.lo > r.at THEN Append(r.out, [lo |-> r.at, hi |-> h.lo]) ELSE r.out]
      done == FoldLeft(Pass, [at |-> lo, out |-> <<>>], ordered)
  IN IF done.at < hi THEN Append(done.out, [lo |-> done.at, hi |-> hi]) ELSE done.out

\* One fragment: an untyped object and a capability for it.  Both tables stop
\* the seeding when full; an object whose capability found no slot stays.
Seed(k, frag) ==
  IF k.stop \/ frag.hi - frag.lo < PageUnits THEN k
  ELSE IF Len(k.untyped) = MaxUntyped THEN [k EXCEPT !.stop = TRUE]
  ELSE IF k.caps = RootCapSlots THEN [k EXCEPT !.stop = TRUE, !.untyped = Append(@, frag)]
  ELSE [k EXCEPT !.untyped = Append(@, frag), !.caps = @ + 1]

SeedRegion(k, r) ==
  IF r.kind # "Usable" \/ r.len < PageUnits THEN k
  ELSE FoldLeft(Seed, k, SubtractHoles(r.base, r.base + r.len))

\* A capability for the first peripheral of a kind, if there is one and a slot.
GrantMmio(k, kind) ==
  LET of == SelectSeq(hal.devices, LAMBDA d : d.kind = kind)
  IN IF of = <<>> THEN [k EXCEPT !.mmio = Append(@, Unknown)]
     ELSE IF k.caps = RootCapSlots THEN [k EXCEPT !.mmio = Append(@, Unknown)]
     ELSE [k EXCEPT !.mmio = Append(@, of[1]), !.caps = @ + 1]

\* init_global and populate_from_boot_info: seeding, then the page-table and
\* the device capabilities, then the root thread is admitted.
Populate ==
  /\ stage = "kernel"
  /\ LET empty  == [res |-> "ok", untyped |-> <<>>, caps |-> 0, stop |-> FALSE, mmio |-> <<>>]
         seeded == FoldLeft(SeedRegion, empty, hal.regions)
         tabled == IF seeded.caps = RootCapSlots THEN seeded ELSE [seeded EXCEPT !.caps = @ + 1]
     IN kstate' = IF ~Validate THEN [empty EXCEPT !.res = "BadBootInfo"]
                  ELSE IF seeded.caps = 0 THEN [seeded EXCEPT !.res = "NoUsableMemory"]
                  ELSE GrantMmio(GrantMmio(tabled, "Block"), "Network")
  /\ stage' = "up"
  /\ UNCHANGED <<fw, machine, handoff, hal>>

BootInit ==
  /\ machine \in Platforms
  /\ stage = IF machine.arch = "riscv" THEN "hal" ELSE "loader"
  /\ fw \in machine.maps
  /\ handoff = [descs |-> <<>>, rsdp |-> 0]
  /\ hal = Unknown /\ kstate = Unknown

BootNext == LoadKernelSegments \/ BuildHandoffBlock \/ ExploreMap \/ FirmwareAllocates
              \/ ExitBootServices \/ HalEntryX86 \/ HalEntryArm \/ HalEntryRiscv \/ Populate
-----------------------------------------------------------------------------
(***************************************************************************)
(* populate_from_boot_info: "those sub-ranges are carved OUT and only the  *)
(* remaining fragments become UntypedMemory".  Untyped memory is memory    *)
(* the firmware's own map calls free once boot services have ended, it is  *)
(* never the kernel's image, its boot stack or anything below the image,   *)
(* no two objects share a byte, and unless a table was full every free     *)
(* fragment of a page or more is in one.  What did not fit in the manifest *)
(* is counted there.                                                       *)
(***************************************************************************)
FreeOnceBooted(u) ==
  LET p == u \div PageUnits
  IN p \in DOMAIN fw /\ fw[p] \in {1, 2, 3, 4, 7}

Excluded(u) == \/ u < machine.kernel.hi
               \/ machine.bootStack.lo <= u /\ u < machine.bootStack.hi

Units(r) == r.lo .. r.hi - 1

BootMemoryExact ==
  stage = "up" /\ kstate.res # "BadBootInfo" =>
    LET u == kstate.untyped
        owned == UNION {Units(u[i]) : i \in DOMAIN u}
    IN /\ \A a \in owned : FreeOnceBooted(a) /\ ~Excluded(a)
       /\ \A i, j \in DOMAIN u : i # j => Units(u[i]) \cap Units(u[j]) = {}
       /\ ~kstate.stop /\ hal.truncated = 0 =>
            \A i \in DOMAIN hal.regions :
              LET r == hal.regions[i]
              IN r.kind = "Usable" =>
                   \A a \in r.base .. r.base + r.len - PageUnits :
                     (\A b \in a .. a + PageUnits - 1 : ~Excluded(b)) => a \in owned
       /\ machine.arch # "riscv" =>
            Len(hal.regions) + hal.truncated = Len(handoff.descs)
=============================================================================
