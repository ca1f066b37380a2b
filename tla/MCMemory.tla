----------------------------- MODULE MCMemory ------------------------------
(***************************************************************************)
(* What the kernel hands out and takes back, in the four parts that share  *)
(* no state: how the boot finds physical memory, how the kernel gives it   *)
(* out, how Map puts it into a page table, and how a thread's registers go *)
(* into its UserContext and back.  `part` says which one a behaviour is    *)
(* about; the variables of the other parts keep their first value.         *)
(***************************************************************************)
EXTENDS PageTables, BootMemory, KernelObjects, TrapContext, TLC

CONSTANTS root, other

VARIABLE part

KernelLeaf == {<<root, 1>>}

\* A kernel of two segments that ends inside a page, its boot stack in its
\* image, and an image for another machine.
KernelElf == [len |-> 200, magic |-> TRUE, class64 |-> TRUE, little |-> TRUE, type |-> "EXEC",
              machine |-> TRUE, phend |-> 180,
              phdrs |-> << [load |-> TRUE, paddr |-> 2, memsz |-> 2],
                           [load |-> FALSE, paddr |-> 0, memsz |-> 8],
                           [load |-> TRUE, paddr |-> 4, memsz |-> 1] >>]
BadElf == [KernelElf EXCEPT !.machine = FALSE]

Bar(base, size) == [io |-> FALSE, base |-> base, size |-> size]
PciFn(class, c) == [virtio |-> TRUE, class |-> class, bar |-> Bar(c, 1), pin |-> 1, config |-> c]
PciBus == << [multi |-> FALSE, fns |-> <<PciFn(1, 101), PciFn(2, 102)>>],
             [multi |-> TRUE, fns |-> <<[PciFn(0, 103) EXCEPT !.virtio = FALSE], Unknown, PciFn(2, 104)>>],
             [multi |-> FALSE, fns |-> <<Unknown>>],
             [multi |-> FALSE, fns |-> <<PciFn(1, 105)>>] >>

\* Page 0 is low memory, pages 1 and 2 are the kernel's.
UefiMaps == {m \in [0 .. 6 -> {7, 5, 4, 9, Hole}] :
               /\ m[0] \in {7, 5} /\ m[1] \in {7, 5} /\ m[2] = 7
               /\ m[3] \in {7, 4} /\ m[6] \in {7, Hole}}

Acpi == { <<>>,
          << [sig |-> "APIC", entries |-> <<[kind |-> "cpu", len |-> 1, base |-> 0],
                                            [kind |-> "gicd", len |-> 1, base |-> 201]>>],
             [sig |-> "MCFG", entries |-> <<[base |-> 100]>>],
             [sig |-> "DMAR", entries |-> <<>>], [sig |-> "IORT", entries |-> <<>>] >> }

UefiMachine(port, elf, acpi, hz) ==
  [arch |-> port, elf |-> elf, maps |-> UefiMaps, rsdp |-> 1, acpi |-> acpi, pci |-> PciBus,
   busy |-> TRUE, timerHz |-> hz, kernel |-> [lo |-> 2, hi |-> 5],
   bootStack |-> [lo |-> 4, hi |-> 5], defaultController |-> 200]

\* The device tree QEMU passes, one with an IOMMU and one without its magic.
Node(name, body) == <<[t |-> "begin", name |-> name]>> \o body \o <<[t |-> "end"]>>
Prop(name, value) == <<[t |-> "prop", name |-> name, value |-> value]>>
Tree(compat) ==
  Node("", Prop("compatible", compat)
           \o Node("memory", Prop("reg", [base |-> 0, size |-> 14]))
           \o Node("plic", Prop("reg", [base |-> 210, size |-> 1]))
           \o Node("virtio_mmio", Prop("interrupts", 1) \o Prop("reg", [base |-> 211, size |-> 1, id |-> 2]))
           \o Node("virtio_mmio", Prop("reg", [base |-> 212, size |-> 1, id |-> 0]))
           \o Node("virtio_mmio", Prop("interrupts", 3) \o Prop("reg", [base |-> 213, size |-> 1, id |-> 1])))
  \o <<[t |-> "fdt-end"]>>

RiscvMachine(magic, compat) ==
  [arch |-> "riscv", dt |-> [magic |-> magic, tokens |-> Tree(compat)],
   maps |-> {[p \in 0 .. 6 |-> IF p = 0 THEN 0 ELSE 7]},
   timerHz |-> 1, kernel |-> [lo |-> 2, hi |-> 5], bootStack |-> [lo |-> 6, hi |-> 7],
   defaultMemory |-> [base |-> 0, size |-> 12], defaultController |-> 209]

Machines ==
  {UefiMachine(port, KernelElf, acpi, 1) : port \in {"x86", "arm"}, acpi \in Acpi}
    \cup {UefiMachine("x86", BadElf, <<>>, 1), UefiMachine("arm", KernelElf, <<>>, 0)}
    \cup {RiscvMachine(magic, compat) : magic \in BOOLEAN, compat \in {"iommu", "virt"}}

\* One region that starts inside a page, and the same with a second one at the
\* end of the address space.
FirstRegion == [base |-> 5, size |-> 46]
Fragments == {<<FirstRegion>>, <<[FirstRegion EXCEPT !.size = 41], [base |-> 68, size |-> 5]>>,
               <<[FirstRegion EXCEPT !.size = 9]>>, <<[FirstRegion EXCEPT !.size = 5]>>}

\* An image with a segment that starts inside a page, and three that do not load.
Seg(vaddr, offset, filesz, memsz) ==
  [vaddr |-> vaddr, offset |-> offset, filesz |-> filesz, memsz |-> memsz]
ElfImages ==
  { [parses |-> TRUE, len |-> 6, segs |-> <<Seg(1, 0, 2, 2), Seg(4, 2, 0, 0)>>],
    [parses |-> TRUE, len |-> 6, segs |-> <<Seg(0, 0, 2, 2), Seg(4, 5, 2, 2)>>],
    [parses |-> TRUE, len |-> 6, segs |-> <<Seg(0, 0, 3, 2)>>],
    [parses |-> FALSE, len |-> 6, segs |-> <<>>] }

BootUnused == /\ stage = "off" /\ fw = Unknown /\ machine = Unknown /\ handoff = Unknown
              /\ hal = Unknown /\ kstate = Unknown

ObjUnused == phase = "off" /\ untyped = <<>> /\ uses = {} /\ tables = None /\ caps = 0

\* The threads other than the one enter_user starts are interchangeable.
Symmetry == Permutations(Thread \ {Root})

CtxUnused ==
  /\ arch = Nil /\ timer = Nil /\ running = Nil /\ named = Nil /\ cpu = Nil /\ trap = Nil
  /\ blob = Nil /\ holds = Nil /\ life = Nil /\ traps = Nil /\ seen = Nil /\ parked = Nil

MemInit == /\ Init
           /\ \/ part = "map" /\ BootUnused /\ ObjUnused /\ CtxUnused
              \/ part = "boot" /\ BootInit /\ ObjUnused /\ CtxUnused
              \/ part = "give" /\ ObjInit /\ BootUnused /\ CtxUnused
              \/ part = "contexts" /\ ContextInit /\ BootUnused /\ ObjUnused

MemNext == /\ \/ part = "map" /\ Next /\ UNCHANGED <<bootVars, objVars, contexts>>
              \/ part = "boot" /\ BootNext /\ UNCHANGED <<vars, objVars, contexts>>
              \/ part = "give" /\ ObjNext /\ UNCHANGED <<vars, bootVars, contexts>>
              \/ part = "contexts" /\ ContextNext /\ UNCHANGED <<vars, bootVars, objVars>>
           /\ UNCHANGED part

MemSpec == MemInit /\ [][MemNext]_<<vars, bootVars, objVars, contexts, part>>
=============================================================================
