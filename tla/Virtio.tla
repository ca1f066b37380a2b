-------------------------------- MODULE Virtio ------------------------------
(***************************************************************************)
(* How a virtio driver gets its device: the kernel walks the PCI           *)
(* capability list, maps the BARs it names into the driver's address       *)
(* space, programs MSI-X and leaves the addresses in a shared header       *)
(* (wire_virtio_pci_transport); the driver reads the header and sets the   *)
(* device up (do_probe).  This is a function of the hardware h and of the  *)
(* number of page-table pools that can still be allocated.                 *)
(***************************************************************************)
EXTENDS Integers, Sequences, FiniteSets

CONSTANTS
  Hardware,    \* the devices a driver may be given
  Pools,       \* the numbers of page-table pools that may be left
  WordMod,     \* values of a PCI configuration word, 4 flag bits of it (2^32)
  WalkLimit,   \* capabilities visited at most (48)
  MaxBars,     \* DRV_PCI_MAX_BARS
  Stride,      \* DRV_PCI_BAR_VA_STRIDE
  MsixReach,   \* bytes the two-page pool of enable_and_program_msix can map
  QueueSize    \* QUEUE_SIZE

None == <<>>      \* Option::None
Some(x) == <<x>>

Flags == 16

VARIABLE hw   \* the device and the pools left: Some([h, pools])
-----------------------------------------------------------------------------
(***************************************************************************)
(* Base address registers.  bar is [io, wide, base, size], size 0 when the *)
(* device has none: what the two words read, as they are and after all     *)
(* ones were written to them.                                              *)
(***************************************************************************)
BarFlags(bar) == (IF bar.io THEN 1 ELSE 0) + (IF bar.wide THEN 4 ELSE 0)
BarLo(bar)    == IF bar.size = 0 THEN 0 ELSE (bar.base % WordMod) + BarFlags(bar)
BarHi(bar)    == bar.base \div WordMod
SizeMask(bar) == IF bar.size = 0 THEN 0 ELSE WordMod * WordMod - bar.size
SizeLo(bar)   == IF bar.size = 0 THEN 0 ELSE (SizeMask(bar) % WordMod) + BarFlags(bar)
SizeHi(bar)   == SizeMask(bar) \div WordMod

AddressBits(word) == word - (word % Flags)

\* pci_bar_phys: base and size; both words are written back as they were.
PciBarPhys(bar) ==
  IF BarLo(bar) % 2 = 1 THEN None
  ELSE IF (BarLo(bar) \div 2) % 4 # 2
       THEN IF SizeLo(bar) = 0 THEN None
            ELSE Some([base |-> AddressBits(BarLo(bar)), size |-> WordMod - AddressBits(SizeLo(bar))])
       ELSE LET mask == SizeHi(bar) * WordMod + AddressBits(SizeLo(bar))
            IN IF mask = 0 THEN None
               ELSE Some([base |-> AddressBits(BarLo(bar)) + WordMod * BarHi(bar), size |-> WordMod * WordMod - mask])

(***************************************************************************)
(* walk_virtio_pci_capabilities: at most WalkLimit entries, a later one of *)
(* a kind replacing an earlier one.  h.cap maps a pointer to               *)
(* [kind, bar, offset, next]; pointer 0 ends the list.                     *)
(***************************************************************************)
NoWindows == [k \in {"common", "notify", "isr", "device", "msix"} |-> None]

VisitCapability(h, w) ==
  IF w.ptr = 0 THEN w
  ELSE LET c == h.cap[w.ptr]
       IN [ptr |-> c.next,
           layout |-> IF c.kind \in DOMAIN NoWindows
                      THEN [w.layout EXCEPT ![c.kind] = Some([bar |-> c.bar, offset |-> c.offset])]
                      ELSE w.layout]

WalkVirtioPciCapabilities(h) ==
  LET walk[n \in 0 .. WalkLimit] ==
        IF n = 0 THEN [ptr |-> h.first, layout |-> NoWindows] ELSE VisitCapability(h, walk[n - 1])
  IN walk[WalkLimit].layout

(***************************************************************************)
(* map_pci_bar: a BAR is mapped once, each at the next slot of the window  *)
(* area, if it fits the slot and a pool can be had.  b is the builder's    *)
(* state [pools, slots]; the answer is [b, va].                            *)
(***************************************************************************)
BarBase == 1   \* in units of Stride: DRV_PCI_BAR_VA_BASE, not 0

MapPciBar(h, b, bar) ==
  LET known == {i \in DOMAIN b.slots : b.slots[i].bar = bar}
      phys  == PciBarPhys(h.bars[bar])
      taken == [b EXCEPT !.pools = @ - 1]
  IN CASE known # {} -> [b |-> b, va |-> Some((BarBase + (CHOOSE i \in known : TRUE)) * Stride)]
       [] known = {} /\ (Len(b.slots) >= MaxBars \/ phys = None) -> [b |-> b, va |-> None]
       [] known = {} /\ Len(b.slots) < MaxBars /\ phys # None ->
            IF phys[1].size > Stride \/ b.pools = 0 THEN [b |-> b, va |-> None]
            ELSE [b  |-> [taken EXCEPT !.slots = Append(@, [bar |-> bar, phys |-> phys[1].base])],
                  va |-> Some((BarBase + Len(b.slots) + 1) * Stride)]

\* resolve: 0 for a window that is missing or cannot be mapped.
ResolveWindow(h, b, window) ==
  IF window = None THEN [b |-> b, va |-> 0]
  ELSE LET m == MapPciBar(h, b, window[1].bar)
       IN [b |-> m.b, va |-> IF m.va = None THEN 0 ELSE m.va[1] + window[1].offset]

\* enable_and_program_msix: the table entry, then the enable bit, then the
\* vector of queue 0; what was written stays when a later step fails.
EnableAndProgramMsix(h, b, layout) ==
  LET table  == PciBarPhys(h.bars[layout.msix[1].bar])
      common == PciBarPhys(h.bars[layout.common[1].bar])
      reach(p) == p # None /\ p[1].size <= MsixReach
      mapped == b.pools >= 1 /\ reach(table)
  IN [ok      |-> mapped /\ b.pools >= 2 /\ reach(common),
      pools   |-> IF b.pools = 0 THEN 0 ELSE IF ~mapped \/ b.pools = 1 THEN b.pools - 1 ELSE b.pools - 2,
      entry   |-> IF mapped THEN Some(table[1].base + layout.msix[1].offset) ELSE None,
      enabled |-> mapped]

NoVector == 65535   \* VIRTIO_MSI_NO_VECTOR

(***************************************************************************)
(* wire_virtio_pci_transport and its twin for the network device: the      *)
(* header the driver will find, or None.  The configuration space takes    *)
(* the first pool.                                                         *)
(***************************************************************************)
WireVirtioPciTransport(h, pools) ==
  LET layout == WalkVirtioPciCapabilities(h)
      start  == [pools |-> pools - 1, slots |-> <<>>]
      common == MapPciBar(h, start, layout.common[1].bar)
      notify == ResolveWindow(h, common.b, layout.notify)
      isr    == ResolveWindow(h, notify.b, layout.isr)
      device == ResolveWindow(h, isr.b, layout.device)
      msix   == EnableAndProgramMsix(h, device.b, layout)
      wantsMsix == layout.msix # None /\ h.msiMessage
  IN IF pools = 0 \/ layout.common = None THEN None
     ELSE IF common.va = None \/ (wantsMsix /\ ~msix.ok) THEN None
     ELSE Some([common |-> common.va[1] + layout.common[1].offset,
                notify |-> notify.va, isr |-> isr.va, device |-> device.va,
                vector |-> IF wantsMsix THEN 0 ELSE NoVector,
                entry  |-> IF wantsMsix THEN msix.entry ELSE None,
                slots  |-> device.b.slots])

WireVirtioPciTransportNet(h, pools) == WireVirtioPciTransport(h, pools)

\* The physical page of the ISR window that the kernel keeps for the network
\* device, computed anew from the capability.
IsrCfgPhys(h) ==
  LET w == WalkVirtioPciCapabilities(h).isr
  IN IF w = None \/ PciBarPhys(h.bars[w[1].bar]) = None THEN None
     ELSE Some(PciBarPhys(h.bars[w[1].bar])[1].base + w[1].offset)

\* What a virtual address is in the driver's address space.
DriverPhys(slots, va) ==
  LET i == (va \div Stride) - BarBase
  IN IF i \in DOMAIN slots THEN Some(slots[i].phys + (va % Stride)) ELSE None
-----------------------------------------------------------------------------
(***************************************************************************)
(* do_probe over either transport.  The device's registers are regs:       *)
(* status, the selected queue and, for each queue, its size, its ring      *)
(* addresses, its vector and whether it is enabled.                        *)
(***************************************************************************)
Queues(kind) == IF kind = "blk" THEN {0} ELSE {0, 1}   \* REQUEST_QUEUE; RX_QUEUE, TX_QUEUE

FreshRegs == [status |-> {}, sel |-> 0,
              q |-> [i \in {0, 1} |-> [size |-> 0, rings |-> None, vector |-> NoVector, on |-> FALSE]]]

\* mutant of SelectQueue: the write is lost
SelectQueueLost(regs, i) == regs

SelectQueue(regs, i) == [regs EXCEPT !.sel = i]
WriteStatus(regs, s) == [regs EXCEPT !.status = s]
WriteQueueMsixVector(regs, pci, vector) ==
  IF pci THEN [regs EXCEPT !.q[regs.sel].vector = vector] ELSE regs
WriteQueueSize(regs)         == [regs EXCEPT !.q[regs.sel].size = QueueSize]
WriteQueueAddrs(regs, rings) == [regs EXCEPT !.q[regs.sel].rings = Some(rings)]
EnableQueue(regs)            == [regs EXCEPT !.q[regs.sel].on = TRUE]

SetUpQueue(regs, h, vector, i) ==
  LET selected == WriteQueueMsixVector(SelectQueue(regs, i), h.pci, vector)
  IN IF h.max < QueueSize THEN WriteStatus(selected, {"FAILED"})
     ELSE EnableQueue(WriteQueueAddrs(WriteQueueSize(selected), i))

Identified(h) == h.pci \/ (h.magic /\ h.kind = h.isA /\ h.modern)
Acked         == {"ACKNOWLEDGE", "DRIVER", "FEATURES_OK"}

DoProbeBlk(h, vector) ==
  LET regs == SetUpQueue(WriteStatus(FreshRegs, Acked), h, vector, 0)
  IN CASE ~Identified(h) -> [ok |-> FALSE, regs |-> FreshRegs]
       [] Identified(h) /\ ~h.featuresOk -> [ok |-> FALSE, regs |-> WriteStatus(FreshRegs, {"FAILED"})]
       [] Identified(h) /\ h.featuresOk ->
            IF "FAILED" \in regs.status THEN [ok |-> FALSE, regs |-> regs]
            ELSE [ok |-> TRUE, regs |-> WriteStatus(regs, Acked \cup {"DRIVER_OK"})]

\* The network driver posts its receive buffer last.
DoProbeNet(h, vector) ==
  LET rx   == SetUpQueue(WriteStatus(FreshRegs, Acked), h, vector, 0)
      regs == IF "FAILED" \in rx.status THEN rx ELSE SetUpQueue(rx, h, vector, 1)
  IN CASE ~Identified(h) -> [ok |-> FALSE, regs |-> FreshRegs]
       [] Identified(h) /\ ~h.featuresOk -> [ok |-> FALSE, regs |-> WriteStatus(FreshRegs, {"FAILED"})]
       [] Identified(h) /\ h.featuresOk ->
            IF "FAILED" \in regs.status THEN [ok |-> FALSE, regs |-> regs]
            ELSE [ok |-> TRUE, regs |-> WriteStatus(regs, Acked \cup {"DRIVER_OK"})]

\* new_driver_for_this_transport: the header decides; an address of 0 is not
\* bound, and probe refuses a driver that is not.
NewDriver(h, header) ==
  IF ~h.pci THEN [bound |-> TRUE, vector |-> NoVector]
  ELSE [bound |-> header # None, vector |-> IF header = None THEN NoVector ELSE header[1].vector]

ProbeBlk(h, driver) ==
  IF driver.bound THEN DoProbeBlk(h, driver.vector) ELSE [ok |-> FALSE, regs |-> FreshRegs]
ProbeNet(h, driver) ==
  IF driver.bound THEN DoProbeNet(h, driver.vector) ELSE [ok |-> FALSE, regs |-> FreshRegs]
-----------------------------------------------------------------------------
(***************************************************************************)
(* What a device is by the PCI and virtio specifications.  A memory BAR is *)
(* aligned and smaller than its registers can say; the capability list     *)
(* stays in the configuration space; the window a capability names lies in *)
(* its BAR.                                                                *)
(***************************************************************************)
Mapped(bar) == ~bar.io /\ bar.size # 0
Room(bar)   == IF bar.wide THEN WordMod * WordMod ELSE WordMod

BarOk(bar) ==
  /\ bar.io \in BOOLEAN /\ bar.wide \in BOOLEAN /\ bar.base \in Nat /\ bar.size \in Nat
  /\ bar.base % Flags = 0 /\ bar.size % Flags = 0 /\ bar.base + bar.size <= Room(bar)
  /\ bar.size < Room(bar) /\ (bar.io => ~bar.wide)

CapOk(h, c) ==
  /\ c.next \in DOMAIN h.cap \cup {0}
  /\ c.kind \in DOMAIN NoWindows =>
       /\ c.bar \in DOMAIN h.bars /\ c.offset \in Nat
       /\ Mapped(h.bars[c.bar]) => c.offset < h.bars[c.bar].size

ASSUME HardwareAssumption ==
  \A h \in Hardware :
    /\ h.kind \in {"blk", "net"} /\ h.pci \in BOOLEAN /\ h.max \in Nat
    /\ h.first \in DOMAIN h.cap \cup {0}
    /\ \A b \in DOMAIN h.bars : BarOk(h.bars[b])
    /\ \A p \in DOMAIN h.cap : CapOk(h, h.cap[p])

ASSUME TransportAssumption ==
  /\ WordMod \in Nat \ {0} /\ WordMod % Flags = 0 /\ Pools \subseteq Nat
  /\ WalkLimit \in Nat /\ MaxBars \in Nat /\ Stride \in Nat \ {0} /\ MsixReach \in Nat /\ QueueSize \in Nat \ {0}

Wired(h, pools) ==
  IF ~h.pci THEN None
  ELSE IF h.kind = "blk" THEN WireVirtioPciTransport(h, pools) ELSE WireVirtioPciTransportNet(h, pools)

Probe(h, driver) == IF h.kind = "blk" THEN ProbeBlk(h, driver) ELSE ProbeNet(h, driver)

\* One device is wired and probed; hw does not change.
WireInit == hw \in {Some([h |-> h, pools |-> n]) : h \in Hardware, n \in Pools}
WireSpec == WireInit /\ [][UNCHANGED hw]_hw
-----------------------------------------------------------------------------
Decoded(bar) == IF Mapped(bar) THEN Some([base |-> bar.base, size |-> bar.size]) ELSE None

HeaderBound(h, layout, header) ==
  LET At(k) == h.bars[layout[k][1].bar].base + layout[k][1].offset
  IN /\ \A k \in {"common", "notify", "isr", "device"} :
          header[k] # 0 => DriverPhys(header.slots, header[k]) = Some(At(k))
     /\ h.kind = "net" /\ header.isr # 0 => IsrCfgPhys(h) = Some(At("isr"))
     /\ header.vector # NoVector => header.entry = Some(At("msix"))
     /\ \A s \in DOMAIN header.slots : h.bars[header.slots[s].bar].size <= Stride

QueuesSetUp(h, vector, ready) ==
  IF ready.ok
  THEN /\ ready.regs.status = Acked \cup {"DRIVER_OK"}
       /\ \A i \in Queues(h.kind) :
            /\ ready.regs.q[i].rings = Some(i) /\ ready.regs.q[i].size = QueueSize /\ ready.regs.q[i].on
            /\ h.pci => ready.regs.q[i].vector = vector
  ELSE "DRIVER_OK" \notin ready.regs.status

(***************************************************************************)
(* A wired driver talks to its own device: a BAR is found where it is and  *)
(* as large as it is, every address in the driver's header is the register *)
(* block its capability names, no BAR outgrows its slot,                   *)
(* the kernel's copy of the ISR page is the driver's, MSI-X is announced   *)
(* only with its table entry written, and a driver that calls itself ready *)
(* has given each of its queues its own rings.                             *)
(***************************************************************************)
BoundToItsDevice ==
  hw # None =>
    \A h \in {hw[1].h} : \A header \in {Wired(h, hw[1].pools)} : \A driver \in {NewDriver(h, header)} :
      /\ \A b \in DOMAIN h.bars : PciBarPhys(h.bars[b]) = Decoded(h.bars[b])
      /\ header # None => HeaderBound(h, WalkVirtioPciCapabilities(h), header[1])
      /\ QueuesSetUp(h, driver.vector, Probe(h, driver))
=============================================================================
