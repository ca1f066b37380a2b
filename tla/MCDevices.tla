------------------------------ MODULE MCDevices -----------------------------
(***************************************************************************)
(* The virtio drivers in three parts: waiting for an interrupt (IrqWait),  *)
(* the queues (VirtioQueue) and how a driver is bound to its device        *)
(* (Virtio).  part names what a behaviour is about; the variables of the   *)
(* other parts keep their initial values.                                  *)
(***************************************************************************)
EXTENDS IrqWait, VirtioQueue

VARIABLES part

every == <<vars, qvars, part, hw>>

\* Hardware: one or two BARs, a list of capabilities that may loop.
Bar(io, wide, base, size) == [io |-> io, wide |-> wide, base |-> base, size |-> size]
Bars ==
  {Bar(FALSE, FALSE, 32, 32), Bar(FALSE, TRUE, 512, 64), Bar(FALSE, TRUE, 1024, 512), Bar(TRUE, FALSE, 16, 16),
   Bar(FALSE, FALSE, 0, 0), Bar(FALSE, FALSE, 0, 16)}
CapList(kinds, bars, loop) ==
  [i \in 1 .. Len(kinds) |->
     [kind |-> kinds[i], bar |-> bars[i], offset |-> 4 * i, next |-> IF i < Len(kinds) THEN i + 1 ELSE loop]]

PciHardware ==
  {[pci |-> TRUE, kind |-> k, first |-> 1, cap |-> CapList(kinds, bars, loop), bars |-> <<b1, b2>>,
    msiMessage |-> msi, featuresOk |-> TRUE, max |-> QueueSize, magic |-> TRUE, isA |-> k, modern |-> TRUE] :
   k \in {"blk", "net"}, kinds \in [1 .. 3 -> {"common", "notify", "isr", "msix", "other"}], bars \in [1 .. 3 -> {1, 2}],
   loop \in {0, 2}, b1 \in Bars, b2 \in {Bar(FALSE, TRUE, 512, 64), Bar(TRUE, FALSE, 16, 16)}, msi \in {TRUE}}

MmioHardware ==
  {[pci |-> FALSE, kind |-> k, first |-> 0, cap |-> <<>>, bars |-> <<>>, msiMessage |-> FALSE,
    featuresOk |-> f, max |-> n, magic |-> m, isA |-> a, modern |-> v] :
   k \in {"blk", "net"}, a \in {"blk", "net"}, f \in BOOLEAN, m \in BOOLEAN, v \in BOOLEAN, n \in {0, QueueSize - 1, QueueSize}}

MCHardware == PciHardware \cup MmioHardware

DevicesInit ==
  \/ part = "wait" /\ Init /\ QueueInit /\ kind = "blk" /\ hw = None
  \/ part = "queue" /\ Init /\ QueueInit /\ hw = None
  \/ part = "wire" /\ Init /\ QueueInit /\ kind = "blk" /\ WireInit

DevicesNext ==
  \/ part = "wait" /\ Next /\ UNCHANGED <<qvars, part, hw>>
  \/ part = "queue" /\ QueueNext /\ UNCHANGED <<vars, part, hw>>

DevicesFairness ==
  /\ WF_every(part = "wait" /\ Driver /\ UNCHANGED <<qvars, part, hw>>)
  /\ WF_every(part = "wait" /\ Complete /\ UNCHANGED <<qvars, part, hw>>)
  /\ WF_every(part = "wait" /\ TakeIrq /\ UNCHANGED <<qvars, part, hw>>)

DevicesSpec == DevicesInit /\ [][DevicesNext]_every /\ DevicesFairness
=============================================================================
