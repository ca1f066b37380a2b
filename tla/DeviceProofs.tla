---------------------------- MODULE DeviceProofs ----------------------------
(***************************************************************************)
(* The virtio drivers.  The safety of the interrupt wait for any capacity  *)
(* of the waiter list, any retry limit and any number of requests,         *)
(* spurious device interrupts and unrelated wakeups; the truth of what the *)
(* drivers answer for any ring, any index width and any number of requests *)
(* given up on; and the binding of a driver to its device for any BARs and *)
(* any capability list.                                                    *)
(***************************************************************************)
EXTENDS IrqWait, VirtioQueue, FiniteSetTheorems, WellFoundedInduction, TLAPS
-----------------------------------------------------------------------------
(* The wait *)

Idling == pc \in {"masked", "unmasked", "asleep"}

\* A set signal word has emptied the waiter list.
SignalEmptiesList == signal => waiting = 0

\* The core is on its way to sleep only while there is no signal, except on
\* riscv64, which can be interrupted with wfi still ahead of it.
IdlesUnsignalled ==
  /\ pc = "masked" => ~signal
  /\ Arch # "riscv64" /\ Idling => ~signal
  /\ pc = "unmasked" => Arch # "x86_64"

\* Each entry in the list beyond the current one is there because of an
\* unrelated wakeup.
EntriesAreWakeups == waiting <= other + (IF Idling THEN 1 ELSE 0)

\* While the list cannot have filled up, the driver outside of a Wait is in no
\* list, and the scheduler knows that it runs.
OutsideWait == other < Waiters /\ pc \in {"serve", "user", "check"} => waiting = 0

IInv ==
  /\ TypeOK /\ bound
  /\ SignalEmptiesList /\ IdlesUnsignalled /\ SleeperIsQueued
  /\ EntriesAreWakeups /\ OutsideWait /\ RunsAsItself /\ RefusedWhenFull

LEMMA InitIInv == Init => IInv
<1> SUFFICES ASSUME Init PROVE IInv
  OBVIOUS
<1>1. TypeOK
  <2>1. line \in BOOLEAN /\ signal \in BOOLEAN /\ running \in BOOLEAN /\ bound \in BOOLEAN
    BY DEF Init
  <2>2. /\ submitted \in 0 .. MaxSubmit /\ used \in 0 .. submitted /\ waiting \in 0 .. Waiters
        /\ retries \in 0 .. MaxWaitRetries - 1
        /\ spurious \in 0 .. MaxSpurious /\ other \in 0 .. MaxOther
    BY BoundsAssumption DEF Init
  <2>3. pc \in Place /\ entity \in {"Ready", "Running", "Blocked"}
    BY DEF Init, Place
  <2> QED BY <2>1, <2>2, <2>3 DEF TypeOK
<1>2. bound
  BY DEF Init
<1>3. SignalEmptiesList /\ IdlesUnsignalled /\ SleeperIsQueued
  BY DEF Init, SignalEmptiesList, IdlesUnsignalled, Idling, SleeperIsQueued
<1>4. EntriesAreWakeups /\ OutsideWait /\ RunsAsItself /\ RefusedWhenFull
  BY DEF Init, EntriesAreWakeups, Idling, OutsideWait, RunsAsItself, RunsAsItselfAlways, RefusedWhenFull
<1> QED
  BY <1>1, <1>2, <1>3, <1>4 DEF IInv

LEMMA NextTypeOK == TypeOK /\ bound /\ [Next]_vars => TypeOK' /\ bound'
<1> SUFFICES ASSUME TypeOK, bound, [Next]_vars PROVE TypeOK' /\ bound'
  OBVIOUS
<1> USE BoundsAssumption DEF TypeOK, Place, device, sched
<1>1. CASE Submit BY <1>1 DEF Submit
<1>2. CASE Complete BY <1>2 DEF Complete
<1>3. CASE ConfigChange BY <1>3 DEF ConfigChange
<1>4. CASE EnterWait BY <1>4 DEF EnterWait
<1>5. CASE WaitReady BY <1>5 DEF WaitReady
<1>6. CASE WaitBlocked
  <2>1. waiting' \in 0 .. Waiters
    BY <1>6 DEF WaitBlocked
  <2> QED BY <1>6, <2>1 DEF WaitBlocked
<1>7. CASE WaitError BY <1>7 DEF WaitError
<1>8. CASE Unmask BY <1>8 DEF Unmask
<1>9. CASE Wfi BY <1>9 DEF Wfi
<1>10. CASE Check
  <2>1. retries' \in 0 .. MaxWaitRetries - 1
    BY <1>10 DEF Check, AnswerRequest
  <2>2. running' \in BOOLEAN /\ entity' \in {"Ready", "Running", "Blocked"} /\ pc' \in Place
    BY <1>10 DEF Check, AnswerRequest
  <2> QED BY <1>10, <2>1, <2>2 DEF Check
<1>11. CASE TakeIrq
  <2>1. waiting' \in 0 .. Waiters
    BY <1>11 DEF TakeIrq
  <2>2. signal' \in BOOLEAN /\ line' \in BOOLEAN
    BY <1>11 DEF TakeIrq
  <2>3. pc' \in Place /\ entity' \in {"Ready", "Running", "Blocked"}
    BY <1>11 DEF TakeIrq, Unmasked, Interrupted
  <2> QED BY <1>11, <2>1, <2>2, <2>3 DEF TakeIrq
<1>12. CASE OtherIrq BY <1>12 DEF OtherIrq, Interrupted
<1>13. CASE UNCHANGED vars BY <1>13 DEF vars
<1> QED
  BY <1>1, <1>2, <1>3, <1>4, <1>5, <1>6, <1>7, <1>8, <1>9, <1>10, <1>11, <1>12, <1>13
  DEF Next, Driver

LEMMA NextIInv == IInv /\ [Next]_vars => IInv'
<1> SUFFICES ASSUME IInv, [Next]_vars PROVE IInv'
  OBVIOUS
<1>0. TypeOK /\ bound /\ TypeOK' /\ bound'
  BY NextTypeOK DEF IInv
<1>t. /\ waiting \in Nat /\ other \in Nat /\ pc \in Place /\ Waiters \in Nat \ {0}
      /\ signal \in BOOLEAN /\ entity \in {"Ready", "Running", "Blocked"} /\ running \in BOOLEAN
  BY <1>0, BoundsAssumption DEF TypeOK
<1> USE <1>t, ArchAssumption
    DEF IInv, Place, SignalEmptiesList, IdlesUnsignalled, Idling, SleeperIsQueued,
        EntriesAreWakeups, OutsideWait, RunsAsItself, RunsAsItselfAlways, RefusedWhenFull, device, sched
<1>1. CASE Submit BY <1>0, <1>1 DEF Submit
<1>2. CASE Complete BY <1>0, <1>2 DEF Complete
<1>3. CASE ConfigChange BY <1>0, <1>3 DEF ConfigChange
<1>4. CASE EnterWait BY <1>0, <1>4 DEF EnterWait
<1>5. CASE WaitReady BY <1>0, <1>5 DEF WaitReady
<1>6. CASE WaitBlocked BY <1>0, <1>6 DEF WaitBlocked
<1>7. CASE WaitError BY <1>0, <1>7 DEF WaitError
<1>8. CASE Unmask BY <1>0, <1>8 DEF Unmask
<1>9. CASE Wfi BY <1>0, <1>9 DEF Wfi
<1>10. CASE Check
  <2>1. /\ pc = "check" /\ UNCHANGED <<signal, waiting, other>>
        /\ \/ pc' = "serve" /\ running
           \/ pc' = "refused" /\ ~running
           \/ pc' = "user" /\ UNCHANGED <<entity, running>>
    BY <1>10 DEF Check, AnswerRequest
  <2>2. ~running => other >= Waiters
    BY <1>0, <2>1 DEF TypeOK
  <2> QED BY <1>0, <2>1, <2>2
<1>11. CASE TakeIrq
  <2>1. signal' /\ waiting' = 0 /\ other' = other /\ running' = running
    BY <1>0, <1>11 DEF TakeIrq
  <2>2. /\ pc \in {"serve", "user", "check", "refused"} => pc' = pc
        /\ pc = "asleep" => pc' = "step"
        /\ pc = "unmasked" => pc' = IF Arch = "aarch64" THEN "step" ELSE "unmasked"
        /\ pc \in {"serve", "user", "check", "refused", "unmasked", "asleep"}
    BY <1>11 DEF TakeIrq, Unmasked, Interrupted
  <2>3. waiting = 0 => entity' = entity
    BY <1>11 DEF TakeIrq
  <2>4. SignalEmptiesList' /\ IdlesUnsignalled' /\ SleeperIsQueued'
    BY <2>1, <2>2
  <2>5. EntriesAreWakeups' /\ OutsideWait'
    BY <2>1, <2>2
  <2>6. RunsAsItself' /\ RefusedWhenFull'
    BY <2>1, <2>2, <2>3
  <2> QED BY <1>0, <2>4, <2>5, <2>6 DEF IInv
<1>12. CASE OtherIrq BY <1>0, <1>12 DEF OtherIrq, Interrupted
<1>13. CASE UNCHANGED vars BY <1>0, <1>13 DEF vars
<1> QED
  BY <1>1, <1>2, <1>3, <1>4, <1>5, <1>6, <1>7, <1>8, <1>9, <1>10, <1>11, <1>12, <1>13
  DEF Next, Driver

(***************************************************************************)
(* The inductive invariant of the interrupt wait.                          *)
(***************************************************************************)
THEOREM WaitInvariant == Spec => []IInv
<1>1. Init => IInv
  BY InitIInv
<1>2. IInv /\ [Next]_vars => IInv'
  BY NextIInv
<1> QED
  BY <1>1, <1>2, PTL DEF Spec

(***************************************************************************)
(* drv_irq_wait_step and the trampoline: a driver on its way to sleep is   *)
(* queued and blocked until a signal comes, so every signal finds it.      *)
(***************************************************************************)
THEOREM SleeperAlwaysQueued == Spec => []SleeperIsQueued
<1>1. IInv => SleeperIsQueued
  BY DEF IInv
<1> QED
  BY <1>1, WaitInvariant, PTL

(***************************************************************************)
(* x86_64 and aarch64 never sleep on a signal already delivered; riscv64   *)
(* can.                                                                    *)
(***************************************************************************)
THEOREM NoLostWakeup ==
  ASSUME Arch # "riscv64"
  PROVE  Spec => []NeverSleepsOnSignal
<1>1. IInv => NeverSleepsOnSignal
  BY DEF IInv, IdlesUnsignalled, Idling, NeverSleepsOnSignal
<1> QED
  BY <1>1, WaitInvariant, PTL

(***************************************************************************)
(* As long as there were fewer unrelated wakeups than the waiter list has  *)
(* places, the driver's own code runs as the scheduler's running thread.   *)
(***************************************************************************)
THEOREM RunsAsRunning == Spec => []RunsAsItself
<1>1. IInv => RunsAsItself
  BY DEF IInv
<1> QED
  BY <1>1, WaitInvariant, PTL

(***************************************************************************)
(* Under the same condition none of its answers is refused.                *)
(***************************************************************************)
THEOREM OnlyFullListRefuses == Spec => []RefusedWhenFull
<1>1. IInv => RefusedWhenFull
  BY DEF IInv
<1> QED
  BY <1>1, WaitInvariant, PTL

(***************************************************************************)
(* Under the same condition no waiter entry outlives its Wait.             *)
(***************************************************************************)
THEOREM NoEntryOutlivesWait == Spec => []NoStaleWaiter
<1>1. IInv => NoStaleWaiter
  BY DEF IInv, OutsideWait, NoStaleWaiter
<1> QED
  BY <1>1, WaitInvariant, PTL
-----------------------------------------------------------------------------
(* Indices *)

Idx == 0 .. IdxMod - 1

LEMMA WrapOnce ==
  ASSUME NEW N \in Nat \ {0}, NEW x \in N .. 2 * N - 1
  PROVE  x % N = x - N
<1>1. x \in Nat
  OBVIOUS
<1>2. PICK q \in Int, r \in Int : q = x \div N /\ r = x % N /\ r \in 0 .. N - 1 /\ x = N * q + r
  <2>1. x \div N \in Int /\ x % N \in 0 .. N - 1
    BY <1>1
  <2>2. PICK q \in Int, r \in Int : q = x \div N /\ r = x % N
    BY <2>1
  <2>3. x = N * q + r
    BY <1>1, <2>2
  <2> QED BY <2>1, <2>2, <2>3
<1>3. N * 0 < N * q /\ N * q < N * 2
  BY <1>1, <1>2
<1>4. q = 1
  BY <1>3
<1> QED BY <1>2, <1>4

LEMMA IncIs ==
  ASSUME NEW a \in Idx
  PROVE  Inc(a) = (IF a = IdxMod - 1 THEN 0 ELSE a + 1) /\ Inc(a) \in Idx
<1>1. PICK N \in Nat \ {0, 1} : N = IdxMod
  BY QueueAssumption
<1>2. a \in Nat /\ a <= N - 1
  BY <1>1 DEF Idx
<1>3. CASE a = N - 1
  <2>1. a + 1 \in N .. 2 * N - 1 /\ (a + 1) - N = 0
    BY <1>2, <1>3
  <2>2. (a + 1) % N = 0
    BY <2>1, WrapOnce
  <2> QED BY <1>1, <1>3, <2>2 DEF Inc, Idx
<1>4. CASE a # N - 1
  <2>1. a + 1 \in 0 .. N - 1
    BY <1>2, <1>4
  <2>2. (a + 1) % N = a + 1
    BY <2>1
  <2> QED BY <1>1, <1>4, <2>1, <2>2 DEF Inc, Idx
<1> QED BY <1>3, <1>4

LEMMA BetweenIs ==
  ASSUME NEW a \in Idx, NEW b \in Idx
  PROVE  Between(a, b) = IF a <= b THEN b - a ELSE b - a + IdxMod
<1>1. PICK N \in Nat \ {0, 1} : N = IdxMod
  BY QueueAssumption
<1>2. a \in 0 .. N - 1 /\ b \in 0 .. N - 1
  BY <1>1 DEF Idx
<1>3. PICK x \in Int : x = b - a + N
  BY <1>2
<1>4. CASE a <= b
  <2>1. x \in N .. 2 * N - 1
    BY <1>2, <1>3, <1>4
  <2>2. x % N = x - N
    BY <2>1, WrapOnce
  <2>3. x - N = b - a
    BY <1>2, <1>3
  <2> QED BY <1>1, <1>3, <1>4, <2>2, <2>3 DEF Between
<1>5. CASE ~ (a <= b)
  <2>1. x \in 0 .. N - 1
    BY <1>2, <1>3, <1>5
  <2>2. x % N = x
    BY <2>1
  <2> QED BY <1>1, <1>3, <1>5, <2>2 DEF Between
<1> QED BY <1>4, <1>5

LEMMA Distances ==
  ASSUME NEW a \in Idx, NEW b \in Idx
  PROVE  /\ Between(a, b) \in 0 .. IdxMod - 1 /\ (Between(a, b) = 0 <=> a = b)
         /\ a # b => Between(Inc(a), b) = Between(a, b) - 1
         /\ Between(a, b) < IdxMod - 1 => Between(a, Inc(b)) = Between(a, b) + 1
         /\ Inc(a) # a
<1>1. PICK N \in Nat \ {0, 1} : N = IdxMod
  BY QueueAssumption
<1>2. a \in 0 .. N - 1 /\ b \in 0 .. N - 1
  BY <1>1 DEF Idx
<1>3. PICK x \in Idx, y \in Idx : x = Inc(a) /\ y = Inc(b)
  BY IncIs
<1>4. x = (IF a = N - 1 THEN 0 ELSE a + 1) /\ y = (IF b = N - 1 THEN 0 ELSE b + 1)
  BY <1>1, <1>3, IncIs
<1>5. /\ Between(a, b) = IF a <= b THEN b - a ELSE b - a + N
      /\ Between(x, b) = IF x <= b THEN b - x ELSE b - x + N
      /\ Between(a, y) = IF a <= y THEN y - a ELSE y - a + N
  BY <1>1, BetweenIs
<1>6. PICK d, e, f : d = Between(a, b) /\ e = Between(x, b) /\ f = Between(a, y)
  OBVIOUS
<1>7. /\ d \in 0 .. N - 1 /\ (d = 0 <=> a = b)
      /\ a # b => e = d - 1
      /\ d < N - 1 => f = d + 1
      /\ x # a
  BY <1>2, <1>4, <1>5, <1>6
<1> QED BY <1>1, <1>3, <1>6, <1>7

LEMMA Before ==
  ASSUME NEW a \in Idx
  PROVE  (Inc(a) - 1 + IdxMod) % IdxMod = a
<1>1. PICK N \in Nat \ {0, 1} : N = IdxMod
  BY QueueAssumption
<1>2. PICK x \in Idx : x = Inc(a) /\ x = (IF a = N - 1 THEN 0 ELSE a + 1)
  BY <1>1, IncIs
<1>3. a \in 0 .. N - 1
  BY <1>1 DEF Idx
<1>4. CASE a = N - 1
  <2>1. x - 1 + N = a /\ a % N = a
    BY <1>2, <1>3, <1>4
  <2> QED BY <1>1, <1>2, <2>1
<1>5. CASE a # N - 1
  <2>1. PICK z : z = x - 1 + N
    OBVIOUS
  <2>2. z \in N .. 2 * N - 1 /\ z - N = a
    BY <1>2, <1>3, <1>5, <2>1
  <2>3. z % N = z - N
    BY <2>2, WrapOnce
  <2> QED BY <1>1, <1>2, <2>1, <2>2, <2>3
<1> QED BY <1>4, <1>5
-----------------------------------------------------------------------------
(* The invariant *)

QueueTyped ==
  /\ kind \in {"blk", "net"} /\ phase \in {"standard", "bypass", "polling"}
  /\ drv \in [at : {"idle", "wait"}, next : Idx, req : Nat, tries : Nat, alone : BOOLEAN, rx : Idx]
  /\ ring \in [avail : Idx, used : Idx, buf : Nat, data : Nat, status : {0, 1, Fresh}]
  /\ dev \in [seen : Idx, flight : SUBSET [i : Idx, req : Nat], done : SUBSET Nat, broken : BOOLEAN]
  /\ rxq \in [avail : Idx, used : Idx, len : [0 .. QueueSize - 1 -> Nat], buf : Nat, arrived : Nat]
  /\ answer \in [req : Nat, ok : BOOLEAN, alone : BOOLEAN] /\ frame \in [len : Nat, nth : Nat]

\* The kernel sends by itself only when the driver has stopped sending; until
\* then the driver's private index is the one in memory.
Published ==
  /\ phase # "standard" => kind = "net" /\ drv.at = "idle"
  /\ phase = "polling" \/ drv.at = "wait" => drv.req > 0
  /\ phase = "standard" => drv.next = ring.avail
  /\ ring.buf = drv.req

\* What is taken is older than the newest request or was taken since that one
\* was published: the device takes no index of it twice.
TakenOnce ==
  \A f \in dev.flight :
    f.req <= ring.buf /\ (f.req = ring.buf => Between(dev.seen, ring.avail) < Between(f.i, ring.avail))

\* Between used and avail lie the requests in flight and the ones not taken.
Counted ==
  /\ IsFiniteSet(dev.flight)
  /\ Outstanding = Cardinality(dev.flight) + Between(dev.seen, ring.avail)

\* A frame is sent, in flight, or not yet taken.
NewestKept ==
  kind = "net" /\ drv.req > 0 =>
    drv.req \in dev.done \/ dev.seen # ring.avail \/ \E f \in dev.flight : f.req = ring.buf

\* A block request submitted with nothing outstanding is the only one.
AloneKept ==
  kind = "blk" /\ drv.at = "wait" /\ drv.alone =>
    /\ Outstanding <= 1 /\ \A f \in dev.flight : f.req = ring.buf
    /\ ring.used = ring.avail /\ ring.status = 0 => drv.req \in dev.done /\ ring.data = drv.req

AnswerKept ==
  /\ answer.ok /\ (kind = "net" \/ answer.alone) => answer.req \in dev.done
  /\ kind = "blk" /\ answer.ok /\ answer.alone /\ drv.at = "idle" =>
       ring.used = ring.avail /\ ring.data = answer.req

\* The one receive buffer is the device's or holds the newest frame.
ReceiveKept ==
  /\ drv.rx = rxq.avail /\ (rxq.used # rxq.avail => Inc(rxq.used) = rxq.avail)
  /\ rxq.used = rxq.avail => rxq.len[((rxq.avail - 1 + IdxMod) % IdxMod) % QueueSize] = rxq.arrived
  /\ frame.len = frame.nth

QueueInv ==
  /\ QueueTyped /\ Published /\ TakenOnce /\ Counted
  /\ NewestKept /\ AloneKept /\ AnswerKept /\ ReceiveKept

LEMMA InitQueue == QueueInit => QueueInv
<1> SUFFICES ASSUME QueueInit PROVE QueueInv
  OBVIOUS
<1>1. 0 \in Idx /\ 1 \in Idx /\ Fresh \in {0, 1, Fresh}
  BY QueueAssumption DEF Idx
<1>2. QueueTyped
  <2>1. dev.flight = {} /\ dev.done = {} /\ dev.seen = 0 /\ dev.broken = FALSE
    BY DEF QueueInit
  <2>2. dev \in [seen : Idx, flight : SUBSET [i : Idx, req : Nat], done : SUBSET Nat, broken : BOOLEAN]
    BY <1>1 DEF QueueInit
  <2>3. rxq \in [avail : Idx, used : Idx, len : [0 .. QueueSize - 1 -> Nat], buf : Nat, arrived : Nat]
    BY <1>1 DEF QueueInit
  <2>4. /\ drv \in [at : {"idle", "wait"}, next : Idx, req : Nat, tries : Nat, alone : BOOLEAN, rx : Idx]
        /\ ring \in [avail : Idx, used : Idx, buf : Nat, data : Nat, status : {0, 1, Fresh}]
        /\ answer \in [req : Nat, ok : BOOLEAN, alone : BOOLEAN] /\ frame \in [len : Nat, nth : Nat]
    BY <1>1 DEF QueueInit
  <2> QED BY <2>2, <2>3, <2>4 DEF QueueTyped, QueueInit
<1>3. Published /\ TakenOnce /\ NewestKept /\ AloneKept /\ AnswerKept
  BY DEF QueueInit, Published, TakenOnce, NewestKept, AloneKept, AnswerKept
<1>4. Counted
  <2>1. ring.used = 0 /\ ring.avail = 0 /\ dev.seen = 0 /\ dev.flight = {}
    BY DEF QueueInit
  <2>2. Between(0, 0) = 0
    BY <1>1, Distances
  <2>3. IsFiniteSet({}) /\ Cardinality({}) = 0
    BY FS_EmptySet
  <2> QED BY <2>1, <2>2, <2>3 DEF Counted, Outstanding
<1>5. ReceiveKept
  <2>1. Inc(0) = 1
    BY <1>1, IncIs, QueueAssumption
  <2> QED BY <2>1 DEF QueueInit, ReceiveKept
<1> QED BY <1>2, <1>3, <1>4, <1>5 DEF QueueInv

\* The states of a queue in which nothing is outstanding.
LEMMA NothingOutstanding ==
  ASSUME QueueTyped, Counted, ring.used = ring.avail
  PROVE  dev.flight = {} /\ dev.seen = ring.avail
<1>1. ring.used \in Idx /\ ring.avail \in Idx /\ dev.seen \in Idx
  BY DEF QueueTyped
<1>2. Between(ring.used, ring.avail) = 0 /\ Between(dev.seen, ring.avail) \in Nat
  BY <1>1, Distances, QueueAssumption
<1>3. Cardinality(dev.flight) \in Nat
  BY FS_CardinalityType DEF Counted
<1>4. Cardinality(dev.flight) = 0 /\ Between(dev.seen, ring.avail) = 0
  BY <1>2, <1>3 DEF Counted, Outstanding
<1> QED BY <1>1, <1>4, Distances, FS_EmptySet DEF Counted

LEMMA RingTyped ==
  ASSUME QueueTyped, Counted
  PROVE  /\ ring.used \in Idx /\ ring.avail \in Idx /\ dev.seen \in Idx
         /\ IdxMod \in Nat /\ Outstanding \in 0 .. IdxMod - 1
         /\ Between(dev.seen, ring.avail) \in 0 .. IdxMod - 1
         /\ Cardinality(dev.flight) \in Nat
         /\ ring.buf \in Nat /\ drv.req \in Nat
         /\ \A f \in dev.flight : f.i \in Idx /\ f.req \in Nat
<1>1. ring.used \in Idx /\ ring.avail \in Idx /\ dev.seen \in Idx /\ ring.buf \in Nat /\ drv.req \in Nat
  BY DEF QueueTyped
<1>2. \A f \in dev.flight : f.i \in Idx /\ f.req \in Nat
  BY DEF QueueTyped
<1> QED BY <1>1, <1>2, Distances, QueueAssumption, FS_CardinalityType DEF Counted, Outstanding

\* A request is published under the next index.
LEMMA Publishing ==
  ASSUME QueueTyped, Counted, TakenOnce, Outstanding < IdxMod - 1, dev' = dev,
         ring'.avail = Inc(ring.avail), ring'.used = ring.used, ring'.buf = ring.buf + 1
  PROVE  /\ Counted' /\ TakenOnce' /\ dev.seen # ring'.avail
         /\ Outstanding' = Outstanding + 1 /\ ring'.used # ring'.avail
         /\ Outstanding = 0 => dev.flight = {}
<1>1. PICK u, b, c : u = Outstanding /\ b = Between(dev.seen, ring.avail) /\ c = Cardinality(dev.flight)
  OBVIOUS
<1>2. u \in Nat /\ b \in Nat /\ c \in Nat /\ u = c + b /\ u < IdxMod - 1 /\ IdxMod \in Nat
  BY <1>1, RingTyped DEF Counted
<1>3. b < IdxMod - 1
  BY <1>2
<1>4. Between(dev.seen, Inc(ring.avail)) = b + 1 /\ Between(ring.used, Inc(ring.avail)) = u + 1
  <2>1. dev.seen \in Idx /\ ring.used \in Idx /\ ring.avail \in Idx /\ u = Between(ring.used, ring.avail)
    BY <1>1, RingTyped DEF Outstanding
  <2> QED BY <1>1, <1>2, <1>3, <2>1, Distances
<1>5. Inc(ring.avail) \in Idx
  BY RingTyped, IncIs
<1>6. dev.seen # ring'.avail /\ ring'.used # ring'.avail
  BY <1>2, <1>4, <1>5, RingTyped, Distances
<1>7. Outstanding' = u + 1
  BY <1>4 DEF Outstanding
<1>8. Counted'
  BY <1>1, <1>2, <1>4, <1>7 DEF Counted
<1>9. TakenOnce'
  BY RingTyped DEF TakenOnce
<1>10. u = 0 => dev.flight = {}
  <2>1. u = 0 => c = 0
    BY <1>2
  <2> QED BY <1>1, <2>1, FS_EmptySet DEF Counted
<1> QED BY <1>1, <1>6, <1>7, <1>8, <1>9, <1>10

LEMMA TakeKeeps == QueueInv /\ DeviceTake => QueueInv'
<1> SUFFICES ASSUME QueueInv, DeviceTake PROVE QueueInv'
  OBVIOUS
<1>1. QueueTyped /\ Counted /\ TakenOnce /\ dev.seen # ring.avail
  BY DEF QueueInv, DeviceTake
<1>2. UNCHANGED <<kind, phase, drv, ring, rxq, answer, frame>>
  BY DEF DeviceTake
<1>3. CASE dev' = [dev EXCEPT !.broken = TRUE]
  <2>1. dev'.seen = dev.seen /\ dev'.flight = dev.flight /\ dev'.done = dev.done
    BY <1>1, <1>3 DEF QueueTyped
  <2>2. QueueTyped'
    BY <1>1, <1>2, <1>3 DEF QueueTyped
  <2> QED BY <1>2, <2>1, <2>2 DEF QueueInv, Published, TakenOnce, Counted, Outstanding, NewestKept, AloneKept, AnswerKept, ReceiveKept
<1>4. ASSUME dev' = [dev EXCEPT !.seen = Inc(@), !.flight = @ \cup {[i |-> dev.seen, req |-> ring.buf]}]
      PROVE  QueueInv'
  <2>1. PICK g : g = [i |-> dev.seen, req |-> ring.buf]
    OBVIOUS
  <2>2. g \in [i : Idx, req : Nat] /\ g.i = dev.seen /\ g.req = ring.buf
    BY <1>1, <2>1, RingTyped
  <2>3. dev'.seen = Inc(dev.seen) /\ dev'.flight = dev.flight \cup {g} /\ dev'.done = dev.done
    BY <1>1, <1>4, <2>1 DEF QueueTyped
  <2>4. QueueTyped'
    <3>1. Inc(dev.seen) \in Idx
      BY <1>1, RingTyped, IncIs
    <3>2. dev' \in [seen : Idx, flight : SUBSET [i : Idx, req : Nat], done : SUBSET Nat, broken : BOOLEAN]
      BY <1>1, <1>4, <2>1, <2>2, <3>1 DEF QueueTyped
    <3> QED BY <1>1, <1>2, <3>2 DEF QueueTyped
  <2>5. PICK b, c : b = Between(dev.seen, ring.avail) /\ c = Cardinality(dev.flight)
    OBVIOUS
  <2>6. b \in Nat /\ c \in Nat /\ Outstanding = c + b /\ Between(Inc(dev.seen), ring.avail) = b - 1
    BY <1>1, <2>5, RingTyped, Distances DEF Counted
  <2>7. g \notin dev.flight
    BY <1>1, <2>2, <2>5, <2>6 DEF TakenOnce
  <2>8. IsFiniteSet(dev'.flight) /\ Cardinality(dev'.flight) = c + 1
    BY <1>1, <2>3, <2>5, <2>7, FS_AddElement DEF Counted
  <2>9. Counted'
    BY <1>2, <2>3, <2>6, <2>8 DEF Counted, Outstanding
  <2>10. TakenOnce'
    <3> SUFFICES ASSUME NEW f \in dev'.flight
                 PROVE  f.req <= ring.buf /\ (f.req = ring.buf => b - 1 < Between(f.i, ring.avail))
      BY <1>2, <2>3, <2>6 DEF TakenOnce
    <3>1. CASE f = g
      BY <1>1, <2>2, <2>5, <2>6, <3>1, RingTyped
    <3>2. CASE f \in dev.flight
      <4>1. Between(f.i, ring.avail) \in Int
        BY <1>1, <3>2, RingTyped, Distances
      <4> QED BY <1>1, <2>5, <2>6, <3>2, <4>1 DEF TakenOnce
    <3> QED BY <2>3, <3>1, <3>2
  <2>11. NewestKept'
    BY <1>2, <2>2, <2>3 DEF NewestKept
  <2>12. AloneKept'
    <3>1. AloneKept
      BY DEF QueueInv
    <3> QED BY <1>2, <2>2, <2>3, <3>1 DEF AloneKept, Outstanding
  <2> QED BY <1>2, <2>3, <2>4, <2>9, <2>10, <2>11, <2>12 DEF QueueInv, Published, AnswerKept, ReceiveKept
<1> QED BY <1>3, <1>4 DEF DeviceTake

LEMMA FinishKeeps == QueueInv /\ DeviceFinish => QueueInv'
<1> SUFFICES ASSUME QueueInv, DeviceFinish PROVE QueueInv'
  OBVIOUS
<1>1. QueueTyped /\ Counted /\ TakenOnce /\ NewestKept /\ AloneKept /\ AnswerKept /\ Published
  BY DEF QueueInv
<1>2. PICK f, status, req :
        /\ f \in dev.flight /\ status \in {0, 1}
        /\ req \in {f.req, ring.buf}
        /\ kind = "net" => status = 0
        /\ dev'  = [dev EXCEPT !.flight = @ \ {f}, !.done = IF status = 0 THEN @ \cup {req} ELSE @]
        /\ ring' = [ring EXCEPT !.used = Inc(@), !.data = req, !.status = status]
        /\ UNCHANGED <<kind, phase, drv, rxq, answer, frame>>
  BY <1>1 DEF DeviceFinish, QueueTyped
<1>2a. f \in dev.flight /\ req \in {f.req, ring.buf} /\ status \in {0, 1} /\ (kind = "net" => status = 0)
  BY <1>2
<1>3. req \in Nat
  BY <1>2a, <1>1, RingTyped
<1>4. /\ dev'.seen = dev.seen /\ dev'.flight = dev.flight \ {f}
      /\ dev'.done = IF status = 0 THEN dev.done \cup {req} ELSE dev.done
  BY <1>1, <1>2 DEF QueueTyped
<1>5. /\ ring'.used = Inc(ring.used) /\ ring'.data = req /\ ring'.status = status
      /\ ring'.avail = ring.avail /\ ring'.buf = ring.buf
  BY <1>1, <1>2 DEF QueueTyped
<1>6. UNCHANGED <<kind, phase, drv, rxq, answer, frame>>
  BY <1>2
<1>7. QueueTyped'
  <2>1. Inc(ring.used) \in Idx
    BY <1>1, RingTyped, IncIs
  <2>2. ring' \in [avail : Idx, used : Idx, buf : Nat, data : Nat, status : {0, 1, Fresh}]
    BY <1>1, <1>2, <1>3, <2>1 DEF QueueTyped
  <2>3. dev' \in [seen : Idx, flight : SUBSET [i : Idx, req : Nat], done : SUBSET Nat, broken : BOOLEAN]
    BY <1>1, <1>2, <1>3 DEF QueueTyped
  <2> QED BY <1>1, <1>6, <2>2, <2>3 DEF QueueTyped
<1>8. PICK b, c : b = Between(dev.seen, ring.avail) /\ c = Cardinality(dev.flight)
  OBVIOUS
<1>9. IsFiniteSet(dev'.flight) /\ Cardinality(dev'.flight) = c - 1
  BY <1>2a, <1>1, <1>4, <1>8, FS_RemoveElement DEF Counted
<1>10. b \in Nat /\ c \in Nat /\ c - 1 \in Nat /\ Outstanding = c + b
  BY <1>1, <1>8, <1>9, RingTyped, FS_CardinalityType DEF Counted
<1>11. ring.used # ring.avail
  BY <1>2a, <1>1, NothingOutstanding
<1>12. Outstanding' = Outstanding - 1
  BY <1>1, <1>5, <1>11, RingTyped, Distances DEF Outstanding
<1>13. Counted'
  BY <1>4, <1>5, <1>8, <1>9, <1>10, <1>12 DEF Counted
<1>14. TakenOnce'
  BY <1>1, <1>4, <1>5 DEF TakenOnce
<1>15. NewestKept'
  <2> SUFFICES ASSUME kind = "net", drv.req > 0
               PROVE  drv.req \in dev'.done \/ dev.seen # ring.avail \/ \E g \in dev'.flight : g.req = ring.buf
    BY <1>4, <1>5, <1>6 DEF NewestKept
  <2>1. CASE f.req = ring.buf
    BY <1>2a, <1>1, <1>4, <2>1 DEF Published
  <2>2. CASE f.req # ring.buf
    BY <1>1, <1>4, <2>2 DEF NewestKept
  <2> QED BY <2>1, <2>2
<1>16. AloneKept'
  <2> SUFFICES ASSUME kind = "blk", drv.at = "wait", drv.alone
               PROVE  /\ Outstanding' <= 1 /\ \A g \in dev'.flight : g.req = ring.buf
                      /\ status = 0 => drv.req \in dev'.done /\ req = drv.req
    BY <1>4, <1>5, <1>6 DEF AloneKept
  <2>1. Outstanding <= 1 /\ \A g \in dev.flight : g.req = ring.buf
    BY <1>1 DEF AloneKept
  <2>2. req = drv.req
    BY <1>2a, <1>1, <2>1 DEF Published
  <2> QED BY <1>4, <1>10, <1>12, <2>1, <2>2
<1>17. AnswerKept'
  BY <1>1, <1>4, <1>6, <1>11 DEF AnswerKept
<1>18. Published' /\ ReceiveKept'
  BY <1>1, <1>5, <1>6 DEF QueueInv, Published, ReceiveKept
<1> QED BY <1>7, <1>13, <1>14, <1>15, <1>16, <1>17, <1>18 DEF QueueInv

LEMMA SubmitKeeps ==
  ASSUME QueueInv, phase = "standard", NEW fresh \in {0, 1, Fresh}, Submitted(fresh), kind = "blk" => fresh = Fresh
  PROVE  QueueInv'
<1>1. QueueTyped /\ Counted /\ TakenOnce /\ AnswerKept /\ Published /\ ReceiveKept
  BY DEF QueueInv
<1>2. drv.at = "idle" /\ Outstanding < IdxMod - 1 /\ UNCHANGED <<kind, phase, dev, rxq, answer, frame>>
  BY DEF Submitted
<1>3. drv.next = ring.avail /\ ring.buf = drv.req
  BY <1>1 DEF Published
<1>4. PICK alone \in BOOLEAN : alone = (Outstanding = 0)
  OBVIOUS
<1>5. drv' = [drv EXCEPT !.at = "wait", !.next = Inc(@), !.req = @ + 1, !.tries = 0, !.alone = alone]
  BY <1>4 DEF Submitted
<1>6. ring' = [ring EXCEPT !.avail = Inc(ring.avail), !.buf = ring.buf + 1, !.status = fresh]
  BY <1>3 DEF Submitted
<1>7. /\ drv'.at = "wait" /\ drv'.next = Inc(ring.avail) /\ drv'.req = drv.req + 1
      /\ drv'.alone = alone /\ drv'.rx = drv.rx
  BY <1>1, <1>3, <1>5 DEF QueueTyped
<1>8. /\ ring'.avail = Inc(ring.avail) /\ ring'.used = ring.used /\ ring'.buf = ring.buf + 1
      /\ ring'.data = ring.data /\ ring'.status = fresh
  BY <1>1, <1>6 DEF QueueTyped
<1>9. QueueTyped'
  <2>1. Inc(ring.avail) \in Idx /\ ring.buf + 1 \in Nat /\ drv.req + 1 \in Nat
    BY <1>1, RingTyped, IncIs
  <2>2. ring' \in [avail : Idx, used : Idx, buf : Nat, data : Nat, status : {0, 1, Fresh}]
    BY <1>1, <1>6, <2>1 DEF QueueTyped
  <2>3. drv' \in [at : {"idle", "wait"}, next : Idx, req : Nat, tries : Nat, alone : BOOLEAN, rx : Idx]
    BY <1>1, <1>3, <1>5, <2>1 DEF QueueTyped
  <2> QED BY <1>1, <1>2, <2>2, <2>3 DEF QueueTyped
<1>10. /\ Counted' /\ TakenOnce' /\ dev.seen # ring'.avail
       /\ Outstanding' = Outstanding + 1 /\ ring'.used # ring'.avail
       /\ Outstanding = 0 => dev.flight = {}
  BY <1>1, <1>2, <1>8, Publishing
<1>11. Published'
  BY <1>1, <1>2, <1>3, <1>7, <1>8, RingTyped DEF Published
<1>12. NewestKept'
  BY <1>2, <1>10 DEF NewestKept
<1>13. AloneKept'
  <2>1. alone => Outstanding' <= 1 /\ dev.flight = {}
    <3>1. alone => Outstanding = 0
      BY <1>4
    <3>2. Outstanding = 0 => Outstanding' = 1
      BY <1>10
    <3>3. 1 <= 1
      OBVIOUS
    <3> QED BY <1>10, <3>1, <3>2, <3>3
  <2> QED BY <1>2, <1>7, <1>10, <2>1 DEF AloneKept
<1>14. AnswerKept'
  BY <1>1, <1>2, <1>7 DEF AnswerKept
<1>15. ReceiveKept'
  BY <1>1, <1>2, <1>7 DEF ReceiveKept
<1> QED BY <1>9, <1>10, <1>11, <1>12, <1>13, <1>14, <1>15 DEF QueueInv

\* With the driver's index in memory, its completion test says that nothing is
\* outstanding.
LEMMA AnswerIsRight ==
  ASSUME QueueTyped, Counted, Published, NewestKept, ring.used = ring.avail, kind = "net", drv.req > 0
  PROVE  drv.req \in dev.done
  BY NothingOutstanding DEF NewestKept

LEMMA WaitKeeps ==
  ASSUME QueueInv, phase = "standard", NEW success \in BOOLEAN, AfterWait(ring.used = drv.next, success),
         kind = "blk" => (success <=> ring.status = 0)
  PROVE  QueueInv'
<1>1. QueueTyped /\ Counted /\ TakenOnce /\ AnswerKept /\ Published /\ ReceiveKept /\ NewestKept /\ AloneKept
  BY DEF QueueInv
<1>2. drv.at = "wait" /\ drv.next = ring.avail /\ drv.req > 0 /\ UNCHANGED <<kind, phase, ring, dev, rxq, frame>>
  BY <1>1 DEF AfterWait, Published
<1>3. ASSUME drv' = [drv EXCEPT !.at = "idle"], NEW ok \in BOOLEAN,
             answer' = [req |-> drv.req, ok |-> ok, alone |-> drv.alone],
             ok => success /\ ring.used = ring.avail
      PROVE  QueueInv'
  <2>1. /\ drv'.at = "idle" /\ drv'.next = drv.next /\ drv'.req = drv.req
        /\ drv'.alone = drv.alone /\ drv'.rx = drv.rx
    BY <1>1, <1>3 DEF QueueTyped
  <2>2. answer'.req = drv.req /\ answer'.ok = ok /\ answer'.alone = drv.alone
    BY <1>3
  <2>3. QueueTyped'
    <3>1. drv' \in [at : {"idle", "wait"}, next : Idx, req : Nat, tries : Nat, alone : BOOLEAN, rx : Idx]
      BY <1>1, <1>3 DEF QueueTyped
    <3>2. answer' \in [req : Nat, ok : BOOLEAN, alone : BOOLEAN]
      BY <1>1, <1>3 DEF QueueTyped
    <3> QED BY <1>1, <1>2, <3>1, <3>2 DEF QueueTyped
  <2>4. ok /\ kind = "net" => drv.req \in dev.done
    BY <1>1, <1>2, <1>3, AnswerIsRight
  <2>5. ok /\ kind = "blk" /\ drv.alone => drv.req \in dev.done /\ ring.data = drv.req
    BY <1>1, <1>2, <1>3 DEF AloneKept
  <2>6. kind \in {"blk", "net"}
    BY <1>1 DEF QueueTyped
  <2>7. AnswerKept'
    BY <1>2, <1>3, <2>2, <2>4, <2>5, <2>6 DEF AnswerKept
  <2>8. AloneKept' /\ NewestKept'
    BY <1>1, <1>2, <2>1 DEF AloneKept, NewestKept
  <2>9. Published' /\ ReceiveKept' /\ TakenOnce' /\ Counted'
    BY <1>1, <1>2, <2>1 DEF Published, ReceiveKept, TakenOnce, Counted, Outstanding
  <2> QED BY <2>3, <2>7, <2>8, <2>9 DEF QueueInv
<1>4. CASE drv' = [drv EXCEPT !.tries = @ + 1] /\ UNCHANGED answer
  <2>1. /\ drv'.at = drv.at /\ drv'.next = drv.next /\ drv'.req = drv.req
        /\ drv'.alone = drv.alone /\ drv'.rx = drv.rx
    BY <1>1, <1>4 DEF QueueTyped
  <2>2. QueueTyped'
    <3>1. drv' \in [at : {"idle", "wait"}, next : Idx, req : Nat, tries : Nat, alone : BOOLEAN, rx : Idx]
      BY <1>1, <1>4 DEF QueueTyped
    <3>2. answer' \in [req : Nat, ok : BOOLEAN, alone : BOOLEAN]
      BY <1>1, <1>4 DEF QueueTyped
    <3> QED BY <1>1, <1>2, <3>1, <3>2 DEF QueueTyped
  <2>3. AnswerKept' /\ AloneKept' /\ NewestKept'
    BY <1>1, <1>2, <1>4, <2>1 DEF AnswerKept, AloneKept, NewestKept, Outstanding
  <2>4. Published' /\ ReceiveKept' /\ TakenOnce' /\ Counted'
    BY <1>1, <1>2, <2>1 DEF Published, ReceiveKept, TakenOnce, Counted, Outstanding
  <2> QED BY <2>2, <2>3, <2>4 DEF QueueInv
<1>5. CASE ring.used = drv.next /\ drv' = [drv EXCEPT !.at = "idle"]
           /\ answer' = [req |-> drv.req, ok |-> success, alone |-> drv.alone]
  BY <1>2, <1>3, <1>5
<1>6. CASE drv' = [drv EXCEPT !.at = "idle"] /\ answer' = [req |-> drv.req, ok |-> FALSE, alone |-> drv.alone]
  BY <1>3, <1>6
<1> QED BY <1>4, <1>5, <1>6 DEF AfterWait

LEMMA ReceiveKeeps == QueueInv /\ DeviceReceive => QueueInv'
<1> SUFFICES ASSUME QueueInv, DeviceReceive PROVE QueueInv'
  OBVIOUS
<1>1. QueueTyped /\ ReceiveKept
  BY DEF QueueInv
<1>2. UNCHANGED <<kind, phase, drv, ring, dev, answer, frame>> /\ rxq.used # rxq.avail
  BY DEF DeviceReceive
<1>3. PICK k : k = rxq.used % QueueSize
  OBVIOUS
<1>4. rxq.used \in Idx /\ rxq.arrived \in Nat /\ rxq.len \in [0 .. QueueSize - 1 -> Nat] /\ Inc(rxq.used) = rxq.avail
  BY <1>1, <1>2 DEF QueueTyped, ReceiveKept
<1>5. k \in 0 .. QueueSize - 1
  <2>1. rxq.used \in Nat /\ QueueSize \in Nat \ {0}
    BY <1>4, QueueAssumption DEF Idx
  <2> QED BY <1>3, <2>1
<1>6. rxq' = [rxq EXCEPT !.used = rxq.avail, !.len[k] = rxq.arrived + 1, !.buf = rxq.arrived + 1, !.arrived = rxq.arrived + 1]
  BY <1>3, <1>4 DEF DeviceReceive
<1>7. PICK len : len = [rxq.len EXCEPT ![k] = rxq.arrived + 1]
  OBVIOUS
<1>8. len \in [0 .. QueueSize - 1 -> Nat] /\ len[k] = rxq.arrived + 1
  <2>1. PICK n \in Nat : n = rxq.arrived + 1
    BY <1>4
  <2>2. PICK old \in [0 .. QueueSize - 1 -> Nat] : old = rxq.len
    BY <1>4
  <2>3. len = [old EXCEPT ![k] = n]
    BY <1>7, <2>1, <2>2
  <2>4. len \in [0 .. QueueSize - 1 -> Nat] /\ len[k] = n
    BY <1>5, <2>3
  <2> QED BY <2>1, <2>4
<1>9. rxq' = [rxq EXCEPT !.used = rxq.avail, !.len = len, !.buf = rxq.arrived + 1, !.arrived = rxq.arrived + 1]
  BY <1>6, <1>7
<1>10. rxq'.used = rxq.avail /\ rxq'.avail = rxq.avail /\ rxq'.len = len /\ rxq'.arrived = rxq.arrived + 1
  BY <1>1, <1>9 DEF QueueTyped
<1>11. QueueTyped'
  <2>1. rxq' \in [avail : Idx, used : Idx, len : [0 .. QueueSize - 1 -> Nat], buf : Nat, arrived : Nat]
    <3>1. PICK n \in Nat : n = rxq.arrived + 1
      BY <1>4
    <3>2. PICK L : L = [0 .. QueueSize - 1 -> Nat]
      OBVIOUS
    <3>3. rxq \in [avail : Idx, used : Idx, len : L, buf : Nat, arrived : Nat] /\ len \in L
      BY <1>1, <1>8, <3>2 DEF QueueTyped
    <3>4. rxq' = [rxq EXCEPT !.used = rxq.avail, !.len = len, !.buf = n, !.arrived = n]
      BY <1>9, <3>1
    <3>5. rxq' \in [avail : Idx, used : Idx, len : L, buf : Nat, arrived : Nat]
      BY <3>3, <3>4
    <3> QED BY <3>2, <3>5
  <2> QED BY <1>1, <1>2, <2>1 DEF QueueTyped
<1>12. ReceiveKept'
  <2>1. ((rxq.avail - 1 + IdxMod) % IdxMod) % QueueSize = k
    BY <1>3, <1>4, Before
  <2> QED BY <1>1, <1>2, <1>8, <1>10, <2>1 DEF ReceiveKept
<1> QED BY <1>2, <1>11, <1>12 DEF QueueInv, Published, TakenOnce, Counted, Outstanding, NewestKept, AloneKept, AnswerKept

LEMMA PollKeeps == QueueInv /\ HandlePollFrame => QueueInv'
<1> SUFFICES ASSUME QueueInv, HandlePollFrame PROVE QueueInv'
  OBVIOUS
<1>1. QueueTyped /\ ReceiveKept
  BY DEF QueueInv
<1>2. UNCHANGED <<kind, phase, ring, dev, answer>> /\ rxq.used = drv.rx /\ drv.rx = rxq.avail /\ drv.rx \in Idx
  BY <1>1 DEF HandlePollFrame, ReceiveKept, QueueTyped
<1>3. PICK n \in Nat : n = rxq.arrived
  BY <1>1 DEF QueueTyped
<1>4. frame' = [len |-> n, nth |-> n]
  BY <1>1, <1>2, <1>3 DEF HandlePollFrame, ReceiveKept
<1>5. PICK x \in Idx : x = Inc(drv.rx)
  BY <1>2, IncIs
<1>6. drv' = [drv EXCEPT !.rx = x] /\ rxq' = [rxq EXCEPT !.avail = x]
  BY <1>5 DEF HandlePollFrame, PostRxBuffer
<1>7. /\ drv'.at = drv.at /\ drv'.next = drv.next /\ drv'.req = drv.req
      /\ drv'.alone = drv.alone /\ drv'.rx = x
  BY <1>1, <1>6 DEF QueueTyped
<1>8. rxq'.avail = x /\ rxq'.used = rxq.used
  BY <1>1, <1>6 DEF QueueTyped
<1>9. QueueTyped'
  BY <1>1, <1>2, <1>4, <1>6 DEF QueueTyped
<1>10. ReceiveKept'
  <2>1. x # drv.rx
    BY <1>2, <1>5, Distances
  <2> QED BY <1>2, <1>4, <1>5, <1>7, <1>8, <2>1 DEF ReceiveKept
<1> QED BY <1>2, <1>7, <1>9, <1>10 DEF QueueInv, Published, TakenOnce, Counted, Outstanding, NewestKept, AloneKept, AnswerKept

LEMMA BypassKeeps == QueueInv /\ (StartBypass \/ BypassSend \/ BypassPolled) => QueueInv'
<1> SUFFICES ASSUME QueueInv, StartBypass \/ BypassSend \/ BypassPolled PROVE QueueInv'
  OBVIOUS
<1>1. QueueTyped /\ Counted /\ TakenOnce /\ AnswerKept /\ Published /\ ReceiveKept /\ NewestKept /\ AloneKept
  BY DEF QueueInv
<1>2. CASE StartBypass
  <2>1. QueueTyped'
    BY <1>1, <1>2 DEF StartBypass, QueueTyped
  <2> QED BY <1>1, <1>2, <2>1 DEF StartBypass, QueueInv, Published, TakenOnce, Counted, Outstanding, NewestKept, AloneKept, AnswerKept, ReceiveKept
<1>3. CASE BypassSend
  <2>1. kind = "net" /\ drv.at = "idle" /\ phase' = "polling" /\ UNCHANGED <<kind, dev, rxq, answer, frame>>
        /\ ring.buf = drv.req /\ drv.req \in Nat
    BY <1>1, <1>3, RingTyped DEF BypassSend, Published
  <2>2. Outstanding < IdxMod - 1
    BY <1>1, <1>3, RingTyped, Distances, QueueAssumption DEF BypassSend, Outstanding
  <2>3. /\ drv' = [drv EXCEPT !.req = drv.req + 1]
        /\ ring' = [ring EXCEPT !.avail = Inc(ring.avail), !.buf = ring.buf + 1]
    BY <1>3, <2>1 DEF BypassSend
  <2>4. /\ drv'.at = drv.at /\ drv'.req = drv.req + 1 /\ drv'.rx = drv.rx
        /\ ring'.avail = Inc(ring.avail) /\ ring'.used = ring.used /\ ring'.buf = ring.buf + 1
    BY <1>1, <2>3 DEF QueueTyped
  <2>5. QueueTyped'
    <3>1. Inc(ring.avail) \in Idx /\ ring.buf + 1 \in Nat /\ drv.req + 1 \in Nat
      BY <1>1, RingTyped, IncIs
    <3>2. ring' \in [avail : Idx, used : Idx, buf : Nat, data : Nat, status : {0, 1, Fresh}]
      BY <1>1, <2>3, <3>1 DEF QueueTyped
    <3>3. drv' \in [at : {"idle", "wait"}, next : Idx, req : Nat, tries : Nat, alone : BOOLEAN, rx : Idx]
      BY <1>1, <2>3, <3>1 DEF QueueTyped
    <3> QED BY <1>1, <2>1, <3>2, <3>3 DEF QueueTyped
  <2>6. Counted' /\ TakenOnce' /\ dev.seen # ring'.avail
    BY <1>1, <2>1, <2>2, <2>4, Publishing
  <2>7. Published'
    BY <2>1, <2>4 DEF Published
  <2>8. NewestKept' /\ AloneKept' /\ AnswerKept' /\ ReceiveKept'
    BY <1>1, <2>1, <2>4, <2>6 DEF NewestKept, AloneKept, AnswerKept, ReceiveKept
  <2> QED BY <2>5, <2>6, <2>7, <2>8 DEF QueueInv
<1>4. CASE BypassPolled
  <2>1. kind = "net" /\ drv.at = "idle" /\ drv.req > 0 /\ phase' = "bypass" /\ UNCHANGED <<kind, drv, ring, dev, rxq, frame>>
    BY <1>1, <1>4 DEF BypassPolled, Published
  <2>2. PICK ok \in BOOLEAN : ok = (ring.used = ring.avail)
    OBVIOUS
  <2>3. answer' = [req |-> drv.req, ok |-> ok, alone |-> TRUE]
    BY <1>4, <2>2 DEF BypassPolled
  <2>4. QueueTyped'
    <3>1. answer' \in [req : Nat, ok : BOOLEAN, alone : BOOLEAN]
      BY <1>1, <2>3, RingTyped
    <3> QED BY <1>1, <2>1, <3>1 DEF QueueTyped
  <2>5. ok => drv.req \in dev.done
    BY <1>1, <2>1, <2>2, AnswerIsRight
  <2>6. AnswerKept'
    BY <2>1, <2>3, <2>5 DEF AnswerKept
  <2> QED BY <1>1, <2>1, <2>4, <2>6 DEF QueueInv, Published, TakenOnce, Counted, Outstanding, NewestKept, AloneKept, ReceiveKept
<1> QED BY <1>2, <1>3, <1>4

LEMMA NextQueue == QueueInv /\ [QueueNext]_qvars => QueueInv'
<1> SUFFICES ASSUME QueueInv, [QueueNext]_qvars PROVE QueueInv'
  OBVIOUS
<1>1. QueueTyped /\ Published /\ (kind = "blk" => phase = "standard") /\ (drv.at = "wait" => phase = "standard")
  BY DEF QueueInv, QueueTyped, Published
<1>2. CASE SubmitRequest
  BY <1>1, <1>2, SubmitKeeps DEF SubmitRequest
<1>3. CASE SubmitTxRequest
  BY <1>1, <1>3, SubmitKeeps DEF SubmitTxRequest, QueueTyped
<1>4. CASE HandleIo
  BY <1>1, <1>4, WaitKeeps DEF HandleIo, CompletionPending
<1>5. CASE HandleSendFrame
  <2>1. phase = "standard" /\ kind = "net"
    BY <1>1, <1>5 DEF HandleSendFrame, AfterWait
  <2> QED BY <1>5, <2>1, WaitKeeps DEF HandleSendFrame, TxCompletionPending
<1>6. CASE UNCHANGED qvars
  <2>1. QueueTyped'
    BY <1>1, <1>6 DEF qvars, QueueTyped
  <2> QED BY <1>6, <2>1 DEF qvars, QueueInv, Published, TakenOnce, Counted, Outstanding, NewestKept, AloneKept, AnswerKept, ReceiveKept
<1> QED BY <1>2, <1>3, <1>4, <1>5, <1>6, TakeKeeps, FinishKeeps, ReceiveKeeps, PollKeeps, BypassKeeps
        DEF QueueNext, QueueDriver

\* The inductive invariant of the queues.
THEOREM QueueInvariant == QueueSpec => []QueueInv
  BY InitQueue, NextQueue, PTL DEF QueueSpec

\* What the drivers answer is what their devices did: a frame reported sent was
\* sent, a block request that was alone and reported complete is done and its
\* data are in the buffer, a received frame has its own length; for indices of
\* any width that wrap, any ring, and requests given up on.
THEOREM AnswersAreTrue == QueueSpec => []AnswersMatchDevice
<1>1. QueueInv => AnswersMatchDevice
  BY DEF QueueInv, AnswerKept, ReceiveKept, AnswersMatchDevice
<1> QED BY <1>1, QueueInvariant, PTL
-----------------------------------------------------------------------------
(* The binding of a driver to its device *)

\* Every non-empty set of naturals has a least member.
LEMMA LeastNat ==
  ASSUME NEW S \in SUBSET Nat, S # {}
  PROVE  \E x \in S : \A y \in S : x <= y
<1> DEFINE R == {p \in Nat \X Nat : p[1] < p[2]}
<1>1. IsWellFoundedOn(R, Nat)
  BY NatLessThanWellFounded DEF OpToRel
<1>2. PICK x \in S : \A y \in S : ~ (<<y, x>> \in R)
  BY <1>1, WFMin
<1>3. \A y \in S : x \in Nat /\ y \in Nat /\ ~ (y < x)
  BY <1>2
<1> QED BY <1>3

\* Division by a positive number.
LEMMA Divided ==
  ASSUME NEW a \in Nat, NEW w \in Nat \ {0}
  PROVE  /\ a \div w \in Nat /\ a % w \in 0 .. w - 1
         /\ a = w * (a \div w) + (a % w)
  OBVIOUS

\* Only one quotient and remainder fit.
LEMMA DividesAs ==
  ASSUME NEW w \in Nat \ {0}, NEW q \in Nat, NEW r \in 0 .. w - 1, NEW a \in Nat, a = w * q + r
  PROVE  a \div w = q /\ a % w = r
<1>1. PICK x \in Nat : x = a \div w
  BY Divided
<1>2. PICK y \in 0 .. w - 1 : y = a % w
  BY Divided
<1>3. w * x + y = w * q + r
  BY <1>1, <1>2, Divided
<1>4. ~ (x < q)
  <2> SUFFICES ASSUME x < q PROVE FALSE
    OBVIOUS
  <2>1. PICK d \in Nat : q = x + 1 + d
    OBVIOUS
  <2>2. w * q = w * x + w + w * d
    BY <2>1
  <2>3. w * d \in Nat /\ w * x \in Nat /\ w * q \in Nat
    OBVIOUS
  <2> QED BY <1>3, <2>2, <2>3
<1>5. ~ (q < x)
  <2> SUFFICES ASSUME q < x PROVE FALSE
    OBVIOUS
  <2>1. PICK d \in Nat : x = q + 1 + d
    OBVIOUS
  <2>2. w * x = w * q + w + w * d
    BY <2>1
  <2>3. w * d \in Nat /\ w * x \in Nat /\ w * q \in Nat
    OBVIOUS
  <2> QED BY <1>3, <2>2, <2>3
<1>6. x = q
  BY <1>4, <1>5
<1>7. w * x = w * q /\ w * q \in Nat
  BY <1>6
<1> QED BY <1>1, <1>2, <1>3, <1>6, <1>7

\* The low word of a multiple of 16 is one, and so is the high part.
LEMMA AlignedLow ==
  ASSUME NEW a \in Nat, a % Flags = 0
  PROVE  (a % WordMod) % Flags = 0
<1> USE TransportAssumption DEF Flags
<1>1. PICK p \in Nat : a = 16 * p
  <2>1. a = 16 * (a \div 16) /\ a \div 16 \in Nat
    OBVIOUS
  <2> QED BY <2>1
<1>2. PICK k \in Nat : WordMod = 16 * k
  <2>1. WordMod = 16 * (WordMod \div 16) /\ WordMod \div 16 \in Nat
    OBVIOUS
  <2> QED BY <2>1
<1>3. PICK q \in Nat : q = a \div WordMod
  BY Divided
<1>4. PICK r \in 0 .. WordMod - 1 : r = a % WordMod
  BY Divided
<1>5. a = WordMod * q + r
  BY <1>3, <1>4, Divided
<1>6. PICK j \in Nat : j = k * q
  OBVIOUS
<1>7. WordMod * q = 16 * j
  BY <1>2, <1>6
<1>8. r = 16 * (p - j)
  BY <1>1, <1>5, <1>7
<1>9. r % 16 = 0
  BY <1>8
<1> QED BY <1>9, <1>4

\* The flag bits of a BAR word are masked off.
LEMMA AddressOf ==
  ASSUME NEW a \in Nat, a % Flags = 0, NEW f \in 0 .. 15
  PROVE  AddressBits(a + f) = a
  BY DEF AddressBits, Flags

\* A BAR register read back after all ones says its size: the two's complement.
LEMMA BarFound ==
  ASSUME NEW bar, BarOk(bar)
  PROVE  PciBarPhys(bar) = Decoded(bar)
<1> USE TransportAssumption
<1>1. CASE bar.size = 0
  BY <1>1 DEF PciBarPhys, Decoded, Mapped, BarLo, SizeLo, BarOk
<1>2. CASE bar.size # 0
  <2>1. PICK base \in Nat : base = bar.base
    BY DEF BarOk
  <2>2. PICK size \in Nat : size = bar.size /\ size # 0
    BY <1>2 DEF BarOk
  <2>3. PICK lo \in Nat : lo = base % WordMod /\ lo % 16 = 0
    <3>1. base % WordMod \in 0 .. WordMod - 1
      BY Divided
    <3>2. (base % WordMod) % 16 = 0
      BY <2>1, AlignedLow DEF BarOk, Flags
    <3> QED BY <3>1, <3>2
  <2>4. BarLo(bar) = lo + BarFlags(bar) /\ BarFlags(bar) \in 0 .. 15
    BY <1>2, <2>1, <2>3 DEF BarLo, BarFlags
  <2>5. PICK mask \in Nat : mask = SizeMask(bar) /\ mask % 16 = 0 /\ mask + size = WordMod * WordMod
    <3>1. PICK square \in Nat : square = WordMod * WordMod
      OBVIOUS
    <3>2. square % 16 = 0
      <4>1. PICK k \in Nat : WordMod = 16 * k
        <5>1. WordMod = 16 * (WordMod \div 16) /\ WordMod \div 16 \in Nat
          BY DEF Flags
        <5> QED BY <5>1
      <4>2. square = 16 * (k * WordMod)
        BY <3>1, <4>1
      <4>3. PICK j \in Nat : j = k * WordMod
        OBVIOUS
      <4> QED BY <4>2, <4>3
    <3>3. size < square
      <4>1. WordMod <= square
        BY <3>1
      <4> QED BY <3>1, <4>1, <2>2 DEF BarOk, Room
    <3>4. size % 16 = 0
      BY <2>2 DEF BarOk, Flags
    <3>5. square - size \in Nat /\ (square - size) % 16 = 0
      BY <3>2, <3>3, <3>4
    <3> QED BY <1>2, <2>2, <3>1, <3>5 DEF SizeMask
  <2>6. PICK mlo \in Nat : mlo = mask % WordMod /\ mlo % 16 = 0 /\ mlo < WordMod
    <3>1. mask % WordMod \in 0 .. WordMod - 1
      BY Divided
    <3>2. (mask % WordMod) % 16 = 0
      BY <2>5, AlignedLow DEF Flags
    <3> QED BY <3>1, <3>2
  <2>7. SizeLo(bar) = mlo + BarFlags(bar)
    BY <1>2, <2>5, <2>6 DEF SizeLo
  <2>8. AddressBits(BarLo(bar)) = lo /\ AddressBits(SizeLo(bar)) = mlo
    BY <2>3, <2>4, <2>6, <2>7, AddressOf DEF Flags
  <2>9. CASE bar.io
    <3>1. BarFlags(bar) = 1
      BY <2>9 DEF BarFlags, BarOk
    <3>2. BarLo(bar) % 2 = 1
      BY <2>3, <2>4, <3>1
    <3> QED BY <2>9, <3>2 DEF PciBarPhys, Decoded, Mapped
  <2>10. CASE ~bar.io /\ ~bar.wide
    <3>1. BarFlags(bar) = 0
      BY <2>10 DEF BarFlags
    <3>2. BarLo(bar) % 2 # 1 /\ (BarLo(bar) \div 2) % 4 # 2
      BY <2>3, <2>4, <3>1
    <3>3. base < WordMod /\ size < WordMod
      BY <1>2, <2>1, <2>2, <2>10 DEF BarOk, Room
    <3>4. lo = base
      <4>1. base = WordMod * 0 + base /\ base \in 0 .. WordMod - 1
        BY <3>3
      <4> QED BY <2>3, <4>1, DividesAs
    <3>5. mlo = WordMod - size
      <4>1. PICK w \in Nat : WordMod = w + 1
        <5>1. WordMod - 1 \in Nat
          OBVIOUS
        <5> QED BY <5>1
      <4>2. WordMod * WordMod = WordMod * w + WordMod
        BY <4>1
      <4>3. WordMod * w \in Nat
        OBVIOUS
      <4>4. mask = WordMod * w + (WordMod - size) /\ WordMod - size \in 0 .. WordMod - 1
        BY <2>5, <3>3, <2>2, <4>2, <4>3
      <4>5. PICK rest \in 0 .. WordMod - 1 : rest = WordMod - size
        BY <4>4
      <4>6. mask = WordMod * w + rest
        BY <4>4, <4>5
      <4>7. mask % WordMod = rest
        BY <4>6, DividesAs
      <4> QED BY <2>6, <4>5, <4>7
    <3>6. SizeLo(bar) # 0 /\ WordMod - AddressBits(SizeLo(bar)) = size
      BY <2>7, <2>8, <3>1, <3>3, <3>5
    <3> QED BY <1>2, <2>1, <2>2, <2>8, <2>10, <3>2, <3>4, <3>6 DEF PciBarPhys, Decoded, Mapped
  <2>11. CASE ~bar.io /\ bar.wide
    <3>1. BarFlags(bar) = 4
      BY <2>11 DEF BarFlags
    <3>2. BarLo(bar) % 2 # 1 /\ (BarLo(bar) \div 2) % 4 = 2
      BY <2>3, <2>4, <3>1
    <3>3. SizeHi(bar) * WordMod + AddressBits(SizeLo(bar)) = mask
      <4>1. PICK q \in Nat : q = mask \div WordMod
        BY <2>5, Divided
      <4>2. mask = WordMod * q + mlo
        BY <2>5, <2>6, <4>1, Divided
      <4>3. SizeHi(bar) = q
        BY <2>5, <4>1 DEF SizeHi
      <4> QED BY <2>8, <4>2, <4>3
    <3>4. AddressBits(BarLo(bar)) + WordMod * BarHi(bar) = base
      <4>1. PICK q \in Nat : q = base \div WordMod
        BY Divided
      <4>2. base = WordMod * q + lo
        BY <2>3, <4>1, Divided
      <4>3. BarHi(bar) = q
        BY <2>1, <4>1 DEF BarHi
      <4> QED BY <2>8, <4>2, <4>3
    <3>5. mask # 0 /\ WordMod * WordMod - mask = size
      <4>1. PICK square \in Nat : square = WordMod * WordMod
        OBVIOUS
      <4>2. size < square
        BY <2>2, <2>11, <4>1 DEF BarOk, Room
      <4> QED BY <2>5, <4>1, <4>2
    <3> QED BY <1>2, <2>1, <2>2, <2>11, <3>2, <3>3, <3>4, <3>5 DEF PciBarPhys, Decoded, Mapped
  <2> QED BY <2>9, <2>10, <2>11 DEF BarOk
<1> QED BY <1>1, <1>2
-----------------------------------------------------------------------------
\* What a capability may name.
WindowOk(h, x) ==
  \/ x = None
  \/ \E bar \in DOMAIN h.bars, offset \in Nat :
       /\ x = Some([bar |-> bar, offset |-> offset])
       /\ Mapped(h.bars[bar]) => offset < h.bars[bar].size

LayoutOk(h, l) == DOMAIN l = DOMAIN NoWindows /\ \A k \in DOMAIN NoWindows : WindowOk(h, l[k])

\* A device as HardwareAssumption has it.
DeviceOk(h) ==
  /\ h.kind \in {"blk", "net"} /\ h.pci \in BOOLEAN /\ h.max \in Nat
  /\ h.first \in DOMAIN h.cap \cup {0}
  /\ \A b \in DOMAIN h.bars : BarOk(h.bars[b])
  /\ \A p \in DOMAIN h.cap : CapOk(h, h.cap[p])

\* One BAR per slot, where it is, and no larger than the slot.
SlotOk(h, s) ==
  \E bar \in DOMAIN h.bars :
    s = [bar |-> bar, phys |-> h.bars[bar].base] /\ Mapped(h.bars[bar]) /\ h.bars[bar].size <= Stride
SlotsOk(h, slots) ==
  /\ Len(slots) \in Nat /\ slots = [i \in 1 .. Len(slots) |-> slots[i]]
  /\ \A i \in 1 .. Len(slots) : SlotOk(h, slots[i])
BuilderOk(h, b) == b = [pools |-> b.pools, slots |-> b.slots] /\ SlotsOk(h, b.slots)

\* The slots only grow.
Grows(s, t) == Len(s) <= Len(t) /\ \A i \in 1 .. Len(s) : t[i] = s[i]

\* map_pci_bar hands out the start of a slot that holds this BAR.
LEMMA MapsBar ==
  ASSUME NEW h, DeviceOk(h), NEW b, BuilderOk(h, b), NEW bar \in DOMAIN h.bars,
         NEW r, r = MapPciBar(h, b, bar)
  PROVE  /\ BuilderOk(h, r.b) /\ Grows(b.slots, r.b.slots)
         /\ \/ r.va = None
            \/ \E i \in 1 .. Len(r.b.slots) : r.va = Some((BarBase + i) * Stride) /\ r.b.slots[i].bar = bar
<1> DEFINE known == {i \in DOMAIN b.slots : b.slots[i].bar = bar}
<1>1. DOMAIN b.slots = 1 .. Len(b.slots) /\ Len(b.slots) \in Nat
  BY DEF BuilderOk, SlotsOk
<1>2. PICK K : K = known
  OBVIOUS
<1>3. PICK P : P = PciBarPhys(h.bars[bar])
  OBVIOUS
<1>4. r = CASE K # {} -> [b |-> b, va |-> Some((BarBase + (CHOOSE i \in K : TRUE)) * Stride)]
            [] K = {} /\ (Len(b.slots) >= MaxBars \/ P = None) -> [b |-> b, va |-> None]
            [] K = {} /\ Len(b.slots) < MaxBars /\ P # None ->
                 IF P[1].size > Stride \/ b.pools = 0 THEN [b |-> b, va |-> None]
                 ELSE [b  |-> [[b EXCEPT !.pools = @ - 1] EXCEPT !.slots = Append(@, [bar |-> bar, phys |-> P[1].base])],
                       va |-> Some((BarBase + Len(b.slots) + 1) * Stride)]
  BY <1>2, <1>3, Zenon DEF MapPciBar
<1>5. Grows(b.slots, b.slots)
  BY <1>1 DEF Grows
<1>6. CASE K # {}
  <2>1. PICK i \in K : i = CHOOSE j \in K : TRUE
    BY <1>6
  <2>2. i \in 1 .. Len(b.slots) /\ b.slots[i].bar = bar
    BY <1>1, <1>2, <2>1
  <2>3. r = [b |-> b, va |-> Some((BarBase + i) * Stride)]
    BY <1>4, <1>6, <2>1
  <2> QED BY <1>5, <2>2, <2>3
<1>7. CASE K = {} /\ (Len(b.slots) >= MaxBars \/ P = None)
  <2>1. r = [b |-> b, va |-> None]
    <3>1. ~(Len(b.slots) < MaxBars /\ P # None)
      BY <1>1, <1>7, TransportAssumption
    <3> QED BY <1>4, <1>7, <3>1
  <2> QED BY <1>5, <2>1
<1>8. CASE K = {} /\ Len(b.slots) < MaxBars /\ P # None
  <2>1. Mapped(h.bars[bar]) /\ P = Some([base |-> h.bars[bar].base, size |-> h.bars[bar].size])
    BY <1>3, <1>8, BarFound DEF DeviceOk, Decoded
  <2>2. P[1].base = h.bars[bar].base /\ P[1].size = h.bars[bar].size
    BY <2>1 DEF Some
  <2>3. ~(Len(b.slots) >= MaxBars)
    BY <1>1, <1>8, TransportAssumption
  <2>4. CASE h.bars[bar].size > Stride \/ b.pools = 0
    <3>1. r = [b |-> b, va |-> None]
      BY <1>4, <1>8, <2>2, <2>3, <2>4
    <3> QED BY <1>5, <3>1
  <2>5. CASE ~(h.bars[bar].size > Stride \/ b.pools = 0)
    <3> DEFINE s == [bar |-> bar, phys |-> h.bars[bar].base]
               t == Append(b.slots, s)
               n == Len(b.slots) + 1
    <3>1. r = [b  |-> [[b EXCEPT !.pools = @ - 1] EXCEPT !.slots = Append(@, [bar |-> bar, phys |-> P[1].base])],
               va |-> Some((BarBase + Len(b.slots) + 1) * Stride)]
      BY <1>4, <1>8, <2>2, <2>3, <2>5
    <3>2. r.b = [pools |-> b.pools - 1, slots |-> t]
      <4>1. PICK p, q : b = [pools |-> p, slots |-> q]
        BY DEF BuilderOk
      <4>2. r.b = [[b EXCEPT !.pools = @ - 1] EXCEPT !.slots = Append(@, [bar |-> bar, phys |-> P[1].base])]
        BY <3>1
      <4>3. r.b = [[b EXCEPT !.pools = @ - 1] EXCEPT !.slots = Append(@, s)]
        BY <2>2, <4>2
      <4> HIDE DEF s
      <4>4. r.b = [pools |-> p - 1, slots |-> Append(q, s)] /\ b.pools = p /\ b.slots = q
        BY <4>1, <4>3
      <4> QED BY <4>4
    <3>3. r.va = Some((BarBase + n) * Stride)
      <4>1. BarBase + n = BarBase + Len(b.slots) + 1
        BY <1>1 DEF BarBase
      <4> QED BY <3>1, <4>1
    <3>4. Len(t) = n /\ t = [i \in 1 .. n |-> IF i = n THEN s ELSE b.slots[i]]
      BY <1>1
    <3>5. SlotOk(h, s)
      <4>1. h.bars[bar].size <= Stride
        BY <2>5, TransportAssumption DEF DeviceOk, BarOk
      <4> QED BY <2>1, <4>1 DEF SlotOk
    <3>6. SlotsOk(h, t)
      <4> HIDE DEF s
      <4>1. \A i \in 1 .. n : SlotOk(h, t[i])
        BY <1>1, <3>4, <3>5 DEF BuilderOk, SlotsOk
      <4>2. t = [i \in 1 .. Len(t) |-> t[i]]
        BY <3>4
      <4>3. Len(t) \in Nat /\ \A i \in 1 .. Len(t) : SlotOk(h, t[i])
        <5> HIDE DEF t
        <5> QED BY <1>1, <3>4, <4>1
      <4> HIDE DEF t
      <4> QED BY <4>2, <4>3, Zenon DEF SlotsOk
    <3>7. Grows(b.slots, t)
      BY <1>1, <3>4 DEF Grows
    <3>8. n \in 1 .. Len(t) /\ t[n].bar = bar
      BY <1>1, <3>4
    <3> HIDE DEF t, s
    <3> QED BY <3>2, <3>3, <3>6, <3>7, <3>8 DEF BuilderOk
  <2> QED BY <2>4, <2>5
<1>9. Len(b.slots) >= MaxBars \/ Len(b.slots) < MaxBars
  BY <1>1, TransportAssumption
<1> QED BY <1>6, <1>7, <1>8, <1>9

LEMMA GrowsOn ==
  ASSUME NEW h, NEW s, NEW t, NEW u, SlotsOk(h, s), SlotsOk(h, t), SlotsOk(h, u), Grows(s, t), Grows(t, u)
  PROVE  Grows(s, u)
<1>1. Len(s) \in Nat /\ Len(t) \in Nat /\ Len(u) \in Nat
  BY DEF SlotsOk
<1> QED BY <1>1 DEF Grows

\* va is where window x is in the driver's address space.
Reaches(slots, va, x) ==
  x # None /\ \E i \in 1 .. Len(slots) : va = (BarBase + i) * Stride + x[1].offset /\ slots[i].bar = x[1].bar

\* A window stays where it is when more BARs are mapped.
LEMMA StillReaches ==
  ASSUME NEW h, NEW s, NEW t, NEW va, NEW x, SlotsOk(h, s), SlotsOk(h, t), Grows(s, t), Reaches(s, va, x)
  PROVE  Reaches(t, va, x)
<1>1. Len(s) \in Nat /\ Len(t) \in Nat
  BY DEF SlotsOk
<1>2. PICK i \in 1 .. Len(s) : va = (BarBase + i) * Stride + x[1].offset /\ s[i].bar = x[1].bar
  BY DEF Reaches
<1>3. i \in 1 .. Len(t) /\ t[i] = s[i]
  BY <1>1 DEF Grows
<1> QED BY <1>2, <1>3 DEF Reaches

\* An offset inside a BAR that is no larger than its slot stays in that slot.
LEMMA ReachesItsBar ==
  ASSUME NEW h, DeviceOk(h), NEW slots, SlotsOk(h, slots), NEW x, WindowOk(h, x), NEW va, Reaches(slots, va, x)
  PROVE  DriverPhys(slots, va) = Some(h.bars[x[1].bar].base + x[1].offset)
<1>1. PICK i \in 1 .. Len(slots) : va = (BarBase + i) * Stride + x[1].offset /\ slots[i].bar = x[1].bar
  BY DEF Reaches
<1>2. PICK bar \in DOMAIN h.bars, offset \in Nat :
        /\ x = Some([bar |-> bar, offset |-> offset])
        /\ Mapped(h.bars[bar]) => offset < h.bars[bar].size
  BY DEF Reaches, WindowOk
<1>3. x[1].bar = bar /\ x[1].offset = offset
  BY <1>2 DEF Some
<1>4. /\ slots[i].phys = h.bars[bar].base /\ Mapped(h.bars[bar]) /\ h.bars[bar].size <= Stride
  <2>1. PICK c \in DOMAIN h.bars : /\ slots[i] = [bar |-> c, phys |-> h.bars[c].base]
                                   /\ Mapped(h.bars[c]) /\ h.bars[c].size <= Stride
    BY DEF SlotsOk, SlotOk
  <2>2. c = bar
    BY <1>1, <1>3, <2>1
  <2> QED BY <2>1, <2>2
<1>5. offset \in 0 .. Stride - 1 /\ i \in Nat /\ Len(slots) \in Nat
  <2>1. offset < h.bars[bar].size
    BY <1>2, <1>4
  <2>2. Len(slots) \in Nat
    BY DEF SlotsOk
  <2>3. offset < Stride
    <3>1. h.bars[bar].size \in Nat
      BY DEF BarOk, DeviceOk
    <3> QED BY <1>4, <2>1, <3>1, TransportAssumption
  <2> QED BY <2>2, <2>3, TransportAssumption
<1>6. PICK a \in Nat : a = va /\ a = Stride * (1 + i) + offset
  <2>1. (BarBase + i) * Stride = Stride * (1 + i) /\ Stride * (1 + i) \in Nat
    BY <1>5, TransportAssumption DEF BarBase
  <2> QED BY <1>1, <1>3, <1>5, <2>1
<1>7. a \div Stride = 1 + i /\ a % Stride = offset
  <2>1. PICK q \in Nat : q = 1 + i
    BY <1>5
  <2>2. a = Stride * q + offset
    BY <1>6, <2>1
  <2>3. Stride \in Nat \ {0}
    BY TransportAssumption
  <2>4. a \div Stride = q /\ a % Stride = offset
    BY <1>5, <2>2, <2>3, DividesAs
  <2> QED BY <2>1, <2>4
<1>8. (va \div Stride) - BarBase = i /\ va % Stride = offset
  BY <1>5, <1>6, <1>7 DEF BarBase
<1>9. i \in DOMAIN slots
  BY DEF SlotsOk
<1> QED BY <1>3, <1>4, <1>8, <1>9 DEF DriverPhys

\* The address resolve returns is 0 or where the window is.
LEMMA ResolvesBar ==
  ASSUME NEW h, DeviceOk(h), NEW b, BuilderOk(h, b), NEW x, WindowOk(h, x), NEW r, r = ResolveWindow(h, b, x)
  PROVE  /\ BuilderOk(h, r.b) /\ Grows(b.slots, r.b.slots)
         /\ r.va # 0 => Reaches(r.b.slots, r.va, x)
<1>1. CASE x = None
  <2>1. r = [b |-> b, va |-> 0]
    BY <1>1 DEF ResolveWindow
  <2>2. Grows(b.slots, b.slots)
    BY DEF BuilderOk, SlotsOk, Grows
  <2> QED BY <2>1, <2>2
<1>2. CASE x # None
  <2>1. x[1].bar \in DOMAIN h.bars
    BY <1>2 DEF WindowOk, Some
  <2>2. PICK m : m = MapPciBar(h, b, x[1].bar)
    OBVIOUS
  <2>3. r = [b |-> m.b, va |-> IF m.va = None THEN 0 ELSE m.va[1] + x[1].offset]
    BY <1>2, <2>2 DEF ResolveWindow
  <2>4. /\ BuilderOk(h, m.b) /\ Grows(b.slots, m.b.slots)
        /\ \/ m.va = None
           \/ \E i \in 1 .. Len(m.b.slots) : m.va = Some((BarBase + i) * Stride) /\ m.b.slots[i].bar = x[1].bar
    BY <2>1, <2>2, MapsBar
  <2>5. ASSUME r.va # 0 PROVE Reaches(m.b.slots, r.va, x)
    <3>1. PICK i \in 1 .. Len(m.b.slots) : m.va = Some((BarBase + i) * Stride) /\ m.b.slots[i].bar = x[1].bar
      BY <2>3, <2>4, <2>5
    <3>2. m.va[1] = (BarBase + i) * Stride /\ m.va # None
      BY <3>1 DEF Some, None
    <3>3. r.va = (BarBase + i) * Stride + x[1].offset
      BY <2>3, <3>2
    <3> QED BY <1>2, <3>1, <3>3 DEF Reaches
  <2> QED BY <2>3, <2>4, <2>5
<1> QED BY <1>1, <1>2
-----------------------------------------------------------------------------
\* The walk's recursion has a solution: the least number of visits without one
\* would extend the solution for one less.
Walks(f, h, r, N) == f = [i \in 0 .. N |-> IF i = 0 THEN r ELSE VisitCapability(h, f[i - 1])]

LEMMA WalkExists ==
  ASSUME NEW h, NEW r, NEW N \in Nat
  PROVE  \E f : Walks(f, h, r, N)
<1> DEFINE Solves(g, n) == \A i \in 0 .. n : g[i] = IF i = 0 THEN r ELSE VisitCapability(h, g[i - 1])
<1> DEFINE Bad == {n \in Nat : ~ \E g : Solves(g, n)}
<1>1. Bad = {}
  <2> SUFFICES ASSUME Bad # {} PROVE FALSE
    OBVIOUS
  <2>1. PICK n \in Bad : \A m \in Bad : n <= m
    <3>1. Bad \in SUBSET Nat
      OBVIOUS
    <3> HIDE DEF Bad
    <3> QED BY <3>1, LeastNat
  <2>2. CASE n = 0
    <3>1. PICK g : g = [i \in 0 .. 0 |-> r]
      OBVIOUS
    <3>2. Solves(g, 0)
      BY <3>1
    <3> QED BY <2>1, <2>2, <3>2
  <2>3. CASE n # 0
    <3>1. n - 1 \in Nat /\ n - 1 \notin Bad
      <4>1. n \in Nat
        BY <2>1
      <4> HIDE DEF Bad
      <4> QED BY <2>1, <2>3, <4>1
    <3>2. PICK g : Solves(g, n - 1)
      BY <3>1
    <3>3. PICK e : e = [i \in 0 .. n |-> IF i = n THEN VisitCapability(h, g[n - 1]) ELSE g[i]]
      OBVIOUS
    <3>4. Solves(e, n)
      <4> SUFFICES ASSUME NEW i \in 0 .. n
                   PROVE  e[i] = IF i = 0 THEN r ELSE VisitCapability(h, e[i - 1])
        OBVIOUS
      <4>1. CASE i = n
        BY <2>3, <3>1, <3>3, <4>1
      <4>2. CASE i # n
        <5>1. i \in 0 .. n - 1 /\ (i # 0 => i - 1 \in 0 .. n - 1 /\ i - 1 # n /\ i - 1 \in 0 .. n)
          BY <3>1, <4>2
        <5>2. g[i] = IF i = 0 THEN r ELSE VisitCapability(h, g[i - 1])
          BY <3>2, <5>1
        <5>3. e[i] = g[i] /\ (i # 0 => e[i - 1] = g[i - 1])
          BY <3>3, <4>2, <5>1
        <5> QED BY <5>2, <5>3
      <4> QED BY <4>1, <4>2
    <3> QED BY <2>1, <3>4
  <2> QED BY <2>2, <2>3
<1>2. PICK g : Solves(g, N)
  BY <1>1
<1>3. PICK f : f = [i \in 0 .. N |-> g[i]]
  OBVIOUS
<1>4. f = [i \in 0 .. N |-> IF i = 0 THEN r ELSE VisitCapability(h, f[i - 1])]
  <2> SUFFICES ASSUME NEW i \in 0 .. N
               PROVE  f[i] = IF i = 0 THEN r ELSE VisitCapability(h, f[i - 1])
    BY <1>3
  <2>1. i # 0 => i - 1 \in 0 .. N
    OBVIOUS
  <2> QED BY <1>2, <1>3, <2>1
<1> QED BY <1>4 DEF Walks

\* A capability is visited only where the list points, and names a window.
VisitOk(h, w) ==
  w = [ptr |-> w.ptr, layout |-> w.layout] /\ w.ptr \in DOMAIN h.cap \cup {0} /\ LayoutOk(h, w.layout)

\* One visit records a window inside a BAR of the device.
LEMMA VisitKeeps ==
  ASSUME NEW h, DeviceOk(h), NEW w, VisitOk(h, w)
  PROVE  VisitOk(h, VisitCapability(h, w))
<1>1. CASE w.ptr = 0
  BY <1>1 DEF VisitCapability
<1>2. CASE w.ptr # 0
  <2>1. PICK c : c = h.cap[w.ptr] /\ CapOk(h, c)
    BY <1>2 DEF VisitOk, DeviceOk
  <2>2. PICK l : l = IF c.kind \in DOMAIN NoWindows
                     THEN [w.layout EXCEPT ![c.kind] = Some([bar |-> c.bar, offset |-> c.offset])]
                     ELSE w.layout
    OBVIOUS
  <2>3. VisitCapability(h, w) = [ptr |-> c.next, layout |-> l]
    BY <1>2, <2>1, <2>2, Zenon DEF VisitCapability
  <2>4. LayoutOk(h, l)
    <3>1. CASE c.kind \notin DOMAIN NoWindows
      BY <2>2, <3>1 DEF VisitOk
    <3>2. CASE c.kind \in DOMAIN NoWindows
      <4>1. PICK x : x = Some([bar |-> c.bar, offset |-> c.offset])
        OBVIOUS
      <4>2. WindowOk(h, x)
        BY <2>1, <3>2, <4>1 DEF CapOk, WindowOk
      <4>3. l = [w.layout EXCEPT ![c.kind] = x] /\ DOMAIN w.layout = DOMAIN NoWindows
        BY <2>2, <3>2, <4>1 DEF VisitOk, LayoutOk
      <4>4. DOMAIN l = DOMAIN NoWindows
        BY <4>3
      <4>5. \A k \in DOMAIN NoWindows : l[k] = IF k = c.kind THEN x ELSE w.layout[k]
        BY <4>3
      <4> QED BY <4>2, <4>4, <4>5 DEF VisitOk, LayoutOk
    <3> QED BY <3>1, <3>2
  <2>5. c.next \in DOMAIN h.cap \cup {0}
    BY <2>1 DEF CapOk
  <2> QED BY <2>3, <2>4, <2>5 DEF VisitOk
<1> QED BY <1>1, <1>2

\* The layout the walk returns names windows of this device.
LEMMA WalkKeeps ==
  ASSUME NEW h, DeviceOk(h)
  PROVE  LayoutOk(h, WalkVirtioPciCapabilities(h))
<1>1. PICK N \in Nat : N = WalkLimit
  BY TransportAssumption
<1>2. PICK r : r = [ptr |-> h.first, layout |-> NoWindows]
  OBVIOUS
<1>3. PICK W : W = CHOOSE f : f = [i \in 0 .. WalkLimit |-> IF i = 0 THEN [ptr |-> h.first, layout |-> NoWindows]
                                                           ELSE VisitCapability(h, f[i - 1])]
  OBVIOUS
<1>4. WalkVirtioPciCapabilities(h) = W[N].layout
  BY <1>1, <1>3 DEF WalkVirtioPciCapabilities
<1>5. W = [i \in 0 .. N |-> IF i = 0 THEN r ELSE VisitCapability(h, W[i - 1])]
  <2>1. W = CHOOSE f : Walks(f, h, r, N)
    BY <1>1, <1>2, <1>3, Zenon DEF Walks
  <2>2. \E f : Walks(f, h, r, N)
    BY WalkExists
  <2>3. Walks(W, h, r, N)
    BY <2>1, <2>2, Zenon
  <2> QED BY <2>3, Zenon DEF Walks
<1>6. VisitOk(h, r)
  BY <1>2 DEF VisitOk, LayoutOk, NoWindows, WindowOk, DeviceOk
<1> DEFINE Bad == {i \in 0 .. N : ~VisitOk(h, W[i])}
<1>7. Bad = {}
  <2> SUFFICES ASSUME Bad # {} PROVE FALSE
    OBVIOUS
  <2>1. PICK n \in Bad : \A m \in Bad : n <= m
    <3>1. Bad \in SUBSET Nat
      OBVIOUS
    <3> HIDE DEF Bad
    <3> QED BY <3>1, LeastNat
  <2>2. CASE n = 0
    BY <1>5, <1>6, <2>1, <2>2
  <2>3. CASE n # 0
    <3>1. n - 1 \in 0 .. N /\ n \in 1 .. N /\ n - 1 \notin Bad
      BY <2>1, <2>3
    <3>2. VisitOk(h, W[n - 1])
      BY <3>1
    <3>3. W[n] = VisitCapability(h, W[n - 1])
      BY <1>5, <2>3, <3>1
    <3>4. VisitOk(h, W[n])
      BY <3>2, <3>3, VisitKeeps
    <3> QED BY <2>1, <3>4
  <2> QED BY <2>2, <2>3
<1>8. VisitOk(h, W[N])
  BY <1>7
<1> QED BY <1>4, <1>8 DEF VisitOk

\* The registers of the two queues.
Pair(q) == q = [j \in {0, 1} |-> q[j]]

Sets(p, q, i, c) == p = [q EXCEPT ![i] = c]

\* Writing one queue's registers leaves the other's alone.
LEMMA PairSet ==
  ASSUME NEW q, Pair(q), NEW i \in {0, 1}, NEW c, NEW p, Sets(p, q, i, c)
  PROVE  Pair(p) /\ p[i] = c /\ \A j \in {0, 1} \ {i} : p[j] = q[j]
<1>1. DOMAIN q = {0, 1}
  BY DEF Pair
<1> QED BY <1>1 DEF Pair, Sets

\* Registers with this status and these queues; the registers of one queue.
RegsOf(regs, S, q) == Pair(q) /\ \E sel : regs = [status |-> S, sel |-> sel, q |-> q]
IsQueue(e)         == \E e1, e2, e3, e4 : e = [size |-> e1, rings |-> e2, vector |-> e3, on |-> e4]

\* The queue of a driver that is ready.
QueueReady(h, vector, i, e) ==
  e.rings = Some(i) /\ e.size = QueueSize /\ e.on = TRUE /\ (h.pci => e.vector = vector)

\* Queue i was set up and the other left as it was.
SetUpFrom(r, S, q, h, vector, i) ==
  \E p : RegsOf(r, S, p) /\ QueueReady(h, vector, i, p[i]) /\ \A j \in {0, 1} \ {i} : p[j] = q[j]

\* A queue that is selected and set up has its own rings, and is the only one
\* touched; one that is too small fails the device.
LEMMA SetsUp ==
  ASSUME NEW h, NEW vector, NEW i \in {0, 1}, NEW regs, NEW S, NEW q, RegsOf(regs, S, q), IsQueue(q[i]),
         NEW r, r = SetUpQueue(regs, h, vector, i)
  PROVE  IF h.max < QueueSize THEN r.status = {"FAILED"} ELSE SetUpFrom(r, S, q, h, vector, i)
<1>1. PICK sel : regs = [status |-> S, sel |-> sel, q |-> q]
  BY DEF RegsOf
<1>2. PICK e1, e2, e3, e4 : q[i] = [size |-> e1, rings |-> e2, vector |-> e3, on |-> e4]
  BY DEF IsQueue
<1>3. Pair(q)
  BY DEF RegsOf
<1>4. PICK v : v = IF h.pci THEN vector ELSE e3
  OBVIOUS
<1>5. PICK s : s = WriteQueueMsixVector(SelectQueue(regs, i), h.pci, vector)
  OBVIOUS
<1>6. SelectQueue(regs, i) = [status |-> S, sel |-> i, q |-> q]
  BY <1>1 DEF SelectQueue
<1>7. \E p : /\ s = [status |-> S, sel |-> i, q |-> p] /\ Pair(p)
             /\ p[i] = [size |-> e1, rings |-> e2, vector |-> v, on |-> e4]
             /\ \A j \in {0, 1} \ {i} : p[j] = q[j]
  <2>1. CASE h.pci
    <3>1. PICK n : n = [size |-> e1, rings |-> e2, vector |-> vector, on |-> e4]
      OBVIOUS
    <3>2. PICK p : p = [q EXCEPT ![i] = n]
      OBVIOUS
    <3>3. p = [q EXCEPT ![i].vector = vector]
      <4>1. n = [q[i] EXCEPT !.vector = vector]
        BY <1>2, <3>1
      <4> QED BY <3>2, <4>1, Zenon
    <3>4. s = [status |-> S, sel |-> i, q |-> p]
      BY <1>5, <1>6, <2>1, <3>3 DEF WriteQueueMsixVector
    <3>5. Sets(p, q, i, n)
      BY <3>2 DEF Sets
    <3>6. Pair(p) /\ p[i] = n /\ \A j \in {0, 1} \ {i} : p[j] = q[j]
      BY <1>3, <3>5, PairSet
    <3> QED BY <1>4, <2>1, <3>1, <3>4, <3>6
  <2>2. CASE ~h.pci
    BY <1>2, <1>3, <1>4, <1>5, <1>6, <2>2 DEF WriteQueueMsixVector
  <2> QED BY <2>1, <2>2
<1>8. PICK p : /\ s = [status |-> S, sel |-> i, q |-> p] /\ Pair(p)
               /\ p[i] = [size |-> e1, rings |-> e2, vector |-> v, on |-> e4]
               /\ \A j \in {0, 1} \ {i} : p[j] = q[j]
  BY <1>7
<1>9. CASE h.max < QueueSize
  BY <1>5, <1>8, <1>9 DEF SetUpQueue, WriteStatus
<1>10. CASE ~(h.max < QueueSize)
  <2>1. r = EnableQueue(WriteQueueAddrs(WriteQueueSize(s), i))
    BY <1>5, <1>10, Zenon DEF SetUpQueue
  <2>2. PICK a : a = [p EXCEPT ![i] = [size |-> QueueSize, rings |-> e2, vector |-> v, on |-> e4]]
    OBVIOUS
  <2>3. Pair(a) /\ a[i] = [size |-> QueueSize, rings |-> e2, vector |-> v, on |-> e4]
        /\ \A j \in {0, 1} \ {i} : a[j] = q[j]
    <3>1. PICK n : n = [size |-> QueueSize, rings |-> e2, vector |-> v, on |-> e4]
      OBVIOUS
    <3>2. Sets(a, p, i, n) /\ Pair(p)
      BY <1>8, <2>2, <3>1 DEF Sets
    <3>3. Pair(a) /\ a[i] = n /\ \A j \in {0, 1} \ {i} : a[j] = p[j]
      BY <3>2, PairSet
    <3> QED BY <1>8, <3>1, <3>3
  <2>4. WriteQueueSize(s) = [status |-> S, sel |-> i, q |-> a]
    <3>1. a = [p EXCEPT ![i].size = QueueSize]
      <4>1. [size |-> QueueSize, rings |-> e2, vector |-> v, on |-> e4] = [p[i] EXCEPT !.size = QueueSize]
        BY <1>8
      <4> QED BY <2>2, <4>1, Zenon
    <3> QED BY <1>8, <3>1 DEF WriteQueueSize
  <2>5. PICK b : b = [a EXCEPT ![i] = [size |-> QueueSize, rings |-> Some(i), vector |-> v, on |-> e4]]
    OBVIOUS
  <2>6. Pair(b) /\ b[i] = [size |-> QueueSize, rings |-> Some(i), vector |-> v, on |-> e4]
        /\ \A j \in {0, 1} \ {i} : b[j] = q[j]
    <3>1. PICK n : n = [size |-> QueueSize, rings |-> Some(i), vector |-> v, on |-> e4]
      OBVIOUS
    <3>2. Sets(b, a, i, n) /\ Pair(a)
      BY <2>3, <2>5, <3>1 DEF Sets
    <3>3. Pair(b) /\ b[i] = n /\ \A j \in {0, 1} \ {i} : b[j] = a[j]
      BY <3>2, PairSet
    <3> QED BY <2>3, <3>1, <3>3
  <2>7. WriteQueueAddrs(WriteQueueSize(s), i) = [status |-> S, sel |-> i, q |-> b]
    <3>1. b = [a EXCEPT ![i].rings = Some(i)]
      <4>1. [size |-> QueueSize, rings |-> Some(i), vector |-> v, on |-> e4] = [a[i] EXCEPT !.rings = Some(i)]
        BY <2>3
      <4> QED BY <2>5, <4>1, Zenon
    <3> QED BY <2>4, <3>1 DEF WriteQueueAddrs
  <2>8. PICK c : c = [b EXCEPT ![i] = [size |-> QueueSize, rings |-> Some(i), vector |-> v, on |-> TRUE]]
    OBVIOUS
  <2>9. Pair(c) /\ c[i] = [size |-> QueueSize, rings |-> Some(i), vector |-> v, on |-> TRUE]
        /\ \A j \in {0, 1} \ {i} : c[j] = q[j]
    <3>1. PICK n : n = [size |-> QueueSize, rings |-> Some(i), vector |-> v, on |-> TRUE]
      OBVIOUS
    <3>2. Sets(c, b, i, n) /\ Pair(b)
      BY <2>6, <2>8, <3>1 DEF Sets
    <3>3. Pair(c) /\ c[i] = n /\ \A j \in {0, 1} \ {i} : c[j] = b[j]
      BY <3>2, PairSet
    <3> QED BY <2>6, <3>1, <3>3
  <2>10. r = [status |-> S, sel |-> i, q |-> c]
    <3>1. PICK t : t = TRUE
      OBVIOUS
    <3>2. [size |-> QueueSize, rings |-> Some(i), vector |-> v, on |-> t] = [b[i] EXCEPT !.on = t]
      BY <2>6
    <3>3. c = [b EXCEPT ![i].on = t]
      BY <2>8, <3>1, <3>2, Zenon
    <3>4. PICK x : x = [status |-> S, sel |-> i, q |-> b]
      OBVIOUS
    <3>5. [x EXCEPT !.q[x.sel].on = t] = [status |-> S, sel |-> i, q |-> c]
      BY <3>3, <3>4
    <3>6. r = [x EXCEPT !.q[x.sel].on = t]
      BY <2>1, <2>7, <3>1, <3>4, Zenon DEF EnableQueue
    <3> QED BY <3>5, <3>6
  <2>11. RegsOf(r, S, c)
    BY <2>9, <2>10 DEF RegsOf
  <2>12. QueueReady(h, vector, i, c[i])
    BY <1>4, <2>9 DEF QueueReady
  <2>13. SetUpFrom(r, S, q, h, vector, i)
    BY <2>9, <2>11, <2>12, Zenon DEF SetUpFrom
  <2> QED BY <1>10, <2>13
<1> QED BY <1>9, <1>10

\* The device after its reset.
LEMMA FreshIs ==
  /\ "DRIVER_OK" \notin FreshRegs.status
  /\ \A S : RegsOf(WriteStatus(FreshRegs, S), S, FreshRegs.q) /\ WriteStatus(FreshRegs, S).status = S
  /\ \A i \in {0, 1} : IsQueue(FreshRegs.q[i])
<1>1. PICK e : e = [size |-> 0, rings |-> None, vector |-> NoVector, on |-> FALSE]
  OBVIOUS
<1>2. FreshRegs = [status |-> {}, sel |-> 0, q |-> [i \in {0, 1} |-> e]]
  BY <1>1, Zenon DEF FreshRegs
<1>3. Pair(FreshRegs.q) /\ \A i \in {0, 1} : FreshRegs.q[i] = e
  BY <1>2 DEF Pair
<1>4. "DRIVER_OK" \notin FreshRegs.status
  BY <1>2
<1>5. ASSUME NEW S PROVE RegsOf(WriteStatus(FreshRegs, S), S, FreshRegs.q) /\ WriteStatus(FreshRegs, S).status = S
  <2>1. WriteStatus(FreshRegs, S) = [status |-> S, sel |-> 0, q |-> FreshRegs.q]
    BY <1>2 DEF WriteStatus
  <2>2. RegsOf(WriteStatus(FreshRegs, S), S, FreshRegs.q)
    BY <1>3, <2>1, Zenon DEF RegsOf
  <2>3. WriteStatus(FreshRegs, S).status = S
    BY <2>1
  <2> QED BY <2>2, <2>3
<1>6. IsQueue(e)
  BY <1>1, Zenon DEF IsQueue
<1> QED BY <1>3, <1>4, <1>5, <1>6

\* What a status write leaves.
LEMMA LastWrite ==
  ASSUME NEW regs, NEW S, NEW T, NEW q, RegsOf(regs, S, q)
  PROVE  /\ regs.status = S
         /\ WriteStatus(regs, T).status = T /\ WriteStatus(regs, T).q = q
  BY DEF RegsOf, WriteStatus

\* What a probe may answer.
ProbeOk(h, vector, p, queues) ==
  IF p.ok THEN p.regs.status = Acked \cup {"DRIVER_OK"} /\ \A i \in queues : QueueReady(h, vector, i, p.regs.q[i])
  ELSE "DRIVER_OK" \notin p.regs.status

\* What the probe makes of the registers its queues left.
LEMMA ProbeEnds ==
  ASSUME NEW h, NEW vector, NEW p, NEW queues, NEW regs,
         p = CASE ~Identified(h) -> [ok |-> FALSE, regs |-> FreshRegs]
               [] Identified(h) /\ ~h.featuresOk -> [ok |-> FALSE, regs |-> WriteStatus(FreshRegs, {"FAILED"})]
               [] Identified(h) /\ h.featuresOk ->
                    IF "FAILED" \in regs.status THEN [ok |-> FALSE, regs |-> regs]
                    ELSE [ok |-> TRUE, regs |-> WriteStatus(regs, Acked \cup {"DRIVER_OK"})],
         \/ regs.status = {"FAILED"}
         \/ \E q : RegsOf(regs, Acked, q) /\ \A i \in queues : QueueReady(h, vector, i, q[i])
  PROVE  ProbeOk(h, vector, p, queues)
<1>1. CASE ~Identified(h)
  <2>1. p = [ok |-> FALSE, regs |-> FreshRegs]
    BY <1>1, Zenon
  <2> QED BY <2>1, FreshIs DEF ProbeOk
<1>2. CASE Identified(h) /\ ~h.featuresOk
  <2>1. p = [ok |-> FALSE, regs |-> WriteStatus(FreshRegs, {"FAILED"})]
    BY <1>2, Zenon
  <2>2. p.regs.status = {"FAILED"} /\ p.ok = FALSE
    BY <2>1, FreshIs
  <2> QED BY <2>2 DEF ProbeOk
<1>3. CASE Identified(h) /\ h.featuresOk
  <2>1. p = IF "FAILED" \in regs.status THEN [ok |-> FALSE, regs |-> regs]
            ELSE [ok |-> TRUE, regs |-> WriteStatus(regs, Acked \cup {"DRIVER_OK"})]
    BY <1>3, Zenon
  <2>2. CASE regs.status = {"FAILED"}
    <3>1. p = [ok |-> FALSE, regs |-> regs]
      BY <2>1, <2>2
    <3> QED BY <2>2, <3>1 DEF ProbeOk
  <2>3. CASE \E q : RegsOf(regs, Acked, q) /\ \A i \in queues : QueueReady(h, vector, i, q[i])
    <3>1. PICK q : RegsOf(regs, Acked, q) /\ \A i \in queues : QueueReady(h, vector, i, q[i])
      BY <2>3
    <3>2. "FAILED" \notin regs.status
      BY <3>1, LastWrite DEF Acked
    <3>3. PICK last : last = WriteStatus(regs, Acked \cup {"DRIVER_OK"})
      OBVIOUS
    <3>4. last.status = Acked \cup {"DRIVER_OK"} /\ last.q = q
      BY <3>1, <3>3, LastWrite
    <3>5. p = [ok |-> TRUE, regs |-> last]
      BY <2>1, <3>2, <3>3
    <3>6. p.ok = TRUE /\ p.regs = last
      BY <3>5
    <3> QED BY <3>1, <3>4, <3>6 DEF ProbeOk
  <2> QED BY <2>2, <2>3
<1> QED BY <1>1, <1>2, <1>3

\* do_probe of the block driver.
LEMMA BlkReady ==
  ASSUME NEW h, NEW vector, NEW p, p = DoProbeBlk(h, vector)
  PROVE  ProbeOk(h, vector, p, {0})
<1>1. PICK F : F = WriteStatus(FreshRegs, Acked)
  OBVIOUS
<1>2. PICK regs : regs = SetUpQueue(F, h, vector, 0)
  OBVIOUS
<1>3. IF h.max < QueueSize THEN regs.status = {"FAILED"} ELSE SetUpFrom(regs, Acked, FreshRegs.q, h, vector, 0)
  <2>1. RegsOf(F, Acked, FreshRegs.q) /\ IsQueue(FreshRegs.q[0])
    BY <1>1, FreshIs
  <2> QED BY <1>2, <2>1, SetsUp
<1>4. \/ regs.status = {"FAILED"}
      \/ \E q : RegsOf(regs, Acked, q) /\ \A i \in {0} : QueueReady(h, vector, i, q[i])
  BY <1>3 DEF SetUpFrom
<1>5. p = CASE ~Identified(h) -> [ok |-> FALSE, regs |-> FreshRegs]
            [] Identified(h) /\ ~h.featuresOk -> [ok |-> FALSE, regs |-> WriteStatus(FreshRegs, {"FAILED"})]
            [] Identified(h) /\ h.featuresOk ->
                 IF "FAILED" \in regs.status THEN [ok |-> FALSE, regs |-> regs]
                 ELSE [ok |-> TRUE, regs |-> WriteStatus(regs, Acked \cup {"DRIVER_OK"})]
  BY <1>1, <1>2, Zenon DEF DoProbeBlk
<1> QED BY <1>4, <1>5, ProbeEnds

\* do_probe of the network driver: the receive queue, then the other.
LEMMA NetReady ==
  ASSUME NEW h, NEW vector, NEW p, p = DoProbeNet(h, vector)
  PROVE  ProbeOk(h, vector, p, {0, 1})
<1>1. PICK F : F = WriteStatus(FreshRegs, Acked)
  OBVIOUS
<1>2. PICK rx : rx = SetUpQueue(F, h, vector, 0)
  OBVIOUS
<1>3. PICK regs : regs = IF "FAILED" \in rx.status THEN rx ELSE SetUpQueue(rx, h, vector, 1)
  OBVIOUS
<1>4. IF h.max < QueueSize THEN rx.status = {"FAILED"} ELSE SetUpFrom(rx, Acked, FreshRegs.q, h, vector, 0)
  <2>1. RegsOf(F, Acked, FreshRegs.q) /\ IsQueue(FreshRegs.q[0])
    BY <1>1, FreshIs
  <2> QED BY <1>2, <2>1, SetsUp
<1>5. \/ regs.status = {"FAILED"}
      \/ \E q : RegsOf(regs, Acked, q) /\ \A i \in {0, 1} : QueueReady(h, vector, i, q[i])
  <2>1. CASE h.max < QueueSize
    BY <1>3, <1>4, <2>1
  <2>2. CASE ~(h.max < QueueSize)
    <3>1. PICK q : /\ RegsOf(rx, Acked, q) /\ QueueReady(h, vector, 0, q[0])
                   /\ q[1] = FreshRegs.q[1]
      BY <1>4, <2>2 DEF SetUpFrom
    <3>2. "FAILED" \notin rx.status
      BY <3>1, LastWrite DEF Acked
    <3>3. regs = SetUpQueue(rx, h, vector, 1)
      BY <1>3, <3>2
    <3>4. IsQueue(q[1])
      BY <3>1, FreshIs
    <3>5. SetUpFrom(regs, Acked, q, h, vector, 1)
      BY <2>2, <3>1, <3>3, <3>4, SetsUp
    <3>6. PICK s : RegsOf(regs, Acked, s) /\ QueueReady(h, vector, 1, s[1]) /\ s[0] = q[0]
      BY <3>5 DEF SetUpFrom
    <3> QED BY <3>1, <3>6
  <2> QED BY <2>1, <2>2
<1>6. p = CASE ~Identified(h) -> [ok |-> FALSE, regs |-> FreshRegs]
            [] Identified(h) /\ ~h.featuresOk -> [ok |-> FALSE, regs |-> WriteStatus(FreshRegs, {"FAILED"})]
            [] Identified(h) /\ h.featuresOk ->
                 IF "FAILED" \in regs.status THEN [ok |-> FALSE, regs |-> regs]
                 ELSE [ok |-> TRUE, regs |-> WriteStatus(regs, Acked \cup {"DRIVER_OK"})]
  BY <1>1, <1>2, <1>3, Zenon DEF DoProbeNet
<1> QED BY <1>5, <1>6, ProbeEnds

\* A driver that calls itself ready has set up every queue it has.
LEMMA ProbeReady ==
  ASSUME NEW h, h.kind \in {"blk", "net"}, NEW driver
  PROVE  QueuesSetUp(h, driver.vector, Probe(h, driver))
<1>1. PICK p : p = Probe(h, driver)
  OBVIOUS
<1>2. ProbeOk(h, driver.vector, p, Queues(h.kind))
  <2>1. CASE ~driver.bound
    <3>1. p = [ok |-> FALSE, regs |-> FreshRegs]
      BY <1>1, <2>1 DEF Probe, ProbeBlk, ProbeNet
    <3>2. p.ok = FALSE /\ p.regs = FreshRegs
      BY <3>1
    <3> QED BY <3>2, FreshIs DEF ProbeOk
  <2>2. CASE driver.bound /\ h.kind = "blk"
    <3>1. p = DoProbeBlk(h, driver.vector) /\ Queues(h.kind) = {0}
      BY <1>1, <2>2 DEF Probe, ProbeBlk, Queues
    <3> QED BY <3>1, BlkReady
  <2>3. CASE driver.bound /\ h.kind = "net"
    <3>1. p = DoProbeNet(h, driver.vector) /\ Queues(h.kind) = {0, 1}
      BY <1>1, <2>3 DEF Probe, ProbeNet, Queues
    <3> QED BY <3>1, NetReady
  <2> QED BY <2>1, <2>2, <2>3
<1>3. QueuesSetUp(h, driver.vector, p)
  <2>1. CASE p.ok
    BY <1>2, <2>1 DEF ProbeOk, QueuesSetUp, QueueReady
  <2>2. CASE ~p.ok
    BY <1>2, <2>2 DEF ProbeOk, QueuesSetUp
  <2> QED BY <2>1, <2>2
<1> QED BY <1>1, <1>3
-----------------------------------------------------------------------------
\* A window that is there names a BAR of the device.
LEMMA WindowsBar ==
  ASSUME NEW h, NEW x, WindowOk(h, x), x # None
  PROVE  x[1].bar \in DOMAIN h.bars
<1>1. PICK bar \in DOMAIN h.bars, offset \in Nat : x = Some([bar |-> bar, offset |-> offset])
  BY DEF WindowOk
<1> QED BY <1>1 DEF Some

\* A slot holds a memory BAR that fits it.
LEMMA SlotsBar ==
  ASSUME NEW h, NEW slots, SlotsOk(h, slots), NEW i \in DOMAIN slots, NEW bar, bar = slots[i].bar
  PROVE  bar \in DOMAIN h.bars /\ Mapped(h.bars[bar]) /\ h.bars[bar].size <= Stride
<1>1. i \in 1 .. Len(slots)
  BY DEF SlotsOk
<1>2. PICK c \in DOMAIN h.bars :
        slots[i] = [bar |-> c, phys |-> h.bars[c].base] /\ Mapped(h.bars[c]) /\ h.bars[c].size <= Stride
  BY <1>1 DEF SlotsOk, SlotOk
<1>3. bar = c
  BY <1>2
<1> QED BY <1>2, <1>3

\* The header wire_virtio_pci_transport leaves for the driver.
LEMMA HeaderIsBound ==
  ASSUME NEW h, DeviceOk(h), NEW pools, NEW header,
         header = WireVirtioPciTransport(h, pools), header # None
  PROVE  HeaderBound(h, WalkVirtioPciCapabilities(h), header[1])
<1>1. PICK layout : layout = WalkVirtioPciCapabilities(h)
  OBVIOUS
<1>2. LayoutOk(h, layout)
  BY <1>1, WalkKeeps
<1>3. PICK start : start = [pools |-> pools - 1, slots |-> <<>>]
  OBVIOUS
<1>4. PICK common : common = MapPciBar(h, start, layout.common[1].bar)
  OBVIOUS
<1>5. PICK notify : notify = ResolveWindow(h, common.b, layout.notify)
  OBVIOUS
<1>6. PICK isr : isr = ResolveWindow(h, notify.b, layout.isr)
  OBVIOUS
<1>7. PICK config : config = ResolveWindow(h, isr.b, layout.device)
  OBVIOUS
<1>8. PICK msix : msix = EnableAndProgramMsix(h, config.b, layout)
  OBVIOUS
<1>9. PICK H : H = [common |-> common.va[1] + layout.common[1].offset,
                    notify |-> notify.va, isr |-> isr.va, device |-> config.va,
                    vector |-> IF layout.msix # None /\ h.msiMessage THEN 0 ELSE NoVector,
                    entry  |-> IF layout.msix # None /\ h.msiMessage THEN msix.entry ELSE None,
                    slots  |-> config.b.slots]
  OBVIOUS
<1>10. header = IF pools = 0 \/ layout.common = None THEN None
                ELSE IF common.va = None \/ ((layout.msix # None /\ h.msiMessage) /\ ~msix.ok) THEN None
                ELSE Some(H)
  BY <1>1, <1>3, <1>4, <1>5, <1>6, <1>7, <1>8, <1>9, Zenon DEF WireVirtioPciTransport
<1>11. /\ layout.common # None /\ common.va # None /\ header = Some(H)
       /\ (layout.msix # None /\ h.msiMessage) => msix.ok
  BY <1>10
<1>12. header[1] = H
  BY <1>11 DEF Some
<1>13. \A k \in {"common", "notify", "isr", "device", "msix"} : WindowOk(h, layout[k])
  BY <1>2 DEF LayoutOk, NoWindows
<1>14. /\ WindowOk(h, layout.common) /\ WindowOk(h, layout.notify) /\ WindowOk(h, layout.isr)
       /\ WindowOk(h, layout.device) /\ WindowOk(h, layout.msix)
  BY <1>13
<1>15. layout.common[1].bar \in DOMAIN h.bars
  BY <1>11, <1>14, WindowsBar
<1>16. BuilderOk(h, start)
  BY <1>3 DEF BuilderOk, SlotsOk
<1>17. /\ BuilderOk(h, common.b)
       /\ \E i \in 1 .. Len(common.b.slots) : common.va = Some((BarBase + i) * Stride) /\ common.b.slots[i].bar = layout.common[1].bar
  <2>1. PICK bar : bar = layout.common[1].bar
    OBVIOUS
  <2>2. common = MapPciBar(h, start, bar) /\ bar \in DOMAIN h.bars
    BY <1>4, <1>15, <2>1
  <2>3. /\ BuilderOk(h, common.b)
        /\ \/ common.va = None
           \/ \E i \in 1 .. Len(common.b.slots) : common.va = Some((BarBase + i) * Stride) /\ common.b.slots[i].bar = bar
    <3>1. BuilderOk(h, start) /\ bar \in DOMAIN h.bars /\ common = MapPciBar(h, start, bar)
      BY <1>16, <2>2
    <3>2. DeviceOk(h)
      OBVIOUS
    <3>3. /\ BuilderOk(h, common.b) /\ Grows(start.slots, common.b.slots)
          /\ \/ common.va = None
             \/ \E i \in 1 .. Len(common.b.slots) : common.va = Some((BarBase + i) * Stride) /\ common.b.slots[i].bar = bar
      BY <3>1, <3>2, MapsBar
    <3> QED BY <3>3
  <2> QED BY <1>11, <2>1, <2>3
<1>18. Reaches(common.b.slots, H.common, layout.common)
  <2>1. PICK i \in 1 .. Len(common.b.slots) : common.va = Some((BarBase + i) * Stride) /\ common.b.slots[i].bar = layout.common[1].bar
    BY <1>17
  <2>2. common.va[1] = (BarBase + i) * Stride
    BY <2>1 DEF Some
  <2>3. H.common = (BarBase + i) * Stride + layout.common[1].offset
    BY <1>9, <2>2
  <2> QED BY <1>11, <2>1, <2>3 DEF Reaches
<1>19. /\ BuilderOk(h, notify.b) /\ Grows(common.b.slots, notify.b.slots)
       /\ notify.va # 0 => Reaches(notify.b.slots, notify.va, layout.notify)
  BY <1>5, <1>14, <1>17, ResolvesBar
<1>20. /\ BuilderOk(h, isr.b) /\ Grows(notify.b.slots, isr.b.slots)
       /\ isr.va # 0 => Reaches(isr.b.slots, isr.va, layout.isr)
  BY <1>6, <1>14, <1>19, ResolvesBar
<1>21. /\ BuilderOk(h, config.b) /\ Grows(isr.b.slots, config.b.slots)
       /\ config.va # 0 => Reaches(config.b.slots, config.va, layout.device)
  BY <1>7, <1>14, <1>20, ResolvesBar
<1>22. /\ SlotsOk(h, common.b.slots) /\ SlotsOk(h, notify.b.slots)
       /\ SlotsOk(h, isr.b.slots) /\ SlotsOk(h, config.b.slots)
  BY <1>17, <1>19, <1>20, <1>21 DEF BuilderOk
<1>23. Grows(notify.b.slots, config.b.slots)
  BY <1>20, <1>21, <1>22, GrowsOn
<1>24. Grows(common.b.slots, config.b.slots)
  BY <1>19, <1>22, <1>23, GrowsOn
<1>25. H.notify = notify.va /\ H.isr = isr.va /\ H.device = config.va /\ H.slots = config.b.slots
  BY <1>9
<1>26. Reaches(H.slots, H.common, layout.common)
  BY <1>18, <1>22, <1>24, <1>25, StillReaches
<1>27. H.notify # 0 => Reaches(H.slots, H.notify, layout.notify)
  BY <1>19, <1>22, <1>23, <1>25, StillReaches
<1>28. H.isr # 0 => Reaches(H.slots, H.isr, layout.isr)
  BY <1>20, <1>21, <1>22, <1>25, StillReaches
<1>29. H.device # 0 => Reaches(H.slots, H.device, layout.device)
  BY <1>21, <1>25
<1>30. SlotsOk(h, H.slots)
  BY <1>22, <1>25
<1>31. ASSUME NEW k \in {"common", "notify", "isr", "device"}, H[k] # 0
       PROVE  DriverPhys(H.slots, H[k]) = Some(h.bars[layout[k][1].bar].base + layout[k][1].offset)
  <2>1. Reaches(H.slots, H[k], layout[k])
    BY <1>26, <1>27, <1>28, <1>29, <1>31
  <2> QED BY <1>13, <1>30, <2>1, ReachesItsBar
<1>32. ASSUME H.isr # 0
       PROVE  IsrCfgPhys(h) = Some(h.bars[layout.isr[1].bar].base + layout.isr[1].offset)
  <2>1. PICK i \in 1 .. Len(H.slots) : H.slots[i].bar = layout.isr[1].bar /\ layout.isr # None
    BY <1>28, <1>32 DEF Reaches
  <2>2. PICK bar \in DOMAIN h.bars : Mapped(h.bars[bar]) /\ bar = layout.isr[1].bar
    <3>1. i \in DOMAIN H.slots
      BY <1>30 DEF SlotsOk
    <3> QED BY <1>30, <2>1, <3>1, SlotsBar
  <2>3. PciBarPhys(h.bars[bar]) = Some([base |-> h.bars[bar].base, size |-> h.bars[bar].size])
    BY <2>2, BarFound DEF DeviceOk, Decoded
  <2>4. PciBarPhys(h.bars[bar]) # None /\ PciBarPhys(h.bars[bar])[1].base = h.bars[bar].base
    BY <2>3 DEF Some, None
  <2> QED BY <1>1, <2>1, <2>2, <2>4 DEF IsrCfgPhys
<1>33. ASSUME H.vector # NoVector
       PROVE  H.entry = Some(h.bars[layout.msix[1].bar].base + layout.msix[1].offset)
  <2>1. layout.msix # None /\ h.msiMessage
    BY <1>9, <1>33
  <2>2. H.entry = msix.entry /\ msix.ok
    BY <1>9, <1>11, <2>1
  <2>3. layout.msix[1].bar \in DOMAIN h.bars
    BY <1>14, <2>1, WindowsBar
  <2>4. PICK T : T = PciBarPhys(h.bars[layout.msix[1].bar])
    OBVIOUS
  <2>5. T # None /\ msix.entry = Some(T[1].base + layout.msix[1].offset)
    BY <1>8, <2>2, <2>4 DEF EnableAndProgramMsix
  <2>6. T = Decoded(h.bars[layout.msix[1].bar])
    BY <2>3, <2>4, BarFound DEF DeviceOk
  <2>7. T[1].base = h.bars[layout.msix[1].bar].base
    BY <2>5, <2>6 DEF Decoded, Some
  <2> QED BY <2>2, <2>5, <2>7
<1>34. \A s \in DOMAIN H.slots : h.bars[H.slots[s].bar].size <= Stride
  BY <1>30, SlotsBar
<1> QED BY <1>1, <1>12, <1>31, <1>32, <1>33, <1>34 DEF HeaderBound

(***************************************************************************)
(* Every driver that is wired and probed talks to its own device, whatever *)
(* the device's BARs and capability list are and however few pools are     *)
(* left: wire_virtio_pci_transport and do_probe.                           *)
(***************************************************************************)
THEOREM DriverReachesItsDevice == WireSpec => []BoundToItsDevice
<1>1. WireInit => BoundToItsDevice
  <2> SUFFICES ASSUME WireInit PROVE BoundToItsDevice
    OBVIOUS
  <2>1. PICK h \in Hardware, n \in Pools : hw = Some([h |-> h, pools |-> n])
    BY DEF WireInit
  <2>2. hw[1].h = h /\ hw[1].pools = n
    BY <2>1 DEF Some
  <2>3. DeviceOk(h)
    BY HardwareAssumption DEF DeviceOk
  <2>4. PICK header : header = Wired(h, n)
    OBVIOUS
  <2>5. PICK driver : driver = NewDriver(h, header)
    OBVIOUS
  <2>6. \A b \in DOMAIN h.bars : PciBarPhys(h.bars[b]) = Decoded(h.bars[b])
    BY <2>3, BarFound DEF DeviceOk
  <2>7. header # None => HeaderBound(h, WalkVirtioPciCapabilities(h), header[1])
    <3> SUFFICES ASSUME header # None PROVE HeaderBound(h, WalkVirtioPciCapabilities(h), header[1])
      OBVIOUS
    <3>1. header = WireVirtioPciTransport(h, n)
      BY <2>4 DEF Wired, WireVirtioPciTransportNet
    <3> QED BY <2>3, <3>1, HeaderIsBound
  <2>8. QueuesSetUp(h, driver.vector, Probe(h, driver))
    BY <2>3, ProbeReady DEF DeviceOk
  <2> QED BY <2>2, <2>4, <2>5, <2>6, <2>7, <2>8, Zenon DEF BoundToItsDevice
<1>2. BoundToItsDevice /\ [UNCHANGED hw]_hw => BoundToItsDevice'
  BY DEF BoundToItsDevice
<1> QED BY <1>1, <1>2, PTL DEF WireSpec
=============================================================================
