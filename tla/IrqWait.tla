------------------------------- MODULE IrqWait ------------------------------
(***************************************************************************)
(* The virtio-blk driver waiting for its device: handle_io submits a       *)
(* request and calls DRV_IRQ_WAIT, whose trap handler loops over           *)
(* SyscallOp::Wait and idles the core between two attempts; the device's   *)
(* interrupt runs virtio_blk_irq_trampoline, which signals the bound       *)
(* Notification and wakes the waiters.  The kernel runs with interrupts    *)
(* masked except where it idles; a process runs with them enabled.         *)
(*                                                                         *)
(* The idle primitive differs by architecture.  x86_64's "sti; hlt" cannot *)
(* be split by an interrupt.  riscv64 and aarch64 unmask first and execute *)
(* wfi next; an interrupt in between returns to wfi on riscv64 and, by a   *)
(* redirection in common_interrupt_entry, past it on aarch64.              *)
(***************************************************************************)
EXTENDS Naturals

CONSTANTS
  Arch,             \* "riscv64", "aarch64" or "x86_64"
  Waiters,          \* NOTIF_WAITERS
  MaxWaitRetries,   \* of handle_io
  MaxSubmit,        \* bound: requests
  MaxSpurious,      \* bound: device interrupts with no completion behind them
  MaxOther          \* bound: interrupts of other sources while the core idles

ASSUME ArchAssumption == Arch \in {"riscv64", "aarch64", "x86_64"}
ASSUME BoundsAssumption ==
  /\ Waiters \in Nat \ {0} /\ MaxWaitRetries \in Nat \ {0}
  /\ MaxSubmit \in Nat /\ MaxSpurious \in Nat /\ MaxOther \in Nat

VARIABLES
  pc,         \* where the driver's thread is
  submitted,  \* VirtioBlk::next_idx
  used,       \* the device's used-ring index
  retries,    \* of handle_io
  line,       \* the device's interrupt is pending at the controller
  signal,     \* Notification::signal_word # 0
  waiting,    \* entries of the driver in Notification::waiters
  entity,     \* the driver's run state in the scheduler
  running,    \* Scheduler::running() is the driver
  bound,      \* notification_for_irq answers the driver's notification
  spurious, other

device == <<submitted, used, spurious>>
sched  == <<entity, running>>
vars   == <<pc, device, retries, line, signal, waiting, sched, bound, other>>

\* "serve": in Recv, between requests; "user": about to call DRV_IRQ_WAIT;
\* "step": before the next Wait; "masked": Wait answered Blocked; "unmasked":
\* interrupts on, wfi not yet executed; "asleep"; "check": back in handle_io;
\* "refused": its IPC_REPLY and IPC_RECV fail, over and over.
Place == {"serve", "user", "step", "masked", "unmasked", "asleep", "check", "refused"}

TypeOK ==
  /\ pc \in Place
  /\ submitted \in 0 .. MaxSubmit /\ used \in 0 .. submitted
  /\ retries \in 0 .. MaxWaitRetries - 1
  /\ line \in BOOLEAN /\ signal \in BOOLEAN /\ running \in BOOLEAN /\ bound \in BOOLEAN
  /\ waiting \in 0 .. Waiters
  /\ entity \in {"Ready", "Running", "Blocked"}
  /\ spurious \in 0 .. MaxSpurious /\ other \in 0 .. MaxOther

\* IrqBind has run; the driver waits in Recv.
Init ==
  /\ pc = "serve" /\ submitted = 0 /\ used = 0 /\ retries = 0
  /\ line = FALSE /\ signal = FALSE /\ waiting = 0
  /\ entity = "Blocked" /\ running = FALSE /\ bound = TRUE
  /\ spurious = 0 /\ other = 0
-----------------------------------------------------------------------------
\* A request arrives (the caller hands the core over) and is submitted.
Submit ==
  /\ pc = "serve" /\ submitted < MaxSubmit
  /\ pc' = "user" /\ submitted' = submitted + 1 /\ retries' = 0
  /\ entity' = "Running" /\ running' = TRUE
  /\ UNCHANGED <<used, spurious, line, signal, waiting, bound, other>>

\* The device finishes one or more of the requests it was given and raises
\* its interrupt.
Complete ==
  /\ used' \in used + 1 .. submitted /\ line' = TRUE
  /\ UNCHANGED <<pc, submitted, spurious, retries, signal, waiting, sched, bound, other>>

\* A configuration-change interrupt: the same line, no completion.
ConfigChange ==
  /\ spurious < MaxSpurious
  /\ spurious' = spurious + 1 /\ line' = TRUE
  /\ UNCHANGED <<pc, submitted, used, retries, signal, waiting, sched, bound, other>>

\* The trap takes running() for the caller.  With nobody running that is the
\* Root Task, which has no such capability: the wait fails at once.
EnterWait ==
  /\ pc = "user" /\ pc' = IF running THEN "step" ELSE "check"
  /\ UNCHANGED <<device, retries, line, signal, waiting, sched, bound, other>>

(***************************************************************************)
(* drv_irq_wait_step: pending bits are consumed and the caller dispatched; *)
(* otherwise it is queued (again) and blocked; a full list is an error,    *)
(* which the trap reports as no bits.                                      *)
(***************************************************************************)
\* mutant of WaitReady: the woken caller is not dispatched
WaitReadyUndispatched ==
  /\ pc = "step" /\ signal
  /\ signal' = FALSE /\ pc' = "check"
  /\ UNCHANGED <<device, retries, line, waiting, sched, bound, other>>

WaitReady ==
  /\ pc = "step" /\ signal
  /\ signal' = FALSE /\ pc' = "check"
  /\ entity' = "Running" /\ running' = TRUE
  /\ UNCHANGED <<device, retries, line, waiting, bound, other>>

\* mutant of WaitBlocked: the thread sleeps without joining the waiters
WaitUnqueued ==
  /\ pc = "step" /\ ~signal /\ waiting < Waiters
  /\ pc' = "masked"
  /\ entity' = "Blocked" /\ running' = FALSE
  /\ UNCHANGED <<device, retries, line, signal, waiting, bound, other>>

\* mutant of WaitBlocked: the capacity of the list is not checked
WaitPastCapacity ==
  /\ pc = "step" /\ ~signal
  /\ waiting' = waiting + 1 /\ pc' = "masked"
  /\ entity' = "Blocked" /\ running' = FALSE
  /\ UNCHANGED <<device, retries, line, signal, bound, other>>

WaitBlocked ==
  /\ pc = "step" /\ ~signal /\ waiting < Waiters
  /\ waiting' = waiting + 1 /\ pc' = "masked"
  /\ entity' = "Blocked" /\ running' = FALSE
  /\ UNCHANGED <<device, retries, line, signal, bound, other>>

WaitError ==
  /\ pc = "step" /\ ~signal /\ waiting = Waiters
  /\ pc' = "check"
  /\ UNCHANGED <<device, retries, line, signal, waiting, sched, bound, other>>

\* The idle primitive: unmask, then sleep.
Unmask ==
  /\ pc = "masked"
  /\ pc' = IF Arch = "x86_64" THEN "asleep" ELSE "unmasked"
  /\ UNCHANGED <<device, retries, line, signal, waiting, sched, bound, other>>

Wfi ==
  /\ pc = "unmasked" /\ pc' = "asleep"
  /\ UNCHANGED <<device, retries, line, signal, waiting, sched, bound, other>>

\* Where an interrupt returns to.
\* mutant of Interrupted: the redirection past wfi is missing
InterruptedAtWfi == IF pc = "asleep" THEN "step" ELSE pc

Interrupted ==
  CASE pc = "asleep" -> "step"
    [] pc = "unmasked" /\ Arch = "aarch64" -> "step"
    [] OTHER -> pc

Unmasked == pc \in {"serve", "user", "check", "refused", "unmasked", "asleep"}

\* virtio_blk_irq_trampoline: acknowledge the device, signal, wake.
\* mutant of TakeIrq: only waiters are woken, the bits are not kept
TakeIrqNotSticky ==
  /\ line /\ Unmasked
  /\ line' = FALSE /\ pc' = Interrupted
  /\ signal' = (bound /\ waiting > 0)
  /\ waiting' = (IF bound THEN 0 ELSE waiting)
  /\ entity'  = (IF bound /\ waiting > 0 THEN "Ready" ELSE entity)
  /\ UNCHANGED <<device, retries, running, bound, other>>

\* mutant of TakeIrq: the woken waiters stay in the list
TakeIrqKeepsWaiters ==
  /\ line /\ Unmasked
  /\ line' = FALSE /\ pc' = Interrupted
  /\ signal' = (signal \/ bound)
  /\ entity' = (IF bound /\ waiting > 0 THEN "Ready" ELSE entity)
  /\ UNCHANGED <<device, retries, waiting, running, bound, other>>

TakeIrq ==
  /\ line /\ Unmasked
  /\ line' = FALSE /\ pc' = Interrupted
  /\ signal'  = (signal \/ bound)
  /\ waiting' = (IF bound THEN 0 ELSE waiting)
  /\ entity'  = (IF bound /\ waiting > 0 THEN "Ready" ELSE entity)
  /\ UNCHANGED <<device, retries, running, bound, other>>

\* An interrupt of another source while the core idles; the tick handler does
\* not run for a tick that lands in the kernel.
OtherIrq ==
  /\ pc \in {"unmasked", "asleep"} /\ other < MaxOther
  /\ other' = other + 1 /\ pc' = Interrupted
  /\ UNCHANGED <<device, retries, line, signal, waiting, sched, bound>>

\* IPC_REPLY, then IPC_RECV.  With nobody running both are taken for the Root
\* Task's and refused, and the service loop tries again for ever.
AnswerRequest ==
  \/ running /\ pc' = "serve" /\ entity' = "Blocked" /\ running' = FALSE
  \/ ~running /\ pc' = "refused" /\ UNCHANGED sched

\* handle_io after a Wait: done, once more, or given up.
Check ==
  /\ pc = "check"
  /\ \/ used = submitted /\ AnswerRequest /\ UNCHANGED retries
     \/ /\ used < submitted /\ retries + 1 < MaxWaitRetries
        /\ retries' = retries + 1 /\ pc' = "user" /\ UNCHANGED sched
     \/ used < submitted /\ retries + 1 = MaxWaitRetries /\ AnswerRequest /\ UNCHANGED retries
  /\ UNCHANGED <<device, line, signal, waiting, bound, other>>

\* do_irq_bind of the same line to another notification: bind_irq overwrites
\* the binding, then register_irq refuses and the syscall fails.
RebindRefused ==
  /\ pc = "serve" /\ bound
  /\ bound' = FALSE
  /\ UNCHANGED <<pc, device, retries, line, signal, waiting, sched, other>>
-----------------------------------------------------------------------------
Driver == EnterWait \/ WaitReady \/ WaitBlocked \/ WaitError \/ Unmask \/ Wfi \/ Check
Next   == Submit \/ Complete \/ ConfigChange \/ Driver \/ TakeIrq \/ OtherIrq

\* The core executes its instructions, the device completes what it was
\* given and an enabled interrupt is taken.
Fairness == WF_vars(Driver) /\ WF_vars(Complete) /\ WF_vars(TakeIrq)

Spec       == Init /\ [][Next]_vars /\ Fairness
RebindSpec == Init /\ [][Next \/ RebindRefused]_vars /\ Fairness
-----------------------------------------------------------------------------
(***************************************************************************)
(* wfi "always eventually resumes [...] rather than ever deadlocking":     *)
(* every request the driver submits is answered, unless as many unrelated  *)
(* wakeups as the waiter list has places made a Wait fail: then the driver *)
(* goes on with nobody running and its answer is refused for ever.         *)
(***************************************************************************)
RefusedWhenFull == pc = "refused" => other >= Waiters
RequestAnswered ==
  /\ (pc = "user") ~> (pc \in {"serve", "refused"})
  /\ []RefusedWhenFull

(***************************************************************************)
(* The core never sleeps on a signal that has been delivered: the          *)
(* interrupt that set it is over and no other one need come.               *)
(***************************************************************************)
NeverSleepsOnSignal == pc = "asleep" => ~signal

(***************************************************************************)
(* Until the signal is set the sleeping driver is on the waiter list, so   *)
(* that a signal makes it ready.                                           *)
(***************************************************************************)
SleeperIsQueued ==
  pc \in {"masked", "unmasked", "asleep"} /\ ~signal => waiting > 0 /\ entity = "Blocked"

(***************************************************************************)
(* Whenever the driver's own code runs, the scheduler calls it running:    *)
(* IPC_RECV and IPC_REPLY take running() for the caller and fall back to   *)
(* the Root Task.  "A spurious or unrelated-interrupt wakeup is always     *)
(* safe", says wfi: it is while there were fewer of them than the waiter   *)
(* list has places; RunsAsItselfAlways does not hold.                      *)
(***************************************************************************)
RunsAsItselfAlways == pc \in {"user", "check"} => running /\ entity = "Running"
RunsAsItself == other < Waiters => RunsAsItselfAlways

(***************************************************************************)
(* A driver that is back in Recv is on no waiter list, under the same      *)
(* condition: a signal would make it ready with no message for it.         *)
(***************************************************************************)
NoStaleWaiter == pc = "serve" /\ other < Waiters => waiting = 0
=============================================================================
