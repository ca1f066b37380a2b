------------------------------ MODULE Supervision ------------------------------
(***************************************************************************)
(* The preemptive phase: P2_PREEMPT_START spawns the Device Manager, a     *)
(* driver that faults on its first instruction, process C and a fresh      *)
(* thread for process A, and arms the timer.  Ticks then rotate the        *)
(* threads; every fault of the watched driver is handed to the Device      *)
(* Manager, which counts it (Supervised), asks for a new driver and hands  *)
(* the core to it, until the restart budget is used up.                    *)
(*                                                                         *)
(* Each trap runs to its end with interrupts masked and is one step; a     *)
(* process's own instructions between two traps belong to the next one.    *)
(*                                                                         *)
(* The core executes some thread's program (pCore), and each thread's      *)
(* saved context holds some thread's program (saved).  The scheduler's     *)
(* running() may be another thread: a service that its last reply left     *)
(* ready traps IPC_RECV when a tick picks it, and that handler's fixed     *)
(* hand-over resumes the Root Task's context, which P2_PREEMPT_START       *)
(* retired, with nobody running.  The Root Task's program is by then a     *)
(* loop that neither traps nor faults; ticks go on attributing the core to *)
(* the thread running() names and save the loop over its context.          *)
(*                                                                         *)
(* The boot script may also leave requests of the network stack queued at  *)
(* the network driver, or a stack that has yet to make them; what the two  *)
(* then exchange is modelled by the traps either may make, in any order.   *)
(* (DRV_IRQ_WAIT, which returns to the driver, is IrqWait's.)              *)
(***************************************************************************)
EXTENDS Scheduler

CONSTANTS
  RestartBudget,   \* MAX_RESTARTS_IN_WINDOW
  TickBudget,      \* P2_TICK_BUDGET
  Services,        \* how many services there are besides fs-native
  MaxAsked,        \* bound: requests queued at the network driver
  MaxRunSlice,     \* bound: what one run slice may add to a virtual runtime
  MaxFaults        \* bound: faults of processes B and C and of services

ASSUME BudgetAssumption ==
  /\ RestartBudget \in Nat /\ TickBudget \in Nat /\ Services \in Nat /\ Services >= 2
  /\ MaxAsked \in Nat /\ MaxRunSlice \in Nat /\ MaxFaults \in Nat

\* The threads that exist before, and the ids alloc_tcb gives out next.
RootTask == 0  B == 1  IpcServer == 2  Fs == 3
FirstFree == 4 + Services
Service   == 4 .. FirstFree - 1    \* the drivers, netstack, compositor, mm
NetDriver == 4  NetStack == 5
LastTid   == FirstFree + 3 + RestartBudget
Tid       == 0 .. LastTid
RunSlice  == 1 .. MaxRunSlice

VARIABLES
  pSched,    \* the scheduler of this phase
  pCore,     \* the thread whose program the core executes, or None
  saved,     \* Tcb::user_context: the thread whose program each one holds
  next,      \* the next TCB slot
  exited,    \* threads whose TCB says Exited
  phase,     \* "cooperative", "preemptive" (timer armed), "over" or "skipped"
  ticks,     \* P2_TICKS
  dmTid,     \* DM_TID
  watched,   \* WATCHED_DRIVER_TID
  pending,   \* PENDING_CRASH is set
  procC, procA,
  asked,     \* requests of the network stack queued at the network driver
  owed,      \* the network stack's TCB says BlockedOnReply
  dmPc,      \* where the Device Manager is
  policy,       \* its Supervised record
  hist       \* what happened: crashes of watched drivers, faults of others,
             \* refused spawns, strays into the retired Root Task, threads
             \* whose program got the core

kernel      == <<dmTid, watched, pending, procC, procA>>
dm          == <<dmPc, policy>>
calls       == <<asked, owed>>
supervision == <<pSched, pCore, saved, next, exited, phase, ticks, kernel, dm, calls, hist>>

NewSupervised == [state |-> "Starting", restarts |-> 0, lifetime |-> 0]
\* The first three are where it is between two traps; "spinning" is the loop
\* it ends in.
DmPlace == {"unborn", "starting", "waiting", "woken", "respawning", "spinning"}

SupTypeOK ==
  /\ pCore \in Tid \union {None} /\ pSched.running \in Tid \union {None} /\ saved \in [Tid -> Tid]
  /\ next \in FirstFree .. LastTid + 1 /\ exited \subseteq Tid
  /\ phase \in {"cooperative", "preemptive", "over", "skipped"} /\ ticks \in 0 .. TickBudget
  /\ dmPc \in DmPlace /\ policy.restarts \in 0 .. RestartBudget + 1
  /\ asked \in 0 .. MaxAsked /\ owed \in BOOLEAN

\* The demos are over: B and the IPC demo's server are ready, fs-native and
\* the other services answered their last call, which left them ready or
\* waiting.  spawn_netstack_service (net), where it ran, has retired B and the
\* demo's server and blocked fs-native already; without it there is no network
\* stack, and its thread stands for none.  A request still queued keeps the
\* stack waiting for the driver's reply, unless it was resumed without one.
LeftByDemos(t, rest, v) ==
  [SchedEntity("Interactive", MaxPriority) EXCEPT
     !.st = CASE t = RootTask -> "Running"
              [] t \in {Fs} \union Service -> rest[t]
              [] OTHER -> "Ready",
     !.vruntime = IF t \in {B} \union Service THEN v[t] ELSE MaxRunSlice]

RetiredByNet(net) == IF net THEN {B, IpcServer} ELSE {}

SupInit ==
  /\ pCore = RootTask /\ saved = [t \in Tid |-> t]
  /\ \E net \in BOOLEAN, rest \in [{Fs} \union Service -> {"Ready", "Blocked"}],
        v \in [{B} \union Service -> 0 .. MaxRunSlice] :
       /\ IF net THEN rest[Fs] = "Blocked" ELSE rest[NetStack] = "Blocked"
       /\ asked \in IF net /\ rest[NetDriver] = "Ready" THEN 0 .. MaxAsked ELSE {0}
       /\ owed = (asked > 0 /\ rest[NetStack] = "Blocked")
       /\ pSched = [ent |-> [t \in (0 .. FirstFree - 1) \ RetiredByNet(net) |-> LeftByDemos(t, rest, v)],
                    grp |-> <<>>, running |-> RootTask]
       /\ exited = RetiredByNet(net)
  /\ next = FirstFree /\ phase = "cooperative" /\ ticks = 0
  /\ dmTid = None /\ watched = None /\ pending = FALSE /\ procC = None /\ procA = None
  /\ dmPc = "unborn" /\ policy = NewSupervised
  /\ hist = [crashes |-> 0, faults |-> 0, refused |-> FALSE, strayed |-> FALSE, ran |-> {}]

\* The program the core continues with when it loads the context of thread t.
Loaded(t) == IF t = None THEN None ELSE saved[t]
Ran(p)    == hist.ran \union ({p} \ {None})

\* A decision of the running thread's trap or of a tick: the core's registers
\* go to the context of the thread running() named and another's is loaded.
Switch(d) ==
  /\ pSched' = d.s
  /\ \/ d.core = pSched.running /\ UNCHANGED <<pCore, saved>>
     \/ /\ d.core # pSched.running
        /\ pCore' = Loaded(d.core) /\ saved' = [saved EXCEPT ![pSched.running] = pCore]

\* The running thread is gone: its registers are thrown away.
Abandon(d) == pSched' = d.s /\ pCore' = Loaded(d.core) /\ UNCHANGED saved
-----------------------------------------------------------------------------
(***************************************************************************)
(* P2_PREEMPT_START: each of the four spawns may run out of memory or      *)
(* slots; ok says which do not.  Without a thread for A the Root Task goes *)
(* on and no timer is armed.                                               *)
(***************************************************************************)
Spawned(s, tid, ok) == IF ok THEN InitUserThread(s, tid) ELSE s

Retire(s, t) == Remove(s, t)

\* mutant of StartThreadA: the fresh thread is not dispatched
StartUndispatched(s, a) == NoteBlocked(Retire(Retire(InitUserThread(s, a), RootTask), IpcServer), Fs)

StartThreadA(s, a) ==
  Dispatch(NoteBlocked(Retire(Retire(InitUserThread(s, a), RootTask), IpcServer), Fs), a)

PreemptStart ==
  /\ phase = "cooperative" /\ pCore = RootTask
  /\ \E ok \in [{"dm", "driver", "c", "a"} -> BOOLEAN] :
       LET one(x)  == IF ok[x] THEN 1 ELSE 0
           driver  == next + one("dm")
           c       == driver + one("driver")
           a       == c + one("c")
           spawned == Spawned(Spawned(Spawned(pSched, next, ok["dm"]), driver, ok["driver"]), c, ok["c"])
       IN  /\ next' = a + one("a")
           /\ dmTid'   = (IF ok["dm"] THEN next ELSE None)
           /\ watched' = (IF ok["driver"] THEN driver ELSE None)
           /\ procC'   = (IF ok["c"] THEN c ELSE None)
           /\ procA'   = (IF ok["a"] THEN a ELSE None)
           /\ dmPc' = (IF ok["dm"] THEN "starting" ELSE dmPc)
           /\ pSched' = (IF ok["a"] THEN StartThreadA(spawned, a) ELSE spawned)
           /\ pCore' = (IF ok["a"] THEN saved[a] ELSE pCore)
           /\ saved' = (IF ok["a"] THEN [saved EXCEPT ![RootTask] = pCore] ELSE saved)
           /\ exited' = (IF ok["a"] THEN exited \union {RootTask, IpcServer} ELSE exited)
           /\ phase' = (IF ok["a"] THEN "preemptive" ELSE "skipped")
           /\ hist' = [hist EXCEPT !.refused = \E k \in DOMAIN ok : ~ok[k], !.ran = Ran(pCore')]
           /\ UNCHANGED <<ticks, pending, policy, calls>>

(***************************************************************************)
(* p2_tick.  While the Device Manager runs the tick only re-arms the       *)
(* timer; the last tick of the budget cancels it.  With nobody running a   *)
(* thread is dispatched and the core goes on with what it does.  A quantum *)
(* is long enough for the one instruction of the faulty driver.            *)
(***************************************************************************)
TickSpares == dmTid # None /\ dmTid = pSched.running

TickEnds ==
  /\ phase = "preemptive" /\ ~TickSpares /\ ticks + 1 >= TickBudget /\ pCore # watched
  /\ ticks' = TickBudget /\ phase' = "over"
  /\ UNCHANGED <<pSched, pCore, saved, next, exited, kernel, dm, calls, hist>>

TickSwitches ==
  /\ phase = "preemptive" /\ ~TickSpares /\ ticks + 1 < TickBudget /\ pCore \notin {None, watched}
  /\ ticks' = ticks + 1
  /\ \E x \in RunSlice : \E d \in {PreemptTick(pSched, pSched.running, x)} : Switch(d)
  /\ hist' = [hist EXCEPT !.ran = Ran(pCore')]
  /\ UNCHANGED <<next, exited, phase, kernel, dm, calls>>

(***************************************************************************)
(* IPC_RECV of a service that its last reply left ready: a request that is *)
(* queued is returned at once, and its caller is ready although it has no  *)
(* reply.  Otherwise the service blocks, and p2_ipc_recv dispatches the    *)
(* Root Task (refused, and ignored, once that is removed) and loads its    *)
(* context.  With nobody else ready the trap just returns.                 *)
(***************************************************************************)
ServiceTraps == pCore \in Service /\ pSched.running = pCore

ServiceTakes ==
  /\ ServiceTraps /\ pCore = NetDriver /\ asked > 0
  /\ asked' = asked - 1 /\ pSched' = NoteReady(pSched, NetStack)
  /\ UNCHANGED <<pCore, saved, next, exited, phase, ticks, kernel, dm, owed, hist>>

ServiceParks ==
  /\ ServiceTraps /\ (pCore = NetDriver => asked = 0)
  /\ owed' = (owed /\ pCore # NetStack)
  /\ \E b \in {NoteBlocked(pSched, pCore)} :
       IF PickNext(b) = None
       THEN pSched' = b /\ UNCHANGED <<pCore, saved, hist>>
       ELSE /\ pSched' = Dispatch(b, RootTask)
            /\ pCore' = Loaded(RootTask) /\ saved' = [saved EXCEPT ![pSched.running] = pCore]
            /\ hist' = [hist EXCEPT !.strayed = TRUE]
  /\ UNCHANGED <<next, exited, phase, ticks, kernel, dm, asked>>

\* The core goes from the service on it to thread n; with none the trap just
\* returns.
SwitchedTo(s, n) == Decision(Dispatch(s, n), IF n = None THEN pSched.running ELSE n)
FastSwitch(d) ==
  /\ Switch(d) /\ hist' = [hist EXCEPT !.ran = Ran(pCore')]
  /\ UNCHANGED <<next, exited, phase, ticks, kernel, dm>>

\* IPC_REPLY of the driver; one that is not awaited just returns.
ServiceReplies ==
  /\ ServiceTraps /\ pCore = NetDriver /\ owed
  /\ owed' = FALSE /\ UNCHANGED asked
  /\ \E r \in {NoteReady(NoteReady(pSched, NetStack), pCore)} : FastSwitch(SwitchedTo(r, NetStack))

\* IPC_CALL of the stack, at its start or for a request it finds: straight to a
\* driver that waits, else queued and pick_next decides.
ServiceCalls ==
  /\ ServiceTraps /\ pCore = NetStack /\ owed' = TRUE
  /\ IF NetDriver \in Admitted(pSched) /\ pSched.ent[NetDriver].st = "Blocked"
     THEN /\ UNCHANGED asked
          /\ \E b \in {NoteBlocked(NoteReady(pSched, NetDriver), pCore)} : FastSwitch(SwitchedTo(b, NetDriver))
     ELSE /\ asked < MaxAsked /\ asked' = asked + 1
          /\ \E b \in {NoteBlocked(pSched, pCore)} : FastSwitch(SwitchedTo(b, PickNext(b)))

(***************************************************************************)
(* p2_fault kills the thread running() names.  A fault of the watched      *)
(* driver is left for the Device Manager and the core goes straight to its *)
(* thread; anybody else's is generic; with nobody running it halts.        *)
(***************************************************************************)
\* mutant of CrashHandoff: the generic termination for the watched driver too
CrashGeneric(s, t, x) == TerminateThread(s, t, x)

CrashHandoff(s, t, x) ==
  IF dmTid # None THEN TerminateAndHandoff(NoteReady(s, dmTid), t, dmTid, x)
                  ELSE TerminateThread(s, t, x)

FaultOf(tid, x) ==
  CASE tid = None -> Decision(pSched, None)
    [] tid # None /\ tid = watched -> CrashHandoff(pSched, tid, x)
    [] OTHER -> TerminateThread(pSched, tid, x)

P2Fault ==
  /\ pending' = (pending \/ (pSched.running # None /\ pSched.running = watched))
  /\ exited' = exited \union ({pSched.running} \ {None})
  /\ owed' = (owed /\ pSched.running # NetStack)
  /\ \E x \in RunSlice : \E d \in {FaultOf(pSched.running, x)} : Abandon(d)
  /\ UNCHANGED <<next, phase, ticks, dmTid, watched, procC, procA, dm, asked>>

DriverFaults ==
  /\ phase # "cooperative" /\ pCore # None /\ pCore = watched
  /\ P2Fault /\ hist' = [hist EXCEPT !.crashes = @ + 1, !.ran = Ran(pCore')]

\* B, C, or a service whose start failed after its thread was spawned.
OtherFaults ==
  /\ pCore \in ({B, procC} \union Service) \ {None} /\ hist.faults < MaxFaults
  /\ P2Fault /\ hist' = [hist EXCEPT !.faults = @ + 1, !.ran = Ran(pCore')]
-----------------------------------------------------------------------------
(***************************************************************************)
(* The Device Manager's process.                                           *)
(***************************************************************************)
DmRuns == dmPc # "unborn" /\ pCore = FirstFree /\ FirstFree \notin exited

\* Reports Starting and Running.
DmProbeOk ==
  /\ DmRuns /\ dmPc = "starting"
  /\ dmPc' = "waiting" /\ policy' = [policy EXCEPT !.state = "Running"]
  /\ UNCHANGED <<pSched, pCore, saved, next, exited, phase, ticks, kernel, calls, hist>>

\* DM_WAIT_CRASH: returns at once when a crash is pending; otherwise blocks,
\* unless that would leave nobody to run.
DmWaitCrash ==
  /\ DmRuns /\ dmPc = "waiting"
  /\ dmPc' = "woken" /\ UNCHANGED policy
  /\ \/ pending /\ UNCHANGED <<pSched, pCore, saved, hist>>
     \/ /\ ~pending
        /\ \E x \in RunSlice :
             \E d \in {BlockThread(pSched, pSched.running, pSched.running, x)} : Switch(d)
        /\ hist' = [hist EXCEPT !.ran = Ran(pCore')]
  /\ UNCHANGED <<next, exited, phase, ticks, kernel, calls>>

\* on_crash, all crashes inside one window (the process's own clock moves
\* a microsecond at a time), and on_respawn.
OnCrashInWindow(r) ==
  [state    |-> IF r.restarts + 1 > RestartBudget THEN "Failed" ELSE "Restarting",
   restarts |-> r.restarts + 1,
   lifetime |-> r.lifetime + 1]

\* DM_POLL_CRASH takes the crash, on_crash counts it, DM_REPORT tells the new
\* state; "Failed" ends the exemption from the timer and the process spins.
\* mutant of DmPollCrash: the crash stays pending
DmPollKeeps ==
  /\ DmRuns /\ dmPc = "woken"
  /\ policy' = OnCrashInWindow(policy)
  /\ dmPc' = (IF policy'.state = "Failed" THEN "spinning" ELSE "respawning")
  /\ dmTid' = (IF policy'.state = "Failed" THEN None ELSE dmTid)
  /\ UNCHANGED <<pSched, pCore, saved, next, exited, phase, ticks, watched, pending, procC, procA, calls, hist>>

DmPollCrash ==
  /\ DmRuns /\ dmPc = "woken"
  /\ pending' = FALSE
  /\ policy' = OnCrashInWindow(policy)
  /\ dmPc' = (IF policy'.state = "Failed" THEN "spinning" ELSE "respawning")
  /\ dmTid' = (IF policy'.state = "Failed" THEN None ELSE dmTid)
  /\ UNCHANGED <<pSched, pCore, saved, next, exited, phase, ticks, watched, procC, procA, calls, hist>>

\* DM_RESPAWN_DRIVER: a new driver is watched and gets the core; a refused
\* spawn just returns.
DmRespawn ==
  /\ DmRuns /\ dmPc = "respawning"
  /\ dmPc' = "waiting" /\ policy' = [policy EXCEPT !.state = "Starting"]
  /\ \/ /\ next <= LastTid
        /\ next' = next + 1 /\ watched' = next
        /\ \E x \in RunSlice :
             \E d \in {YieldToThread(InitUserThread(pSched, next), pSched.running, next, x)} : Switch(d)
        /\ hist' = [hist EXCEPT !.ran = Ran(pCore')]
     \/ /\ hist' = [hist EXCEPT !.refused = TRUE]
        /\ UNCHANGED <<pSched, pCore, saved, next, watched>>
  /\ UNCHANGED <<exited, phase, ticks, dmTid, pending, procC, procA, calls>>

Manager == DmProbeOk \/ DmWaitCrash \/ DmPollCrash \/ DmRespawn
ServiceStep == ServiceTakes \/ ServiceParks \/ ServiceReplies \/ ServiceCalls
SupNext ==
  \/ PreemptStart \/ TickEnds \/ TickSwitches \/ ServiceStep
  \/ DriverFaults \/ OtherFaults \/ Manager

\* The Root Task's trap, the Device Manager's next one, the driver's fault and
\* the timer's interrupt all come, each named by the variable it must move.
StartComes == phase = "cooperative" /\ phase' \in {"preemptive", "skipped"}
DmGoesOn   == DmRuns /\ dmPc # "spinning" /\ dmPc' \in DmPlace
DriverDies == phase # "cooperative" /\ pCore # None /\ pCore = watched /\ exited' = exited \union {pCore}
TimerFires == phase = "preemptive" /\ ~TickSpares /\ pCore \notin {None, watched} /\ ticks' = ticks + 1

SupFairness ==
  WF_phase(StartComes) /\ WF_dmPc(DmGoesOn) /\ WF_exited(DriverDies) /\ WF_ticks(TimerFires)

SupSpec == SupInit /\ [][SupNext]_supervision /\ SupFairness
-----------------------------------------------------------------------------
(***************************************************************************)
(* Traps ask running() who made them, and a fault kills the thread it      *)
(* names: through faults, hand-offs, retired threads and stray hand-overs  *)
(* the scheduler's running thread is the one whose program has the core,   *)
(* or the core is in the retired Root Task's loop, which never asks, and   *)
(* only after a service's IPC_RECV.  Exactly that thread is in state       *)
(* Running.  Ids, ticks and restarts stay within their budgets.            *)
(***************************************************************************)
CoreIsRunning ==
  /\ SupTypeOK
  /\ pCore = pSched.running \/ (pCore = RootTask /\ hist.strayed)
  /\ {t \in Admitted(pSched) : pSched.ent[t].st = "Running"} = {pSched.running} \ {None}

(***************************************************************************)
(* No crash of a watched driver is lost, and none is counted that did not  *)
(* happen, although p2_fault goes by running() and not by whose program    *)
(* faulted, and although DM_WAIT_CRASH may return without a crash: process *)
(* A is always ready, so its block is never undone.                        *)
(***************************************************************************)
CrashesCounted ==
  dmPc # "unborn" => hist.crashes = policy.lifetime + (IF pending THEN 1 ELSE 0)

(***************************************************************************)
(* A driver that keeps crashing is given up on: the manager is neither     *)
(* starved by the processes it shares the core with nor left asleep by a   *)
(* crash that came before it waited.  (A refused respawn does leave it     *)
(* asleep for good, with the driver in state Starting.)  When the          *)
(* measurement ends every process that was fresh at its start has run: the *)
(* demo's verdict is never MISMATCH for A or C.  Both hold while no        *)
(* service strays into the retired Root Task, whose loop then overwrites   *)
(* the contexts of threads that have not run.  The measurement itself ends *)
(* even then, although ticks do not count while the manager has the core,  *)
(* unless the tick dispatched the manager while the core stayed in that    *)
(* loop: it is spared from then on for good.                               *)
(***************************************************************************)
Measuring == phase = "preemptive"
GivenUp   == policy.state = "Failed" \/ hist.refused
Measured  == phase = "over"
SparesLoop == TickSpares /\ pCore = RootTask
FreshThreadsRan == {procA, procC} \ {None} \subseteq hist.ran \union exited

DriverGivenUp ==
  /\ Measuring ~> GivenUp \/ hist.strayed
  /\ Measuring ~> Measured \/ SparesLoop
  /\ [](Measured /\ ~hist.strayed => FreshThreadsRan)
=============================================================================
