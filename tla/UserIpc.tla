------------------------------- MODULE UserIpc -------------------------------
(***************************************************************************)
(* User threads during the cooperative phase of the boot: they enter the   *)
(* kernel through a trap, kernel-arch-glue calls dispatch for them and     *)
(* switches contexts according to the answer.  A message for a thread that *)
(* is being switched in is poked into its saved registers (pendingMsg).    *)
(* The trap handlers take running() for the trapping thread; where that is *)
(* not the thread on the core the model follows no further.                *)
(***************************************************************************)
EXTENDS IpcCore

CONSTANTS
  Owner,      \* the thread each endpoint's service wrapper switches to
  RawClient,  \* the clients that use the bare IPC_CALL opcode
  Unpoked     \* the thread a service parked on an endpoint finds in its first
              \* return register when nothing was poked: the slot it passed to
              \* Recv (0, the id of the Root Task, on riscv64 and aarch64), or
              \* no thread (the opcode 43 on x86_64)

VARIABLE faulty   \* in this behaviour threads may die and use the bare opcode

ASSUME OwnerAssumption ==
  /\ Owner \in [Endpoint -> Server] /\ RawClient \subseteq Client
  /\ Unpoked \in [Endpoint -> Thread \cup {None}]

\* sched.running().unwrap_or(root_thread)
Caller == IF running = None THEN Root ELSE running

Executes(c) == cpu = c /\ Caller = c /\ inside[c] = "user"

\* Resume(0): nothing to switch to, the caller's trap returns although the
\* thread was blocked.
ResumeBlocked(ent) == entity' = ent /\ running' = None /\ UNCHANGED cpu

\* spawn_process: init_user_thread on a fresh TCB.
SpawnProcess(c, t) ==
  /\ Executes(c) /\ c = Root /\ state[t] = "Inactive"
  /\ state'  = [state EXCEPT ![t] = "Runnable"]
  /\ entity' = Admitted(t)
  /\ UNCHANGED <<pendingMsg, pendingFrom, running, ep, user>>

\* p2_ipc_demo_start and its siblings: spawn the service and switch to it.
StartService(c, t) ==
  /\ Executes(c) /\ c = Root /\ t \in Server /\ state[t] = "Inactive"
  /\ state' = [state EXCEPT ![t] = "Runnable"]
  /\ SwitchTo(t, NoteReady(Admitted(t), c))
  /\ UNCHANGED <<pendingMsg, pendingFrom, ep, inside, client>>

\* Call found its receiver parked: the core goes to the receiver.
Parked(c, e) == Executes(c) /\ receivers[e] # <<>> /\ entity[Head(receivers[e])] # "None"

HandOver(c, e) ==
  /\ inside' = [inside EXCEPT ![c] = "call"]
  /\ SwitchTo(Head(receivers[e]), CallDelivered(c, e))
  /\ UNCHANGED client

\* p2_ipc_call and the IPC_CALL trap arm: the message is poked into the
\* receiver's saved registers.
CallFast(c, e, m) == Parked(c, e) /\ Deliver(c, e, m, "BlockedOnReply") /\ HandOver(c, e)

\* fs_ipc_call and its siblings take the message out of the TCB too, but the
\* trap arms of the FS, BLK, MM, COMPOSITOR and NET opcodes never poke it.
CallWrapper(c, e) ==
  LET rx == Head(receivers[e]) IN
    /\ Parked(c, e)
    /\ receivers'   = [receivers EXCEPT ![e] = Tail(@)]
    /\ pendingFrom' = [pendingFrom EXCEPT ![rx] = Unpoked[e]]
    /\ state'       = [state EXCEPT ![rx] = "Runnable", ![c] = "BlockedOnReply"]
    /\ HandOver(c, e)
    /\ UNCHANGED <<senders, pendingMsg>>

\* The parked receiver has died meanwhile: note_ready fails after the message
\* was handed over, and the call returns an error.
CallToDead(c, e, m) ==
  /\ Executes(c) /\ receivers[e] # <<>> /\ entity[Head(receivers[e])] = "None"
  /\ Deliver(c, e, m, state[c])
  /\ UNCHANGED <<sched, user>>

\* fs_ipc_call and its siblings with no receiver parked: whomever pick_next
\* names, the core goes to the service's own thread.
\* mutant of CallService: the wrapper trusts pick_next
CallServiceTrusting(c, e, m) ==
  /\ Executes(c) /\ state[Owner[e]] # "Inactive"
  /\ Enqueue(c, e, m, "call")
  /\ LET ent == NoteBlocked(entity, c) IN
       \/ \E n \in Ready(ent) : SwitchTo(n, ent)
       \/ Ready(ent) = {} /\ ResumeBlocked(ent)

CallService(c, e, m) ==
  /\ Executes(c) /\ state[Owner[e]] # "Inactive"
  /\ Enqueue(c, e, m, "call")
  /\ LET ent == NoteBlocked(entity, c) IN
       \/ Ready(ent) # {} /\ SwitchTo(Owner[e], ent)
       \/ Ready(ent) = {} /\ ResumeBlocked(ent)

\* p2_ipc_call with no receiver parked.
CallQueued(c, e, m) ==
  /\ Executes(c)
  /\ Enqueue(c, e, m, "call")
  /\ LET ent == NoteBlocked(entity, c) IN
       \/ \E n \in Ready(ent) : SwitchTo(n, ent)
       \/ Ready(ent) = {} /\ ResumeBlocked(ent)

RecvNow(c, e) == Executes(c) /\ RecvImmediate(c, e)

\* p2_ipc_recv blocking: whomever pick_next names, the core goes to the Root
\* Task.
RecvParked(c, e) ==
  /\ Executes(c) /\ c # Root
  /\ Park(c, e)
  /\ LET ent == NoteBlocked(entity, c) IN
       \/ Ready(ent) # {} /\ SwitchTo(Root, ent)
       \/ Ready(ent) = {} /\ ResumeBlocked(ent)

\* p2_ipc_reply: straight to the caller.
\* mutant of Reply: the replier is left Running
ReplyKeepsRunning(c, to, m) ==
  /\ Executes(c)
  /\ Answer(c, to, m)
  /\ SwitchTo(to, NoteReady(entity, to))
  /\ UNCHANGED inside

Reply(c, to, m) ==
  /\ Executes(c)
  /\ Answer(c, to, m)
  /\ SwitchTo(to, Answered(c, to))
  /\ UNCHANGED inside

ReplyRefused(c, to) == Executes(c) /\ Refuse(c, to)

\* p2_yield and cooperative_yield: some other ready thread, else c again.
CooperativeYield(c) ==
  /\ Executes(c) /\ running = c
  /\ \/ \E n \in Ready(Accounted) \ {c} : SwitchTo(n, NoteReady(Accounted, c))
     \/ Ready(Accounted) \subseteq {c} /\ SwitchTo(c, Accounted)
  /\ UNCHANGED <<tcb, ep, inside, client>>

\* p2_fault and terminate_thread: the running thread dies; with nobody ready
\* the machine halts.  The endpoint queues are not visited.
Fault ==
  /\ cpu # None /\ running = cpu
  /\ state' = [state EXCEPT ![running] = "Exited"]
  /\ LET ent == [entity EXCEPT ![running] = "None"] IN
       \/ \E n \in Ready(ent) : SwitchTo(n, ent)
       \/ Ready(ent) = {} /\ entity' = ent /\ running' = None /\ cpu' = None
  /\ UNCHANGED <<pendingMsg, pendingFrom, ep, inside, client>>

Return(c) == cpu = c /\ Caller = c /\ inside[c] # "user" /\ Resume(c)
-----------------------------------------------------------------------------
\* A service's loop: receive, answer, receive again.
Serve(c) ==
  \/ \E e \in Endpoint :
       /\ Owner[e] = c /\ client[c] = {}
       /\ RecvNow(c, e) \/ RecvParked(c, e)
  \/ \E to \in Thread, m \in Msg : Reply(c, to, m)
  \/ \E to \in Thread : ReplyRefused(c, to)

Callable(c)    == {e \in Endpoint : Owner[e] # c}
CallWrapped(c) == \E e \in Callable(c) : CallWrapper(c, e) \/ \E m \in Msg : CallService(c, e, m)
CallBare(c)    == \E e \in Callable(c), m \in Msg : CallFast(c, e, m) \/ CallQueued(c, e, m)

Calm ==
  \/ \E c, t \in Thread : SpawnProcess(c, t) \/ StartService(c, t)
  \/ \E c \in Thread \ Server : CooperativeYield(c)
  \/ \E c \in Thread : Return(c)
  \/ \E c \in Server : Serve(c)
  \/ \E c \in Client \ RawClient : CallWrapped(c)

Faulty ==
  \/ \E c \in RawClient : CallBare(c)
  \/ Fault
  \/ \E c \in Client, e \in Endpoint, m \in Msg : CallToDead(c, e, m)

Next == (Calm \/ (faulty /\ Faulty)) /\ UNCHANGED faulty

(***************************************************************************)
(* Fairness: the core goes on executing the thread it was handed to, so a  *)
(* service that has the core takes its next step, and a thread that was    *)
(* resumed returns from its trap.  Nothing is assumed of the others.       *)
(***************************************************************************)
Fairness ==
  /\ \A c \in Server : WF_vars(Serve(c))
  /\ \A c \in Thread : WF_vars(Return(c))

Start == Init /\ faulty \in BOOLEAN
Spec  == Start /\ [][Next]_<<vars, faulty>> /\ Fairness
-----------------------------------------------------------------------------
(***************************************************************************)
(* While nobody dies and every call goes through a wrapper: traps are made *)
(* by the thread running() names, a Call returns with its reply, and a     *)
(* blocked thread is in the queue its state names.                         *)
(***************************************************************************)
CalmRunningIsOnCpu   == ~faulty => RunningIsOnCpu
CalmCallReturnsReply == ~faulty => CallReturnsReply
CalmBlockedIsQueued  == ~faulty => BlockedIsQueued

(***************************************************************************)
(* With the wrappers' hand-off every call to a service comes back to its   *)
(* caller, although the other processes never give the core up.            *)
(***************************************************************************)
CallAnswered ==
  \A c \in Client : (~faulty /\ inside[c] = "call") ~> (cpu = c /\ inside[c] = "user")
=============================================================================
