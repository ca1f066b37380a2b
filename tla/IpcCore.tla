------------------------------- MODULE IpcCore -------------------------------
(***************************************************************************)
(* Synchronous IPC as kernel-core implements it on one core: endpoints     *)
(* (kernel-ipc), thread control blocks, the run states of the scheduler    *)
(* (kernel-sched) and what the Send, Call, Recv and Reply handlers do to   *)
(* them.  A handler runs to completion with interrupts off; it answers     *)
(* with the thread to run next and never switches itself.  Acting on the   *)
(* answer is left to the caller of dispatch: Ipc models the in-kernel      *)
(* threads, UserIpc the trap handlers of user threads.                     *)
(*                                                                         *)
(* pick_next orders ready threads by class, priority and virtual runtime;  *)
(* here any ready thread may be the one it picks.                          *)
(***************************************************************************)
EXTENDS Naturals, Sequences, FiniteSets

CONSTANTS
  Thread,    \* threads with a TCB
  Server,    \* the threads that receive and reply
  Client,    \* the threads that send and call
  Endpoint,
  Msg,       \* message contents
  Q,         \* capacity of an endpoint queue (ENDPOINT_QUEUE)
  Root,      \* the Root Task, the thread that runs first
  None

ASSUME ThreadAssumption ==
  /\ Server \subseteq Thread /\ Client \subseteq Thread
  /\ Root \in Thread /\ None \notin Thread /\ None \notin Msg
ASSUME QueueAssumption == Q \in Nat \ {0}

VARIABLES
  state,        \* Tcb::state
  pendingMsg,   \* Tcb::pending_msg, or the saved a0/a1 it was poked into
  pendingFrom,  \* Tcb::pending_from, likewise
  entity,       \* SchedEntity::state, or "None" without an entity
  running,      \* Scheduler::running
  senders,      \* per endpoint: queued [thread, msg]
  receivers,    \* per endpoint: queued threads
  cpu,          \* the thread whose code the core executes, None if parked
  inside,       \* the syscall a thread's code has not returned from
  client        \* per server: callers it received from and has to answer

tcb   == <<state, pendingMsg, pendingFrom>>
sched == <<entity, running>>
ep    == <<senders, receivers>>
user  == <<cpu, inside, client>>
vars  == <<tcb, sched, ep, user>>

ThreadState == {"Inactive", "Runnable", "BlockedOnSend", "BlockedOnRecv",
                "BlockedOnReply", "Exited"}
RunState    == {"Ready", "Running", "Blocked"}

TypeOK ==
  /\ state \in [Thread -> ThreadState]
  /\ pendingMsg \in [Thread -> Msg \cup {None}]
  /\ pendingFrom \in [Thread -> Thread \cup {None}]
  /\ entity \in [Thread -> RunState \cup {"None"}]
  /\ running \in Thread \cup {None}
  /\ senders \in [Endpoint -> Seq([thread : Thread, msg : Msg])]
  /\ receivers \in [Endpoint -> Seq(Thread)]
  /\ cpu \in Thread \cup {None}
  /\ inside \in [Thread -> {"user", "send", "recv", "call", "reply"}]
  /\ client \in [Thread -> SUBSET Thread]

Init ==
  /\ state       = [t \in Thread |-> IF t = Root THEN "Runnable" ELSE "Inactive"]
  /\ pendingMsg  = [t \in Thread |-> None]
  /\ pendingFrom = [t \in Thread |-> None]
  /\ entity      = [t \in Thread |-> IF t = Root THEN "Running" ELSE "None"]
  /\ running     = Root
  /\ senders     = [e \in Endpoint |-> <<>>]
  /\ receivers   = [e \in Endpoint |-> <<>>]
  /\ cpu         = Root
  /\ inside      = [t \in Thread |-> "user"]
  /\ client      = [t \in Thread |-> {}]
-----------------------------------------------------------------------------
\* Scheduler::note_ready and note_blocked; a thread without entity is refused.
NoteReady(ent, t)   == IF ent[t] = "None" THEN ent ELSE [ent EXCEPT ![t] = "Ready"]
NoteBlocked(ent, t) == IF ent[t] = "None" THEN ent ELSE [ent EXCEPT ![t] = "Blocked"]

\* The threads pick_next may answer.
Ready(ent) == {t \in Thread : ent[t] = "Ready"}

\* Scheduler::account, time left out: a running thread becomes ready.
Accounted ==
  IF running # None /\ entity[running] = "Running"
  THEN [entity EXCEPT ![running] = "Ready"] ELSE entity

\* Scheduler::dispatch and the context switch that follows it whether or not
\* dispatch found an entity to mark; user_ctx_switch_ptrs and yield_to ask
\* only for a TCB, which a dead thread keeps.
SwitchTo(n, ent) ==
  /\ entity'  = [ent EXCEPT ![n] = IF @ = "None" THEN @ ELSE "Running"]
  /\ running' = IF ent[n] = "None" THEN None ELSE n
  /\ cpu'     = n

\* admit and note_ready on a TCB that was never started.
Admitted(t) == [entity EXCEPT ![t] = "Ready"]
-----------------------------------------------------------------------------
(***************************************************************************)
(* do_send with a receiver parked (try_send answers DeliveredTo): the      *)
(* receiver at the head of the queue is left the message and its sender    *)
(* and becomes runnable; callerState is the sender's own state afterwards. *)
(***************************************************************************)
\* mutant of Deliver: the woken receiver is not told who sent
DeliverAnonymously(c, e, m, callerState) ==
  LET rx == Head(receivers[e]) IN
    /\ receivers'   = [receivers EXCEPT ![e] = Tail(@)]
    /\ pendingMsg'  = [pendingMsg EXCEPT ![rx] = m]
    /\ state'       = [state EXCEPT ![rx] = "Runnable", ![c] = callerState]
    /\ UNCHANGED <<senders, pendingFrom>>

\* mutant of Deliver: the receiver stays at the head of the queue
DeliverWithoutPop(c, e, m, callerState) ==
  LET rx == Head(receivers[e]) IN
    /\ pendingMsg'  = [pendingMsg EXCEPT ![rx] = m]
    /\ pendingFrom' = [pendingFrom EXCEPT ![rx] = c]
    /\ state'       = [state EXCEPT ![rx] = "Runnable", ![c] = callerState]
    /\ UNCHANGED <<senders, receivers>>

Deliver(c, e, m, callerState) ==
  LET rx == Head(receivers[e]) IN
    /\ receivers'   = [receivers EXCEPT ![e] = Tail(@)]
    /\ pendingMsg'  = [pendingMsg EXCEPT ![rx] = m]
    /\ pendingFrom' = [pendingFrom EXCEPT ![rx] = c]
    /\ state'       = [state EXCEPT ![rx] = "Runnable", ![c] = callerState]
    /\ UNCHANGED senders

\* The run states after a Call was delivered: the receiver ready, the caller
\* blocked.
\* mutant of CallDelivered: the caller is not blocked
CallerStaysReady(c, e) == NoteReady(entity, Head(receivers[e]))

CallDelivered(c, e) == NoteBlocked(NoteReady(entity, Head(receivers[e])), c)

\* do_send with no receiver parked: the sender is queued.  A full queue
\* refuses the syscall and changes nothing.
\* mutant of Enqueue: the capacity check is lost
EnqueuePastQ(c, e, m, kind) ==
  /\ receivers[e] = <<>>
  /\ senders' = [senders EXCEPT ![e] = Append(@, [thread |-> c, msg |-> m])]
  /\ state'   = [state EXCEPT ![c] = IF kind = "call" THEN "BlockedOnReply" ELSE "BlockedOnSend"]
  /\ inside'  = [inside EXCEPT ![c] = kind]
  /\ UNCHANGED <<pendingMsg, pendingFrom, receivers, client>>

\* mutant of Enqueue: a queued caller is taken for a plain sender
EnqueueAsSend(c, e, m, kind) ==
  /\ receivers[e] = <<>>
  /\ Len(senders[e]) < Q
  /\ senders' = [senders EXCEPT ![e] = Append(@, [thread |-> c, msg |-> m])]
  /\ state'   = [state EXCEPT ![c] = "BlockedOnSend"]
  /\ inside'  = [inside EXCEPT ![c] = kind]
  /\ UNCHANGED <<pendingMsg, pendingFrom, receivers, client>>

Enqueue(c, e, m, kind) ==
  /\ receivers[e] = <<>>
  /\ Len(senders[e]) < Q
  /\ senders' = [senders EXCEPT ![e] = Append(@, [thread |-> c, msg |-> m])]
  /\ state'   = [state EXCEPT ![c] = IF kind = "call" THEN "BlockedOnReply" ELSE "BlockedOnSend"]
  /\ inside'  = [inside EXCEPT ![c] = kind]
  /\ UNCHANGED <<pendingMsg, pendingFrom, receivers, client>>

\* do_recv with a sender queued: the message is returned at once and the
\* sender made ready, a caller that still awaits its reply included.
\* mutant of RecvImmediate: the sender is made runnable but not ready
RecvWithoutNoteReady(c, e) ==
  /\ senders[e] # <<>>
  /\ LET from == Head(senders[e]).thread IN
       /\ state'  = [state EXCEPT ![from] = IF @ = "BlockedOnReply" THEN @ ELSE "Runnable"]
       /\ client' = [client EXCEPT ![c] = @ \cup {from}]
  /\ senders' = [senders EXCEPT ![e] = Tail(@)]
  /\ inside'  = [inside EXCEPT ![c] = "user"]
  /\ UNCHANGED <<pendingMsg, pendingFrom, sched, receivers, cpu>>

RecvImmediate(c, e) ==
  /\ senders[e] # <<>>
  /\ LET from == Head(senders[e]).thread IN
       /\ state'  = [state EXCEPT ![from] = IF @ = "BlockedOnReply" THEN @ ELSE "Runnable"]
       /\ entity' = NoteReady(entity, from)
       /\ client' = [client EXCEPT ![c] = @ \cup {from}]
  /\ senders' = [senders EXCEPT ![e] = Tail(@)]
  /\ inside'  = [inside EXCEPT ![c] = "user"]
  /\ UNCHANGED <<pendingMsg, pendingFrom, running, receivers, cpu>>

\* do_recv with no sender queued: the receiver is parked.
\* mutant of Park: the thread blocks without entering the queue
ParkUnqueued(c, e) ==
  /\ senders[e] = <<>>
  /\ Len(receivers[e]) < Q
  /\ state'  = [state EXCEPT ![c] = "BlockedOnRecv"]
  /\ inside' = [inside EXCEPT ![c] = "recv"]
  /\ UNCHANGED <<pendingMsg, pendingFrom, senders, receivers, client>>

Park(c, e) ==
  /\ senders[e] = <<>>
  /\ Len(receivers[e]) < Q
  /\ receivers' = [receivers EXCEPT ![e] = Append(@, c)]
  /\ state'     = [state EXCEPT ![c] = "BlockedOnRecv"]
  /\ inside'    = [inside EXCEPT ![c] = "recv"]
  /\ UNCHANGED <<pendingMsg, pendingFrom, senders, client>>

\* do_reply to a thread the server received from.
Answer(c, to, m) ==
  /\ to \in client[c] /\ to # c
  /\ state[to] = "BlockedOnReply"
  /\ pendingMsg' = [pendingMsg EXCEPT ![to] = m]
  /\ state'      = [state EXCEPT ![to] = "Runnable"]
  /\ client'     = [client EXCEPT ![c] = @ \ {to}]
  /\ UNCHANGED <<pendingFrom, ep>>

\* The run states after a Reply: the caller and the replier both ready.
Answered(c, to) == NoteReady(NoteReady(entity, to), c)

\* NotBlockedOnReply: the server learns there is nobody to answer.
Refuse(c, to) ==
  /\ to \in client[c] /\ state[to] # "BlockedOnReply"
  /\ client' = [client EXCEPT ![c] = @ \ {to}]
  /\ UNCHANGED <<tcb, sched, ep, cpu, inside>>

\* The code of a thread that was inside a syscall is back on the core and
\* takes what the kernel left for it.
Resume(c) ==
  /\ inside' = [inside EXCEPT ![c] = "user"]
  /\ \/ inside[c] = "send" /\ UNCHANGED <<tcb, client>>
     \/ /\ inside[c] = "call"
        /\ pendingMsg' = [pendingMsg EXCEPT ![c] = None]
        /\ UNCHANGED <<state, pendingFrom, client>>
     \/ /\ inside[c] = "recv"
        /\ pendingMsg'  = [pendingMsg EXCEPT ![c] = None]
        /\ pendingFrom' = [pendingFrom EXCEPT ![c] = None]
        /\ client'      = [client EXCEPT ![c] = @ \cup ({pendingFrom[c]} \ {None})]
        /\ UNCHANGED state
  /\ UNCHANGED <<sched, ep, cpu>>
-----------------------------------------------------------------------------
(***************************************************************************)
(* endpoint.rs: at most one side of an endpoint is non-empty, and neither  *)
(* exceeds its capacity; all state keeps its types.                        *)
(***************************************************************************)
Rendezvous ==
  TypeOK /\ \A e \in Endpoint :
    /\ senders[e] = <<>> \/ receivers[e] = <<>>
    /\ Len(senders[e]) <= Q /\ Len(receivers[e]) <= Q

(***************************************************************************)
(* sched.rs: at most one entity is Running, and it is the one the scheduler*)
(* calls running and the thread the core really executes; the trap         *)
(* handlers take running() for the caller's identity.                      *)
(***************************************************************************)
RunningIsOnCpu ==
  cpu # None =>
    /\ running = cpu
    /\ \A t \in Thread : entity[t] = "Running" => t = cpu

(***************************************************************************)
(* tcb.rs: "Runnable: eligible to run; the scheduler's SchedEntity for     *)
(* this thread is Ready or Running", and no other thread's is.             *)
(***************************************************************************)
RunnableIsSchedulable ==
  \A t \in Thread : state[t] = "Runnable" <=> entity[t] \in {"Ready", "Running"}

(***************************************************************************)
(* A receiver whose Recv returns has been left a message and its sender    *)
(* (Tcb::pending_from: without it "no way to learn which caller to reply   *)
(* to").                                                                   *)
(***************************************************************************)
RecvReturnsMessage ==
  \A c \in Thread : cpu = c /\ inside[c] = "recv" =>
    pendingMsg[c] # None /\ pendingFrom[c] # None

(***************************************************************************)
(* A caller whose Call returns has been left a reply (SyscallOp::Call:     *)
(* "deliver msg, then block for the reply"; endpoint.rs: "a Call sender    *)
(* instead stays blocked awaiting the reply").                             *)
(***************************************************************************)
CallReturnsReply ==
  \A c \in Thread : cpu = c /\ inside[c] = "call" => pendingMsg[c] # None

(***************************************************************************)
(* A blocked thread is not forgotten: a thread blocked on a rendezvous     *)
(* waits in exactly one place of one queue, and a queued receiver is       *)
(* blocked there.                                                          *)
(***************************************************************************)
Places(queues, Is(_)) ==
  {p \in Endpoint \X (1 .. Q) : p[2] <= Len(queues[p[1]]) /\ Is(queues[p[1]][p[2]])}

BlockedIsQueued ==
  \A t \in Thread :
    /\ Cardinality(Places(receivers, LAMBDA r : r = t)) = (IF state[t] = "BlockedOnRecv" THEN 1 ELSE 0)
    /\ state[t] = "BlockedOnSend" => Cardinality(Places(senders, LAMBDA s : s.thread = t)) = 1

(***************************************************************************)
(* A parked receiver still has a scheduling entity, so a delivery can wake *)
(* it: the dead are not parked, although neither terminate_thread nor      *)
(* Scheduler::remove visits the endpoint queues.                           *)
(***************************************************************************)
ReceiversAdmitted ==
  \A e \in Endpoint : \A i \in DOMAIN receivers[e] : entity[receivers[e][i]] # "None"

(***************************************************************************)
(* terminate_thread: "a genuinely isolated microkernel does not resume a   *)
(* thread that just faulted".                                              *)
(***************************************************************************)
DeadNeverRuns == cpu # None => state[cpu] # "Exited"
=============================================================================
