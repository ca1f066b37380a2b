--------------------------------- MODULE Ipc ---------------------------------
(***************************************************************************)
(* In-kernel threads: each calls KernelState::dispatch as a function and   *)
(* then acts on the answer with yield_to.  Scheduling is cooperative, so   *)
(* control moves only in yield_to.                                         *)
(***************************************************************************)
EXTENDS IpcCore

VARIABLE parkedOnly   \* this behaviour's clients call parked receivers only

\* An in-kernel thread has one role: root_task_main only calls, thread2_main
\* and bench_server_main only receive and reply.
ASSUME RoleAssumption == Server \cap Client = {}

\* c's code executes and may enter the kernel.
Executes(c) == cpu = c /\ inside[c] = "user"

\* yield_to: hand the core to n, staying ready unless already blocked.
\* mutant of YieldTo: the outgoing thread is left Running
YieldToKeepsRunning(c, n, ent) == SwitchTo(n, ent)

YieldTo(c, n, ent) ==
  SwitchTo(n, IF ent[c] = "Running" THEN [ent EXCEPT ![c] = "Ready"] ELSE ent)

\* The answer Reschedule { next } to a thread that was just blocked: yield to
\* next; with no next the thread parks the core for good.
Reschedule(c, ent) ==
  \/ \E n \in Ready(ent) : YieldTo(c, n, ent)
  \/ Ready(ent) = {} /\ entity' = ent /\ running' = None /\ cpu' = None

\* start_thread
StartThread(c, t) ==
  /\ Executes(c) /\ state[t] = "Inactive"
  /\ state'  = [state EXCEPT ![t] = "Runnable"]
  /\ entity' = Admitted(t)
  /\ UNCHANGED <<pendingMsg, pendingFrom, running, ep, user>>

\* yield_to used on its own ("kick the server once so it reaches its Recv").
Kick(c, n) ==
  /\ Executes(c) /\ n \in Ready(entity)
  /\ YieldTo(c, n, entity)
  /\ UNCHANGED <<tcb, ep, inside, client>>

SendDelivered(c, e, m) ==
  /\ Executes(c) /\ receivers[e] # <<>>
  /\ Deliver(c, e, m, state[c])
  /\ entity' = NoteReady(entity, Head(receivers[e]))
  /\ UNCHANGED <<running, user>>

\* The fast path of Call: the receiver gets the core.
CallFast(c, e, m) ==
  /\ Executes(c) /\ receivers[e] # <<>>
  /\ Deliver(c, e, m, "BlockedOnReply")
  /\ inside' = [inside EXCEPT ![c] = "call"]
  /\ YieldTo(c, Head(receivers[e]), CallDelivered(c, e))
  /\ UNCHANGED client

SendQueued(c, e, m, kind) ==
  /\ Executes(c)
  /\ Enqueue(c, e, m, kind)
  /\ Reschedule(c, NoteBlocked(entity, c))

\* A server calls Recv from its loop, or right after Reply without having
\* switched: dispatch itself never does.
Serving(c) == cpu = c /\ inside[c] \in {"user", "reply"}

RecvNow(c, e) == Serving(c) /\ RecvImmediate(c, e)

RecvParked(c, e) ==
  /\ Serving(c)
  /\ Park(c, e)
  /\ Reschedule(c, NoteBlocked(entity, c))

\* Reply; the server runs on until it calls Recv or exits.
Reply(c, to, m) ==
  /\ Executes(c)
  /\ Answer(c, to, m)
  /\ entity' = Answered(c, to)
  /\ inside' = [inside EXCEPT ![c] = "reply"]
  /\ UNCHANGED <<running, cpu>>

ReplyRefused(c, to) == Executes(c) /\ Refuse(c, to)

\* The tail of thread2_main and bench_server_main: leave the scheduler, then
\* hand the core to a thread that is known to be ready.
Exit(c, to) ==
  /\ Serving(c) /\ c # Root /\ client[c] = {}
  /\ to \in Ready(entity) \ {c}
  /\ state' = [state EXCEPT ![c] = "Exited"]
  /\ YieldTo(c, to, [entity EXCEPT ![c] = "None"])
  /\ UNCHANGED <<pendingMsg, pendingFrom, ep, inside, client>>

Return(c) == cpu = c /\ inside[c] \in {"send", "recv", "call"} /\ Resume(c)
-----------------------------------------------------------------------------
Serve(c) ==
  \/ \E e \in Endpoint : RecvNow(c, e) \/ RecvParked(c, e)
  \/ \E to \in Thread, m \in Msg : Reply(c, to, m)
  \/ \E to \in Thread : ReplyRefused(c, to)

Others ==
  \/ \E c, t \in Thread : StartThread(c, t) \/ Kick(c, t) \/ Exit(c, t)
  \/ \E c \in Thread : Return(c)
  \/ \E c \in Server : Serve(c)
  \/ \E c \in Client, e \in Endpoint, m \in Msg :
        SendDelivered(c, e, m) \/ SendQueued(c, e, m, "send") \/ CallFast(c, e, m)

(***************************************************************************)
(* A client may call at any time; with parkedOnly it calls only while a    *)
(* receiver is parked, as both in-kernel clients arrange.                  *)
(***************************************************************************)
CallQueued ==
  /\ ~parkedOnly
  /\ \E c \in Client, e \in Endpoint, m \in Msg : SendQueued(c, e, m, "call")

Next == (Others \/ CallQueued) /\ UNCHANGED parkedOnly

Start == Init /\ parkedOnly \in BOOLEAN
Spec  == Start /\ [][Next]_<<vars, parkedOnly>>
-----------------------------------------------------------------------------
(***************************************************************************)
(* With parked receivers only, the TCB states, the scheduler and the       *)
(* endpoint queues agree on who may run and who waits where (tcb.rs:       *)
(* "Runnable: eligible to run; the scheduler's SchedEntity for this thread *)
(* is Ready or Running").                                                  *)
(***************************************************************************)
ParkedAgree == parkedOnly => RunnableIsSchedulable /\ BlockedIsQueued

(***************************************************************************)
(* With parked receivers only, a Call returns with its reply (SyscallOp::  *)
(* Call: "deliver msg, then block for the reply").                         *)
(***************************************************************************)
ParkedCallReturnsReply == parkedOnly => CallReturnsReply

(***************************************************************************)
(* With parked receivers only, a delivery never overwrites a message its   *)
(* receiver has not taken yet.                                             *)
(***************************************************************************)
ParkedNoOverwrite ==
  [][parkedOnly => \A t \in Thread : pendingMsg[t] # None /\ pendingMsg'[t] # pendingMsg[t]
                     => pendingMsg'[t] = None]_<<vars, parkedOnly>>
=============================================================================
