------------------------------ MODULE IpcProofs ------------------------------
(***************************************************************************)
(* The safety of synchronous IPC between in-kernel threads, for any number *)
(* of threads, endpoints and messages and any capacity of the queues.      *)
(*                                                                         *)
(* Two inductive invariants.  Sound holds of every behaviour: the endpoint *)
(* queues, the thread the core executes and the parked receivers.  Agreed  *)
(* holds in addition while clients call parked receivers only: the TCB     *)
(* state of every thread then determines its run state, the syscall its    *)
(* code is in, whether it waits in a queue and whether it was left a       *)
(* message.  A queued Call breaks Agreed, as the run ipc_queued_call       *)
(* shows, but never Sound.                                                 *)
(***************************************************************************)
EXTENDS Ipc, FiniteSetTheorems, TLAPS

\* W is exactly the set of threads that wait in the queues q, each in one
\* place; name says which thread an entry is.
Waiting(q, name, W) ==
  /\ \A e \in Endpoint : \A i \in 1 .. Len(q[e]) : name[q[e][i]] \in W
  /\ \A e, f \in Endpoint : \A i \in 1 .. Len(q[e]), j \in 1 .. Len(q[f]) :
       name[q[e][i]] = name[q[f][j]] => e = f /\ i = j
  /\ \A t \in W : \E e \in Endpoint : \E i \in 1 .. Len(q[e]) : name[q[e][i]] = t

Entry      == [thread : Thread, msg : Msg]
SenderName == [r \in Entry |-> r.thread]
SelfName   == [t \in Thread |-> t]
In(s)      == {t \in Thread : state[t] = s}

\* A thread has one role, in the queues and inside a syscall.
RolesKept ==
  /\ \A e \in Endpoint : \A i \in 1 .. Len(senders[e]) : senders[e][i].thread \in Client
  /\ \A t \in Thread : state[t] = "BlockedOnRecv" => t \in Server

\* The core executes a thread the scheduler knows, and no other is Running.
CoreSchedulable == cpu # None => entity[cpu] \in {"Ready", "Running"}

\* The threads blocked in Recv are the queued ones, and are really blocked.
ReceiversWait ==
  /\ Waiting(receivers, SelfName, In("BlockedOnRecv"))
  /\ \A t \in Thread : state[t] = "BlockedOnRecv" => inside[t] = "recv" /\ entity[t] = "Blocked"

\* A receiver that is no longer blocked was left a message and its sender.
ReceiversServed ==
  \A t \in Thread : inside[t] = "recv" /\ state[t] # "BlockedOnRecv" =>
    pendingMsg[t] # None /\ pendingFrom[t] # None

Sound ==
  /\ Rendezvous /\ RolesKept /\ CoreSchedulable /\ RunningIsOnCpu
  /\ ReceiversWait /\ ReceiversServed

\* What a thread's TCB state says of the rest of the system.
Unstarted(t) ==
  /\ state[t] \in {"Inactive", "Exited"} /\ entity[t] = "None"
  /\ inside[t] \in {"user", "reply"} /\ pendingMsg[t] = None
Active(t) ==
  /\ state[t] = "Runnable" /\ entity[t] \in {"Ready", "Running"}
  /\ pendingMsg[t] # None <=> inside[t] \in {"recv", "call"}
Blocked(t) ==
  /\ entity[t] = "Blocked" /\ pendingMsg[t] = None
  /\ \/ state[t] = "BlockedOnSend"  /\ inside[t] = "send"
     \/ state[t] = "BlockedOnRecv"  /\ inside[t] = "recv"
     \/ state[t] = "BlockedOnReply" /\ inside[t] = "call"

Agreed ==
  /\ \A t \in Thread : Unstarted(t) \/ Active(t) \/ Blocked(t)
  /\ Waiting(senders, SenderName, In("BlockedOnSend"))

IInv == Sound /\ (parkedOnly => Agreed)
-----------------------------------------------------------------------------
(* Queues *)

\* What Head, Tail and Append do to the places of a queue.
LEMMA TailPlaces ==
  ASSUME NEW X, NEW s \in Seq(X), s # <<>>
  PROVE  /\ Head(s) \in X /\ Head(s) = s[1] /\ 1 \in 1 .. Len(s)
         /\ Tail(s) \in Seq(X) /\ Len(Tail(s)) = Len(s) - 1 /\ Len(s) \in Nat
         /\ \A i \in 1 .. Len(Tail(s)) : Tail(s)[i] = s[i + 1] /\ i + 1 \in 1 .. Len(s)
  OBVIOUS

LEMMA AppendPlaces ==
  ASSUME NEW X, NEW s \in Seq(X), NEW x \in X
  PROVE  /\ Append(s, x) \in Seq(X) /\ Len(Append(s, x)) = Len(s) + 1 /\ Len(s) \in Nat
         /\ Append(s, x) # <<>>
         /\ \A i \in 1 .. Len(s) : Append(s, x)[i] = s[i] /\ i \in 1 .. Len(s) + 1
         /\ Append(s, x)[Len(s) + 1] = x
  OBVIOUS

\* A thread that joins a queue is one more that waits.
LEMMA JoinQueue ==
  ASSUME NEW X, NEW q \in [Endpoint -> Seq(X)], NEW name \in [X -> Thread],
         NEW W, NEW e \in Endpoint, NEW x \in X,
         Waiting(q, name, W), name[x] \notin W
  PROVE  Waiting([q EXCEPT ![e] = Append(@, x)], name, W \union {name[x]})
<1> DEFINE r == [q EXCEPT ![e] = Append(@, x)]
           n == Len(q[e])
<1>1. q[e] \in Seq(X) /\ n \in Nat
  OBVIOUS
<1>2. /\ r[e] = Append(q[e], x) /\ Len(r[e]) = n + 1
      /\ \A i \in 1 .. n : r[e][i] = q[e][i]
      /\ r[e][n + 1] = x
  BY <1>1, AppendPlaces
<1>3. \A f \in Endpoint : f # e => r[f] = q[f]
  OBVIOUS
\* A place of the new queues is an old one, or the new last one of e.
<1>4. ASSUME NEW f \in Endpoint, NEW i \in 1 .. Len(r[f])
      PROVE  \/ i \in 1 .. Len(q[f]) /\ r[f][i] = q[f][i]
             \/ f = e /\ i = n + 1 /\ r[f][i] = x
  BY <1>1, <1>2, <1>3
<1>5. ASSUME NEW f \in Endpoint, NEW i \in 1 .. Len(q[f])
      PROVE  i \in 1 .. Len(r[f]) /\ r[f][i] = q[f][i]
  BY <1>1, <1>2, <1>3
<1>6. n + 1 \in 1 .. Len(r[e]) /\ r[e][n + 1] = x
  BY <1>1, <1>2
<1> HIDE DEF r, n
<1>7. \A f \in Endpoint : \A i \in 1 .. Len(r[f]) : name[r[f][i]] \in W \union {name[x]}
  BY <1>4 DEF Waiting
<1>8. ASSUME NEW f \in Endpoint, NEW g \in Endpoint,
             NEW i \in 1 .. Len(r[f]), NEW j \in 1 .. Len(r[g]),
             name[r[f][i]] = name[r[g][j]]
      PROVE  f = g /\ i = j
  <2>0. \A g1 \in Endpoint : \A j1 \in 1 .. Len(q[g1]) : name[q[g1][j1]] # name[x]
    BY DEF Waiting
  <2>1. name[r[f][i]] = name[x] => f = e /\ i = n + 1
    BY <1>4, <2>0
  <2>2. name[r[g][j]] = name[x] => g = e /\ j = n + 1
    BY <1>4, <2>0
  <2>3. CASE name[r[f][i]] = name[x] BY <2>1, <2>2, <2>3, <1>8
  <2>4. CASE name[r[f][i]] # name[x]
    <3>1. i \in 1 .. Len(q[f]) /\ r[f][i] = q[f][i]
      BY <1>4, <2>4
    <3>2. j \in 1 .. Len(q[g]) /\ r[g][j] = q[g][j]
      BY <1>4, <1>8, <2>4
    <3> QED BY <3>1, <3>2, <1>8 DEF Waiting
  <2> QED BY <2>3, <2>4
<1>9. ASSUME NEW t \in W \union {name[x]}
      PROVE  \E f \in Endpoint : \E i \in 1 .. Len(r[f]) : name[r[f][i]] = t
  <2>1. CASE t = name[x] BY <2>1, <1>6
  <2>2. CASE t \in W
    <3>1. PICK f \in Endpoint : \E i \in 1 .. Len(q[f]) : name[q[f][i]] = t
      BY <2>2 DEF Waiting
    <3> QED BY <3>1, <1>5
  <2> QED BY <2>1, <2>2
<1>10. Waiting(r, name, W \union {name[x]})
  BY <1>7, <1>8, <1>9 DEF Waiting
<1> QED BY <1>10 DEF r

\* Whoever is taken from the head of a queue waits no longer.
LEMMA LeaveQueue ==
  ASSUME NEW X, NEW q \in [Endpoint -> Seq(X)], NEW name \in [X -> Thread],
         NEW W, NEW e \in Endpoint, q[e] # <<>>,
         Waiting(q, name, W)
  PROVE  /\ Head(q[e]) \in X /\ name[Head(q[e])] \in W
         /\ Waiting([q EXCEPT ![e] = Tail(@)], name, W \ {name[Head(q[e])]})
<1> DEFINE r == [q EXCEPT ![e] = Tail(@)]
           h == Head(q[e])
<1>1. q[e] \in Seq(X)
  OBVIOUS
<1>2. /\ h \in X /\ h = q[e][1] /\ 1 \in 1 .. Len(q[e]) /\ Len(q[e]) \in Nat
      /\ r[e] = Tail(q[e]) /\ Len(r[e]) = Len(q[e]) - 1
      /\ \A i \in 1 .. Len(r[e]) : r[e][i] = q[e][i + 1] /\ i + 1 \in 1 .. Len(q[e])
  BY <1>1, TailPlaces
<1>3. \A f \in Endpoint : f # e => r[f] = q[f]
  OBVIOUS
<1> DEFINE was(f, i) == IF f = e THEN i + 1 ELSE i
<1>4. ASSUME NEW f \in Endpoint, NEW i \in 1 .. Len(r[f])
      PROVE  /\ i \in Nat /\ was(f, i) \in 1 .. Len(q[f]) /\ r[f][i] = q[f][was(f, i)]
             /\ f = e => was(f, i) # 1
  BY <1>1, <1>2, <1>3
<1>5. ASSUME NEW f \in Endpoint, NEW j \in 1 .. Len(q[f]), f # e \/ j # 1
      PROVE  \E i \in 1 .. Len(r[f]) : r[f][i] = q[f][j]
  <2>1. CASE f # e BY <2>1, <1>3
  <2>2. CASE f = e
    <3>1. j - 1 \in 1 .. Len(r[e]) /\ (j - 1) + 1 = j
      BY <2>2, <1>5, <1>2
    <3>2. r[e][j - 1] = q[e][(j - 1) + 1]
      BY <3>1, <1>2
    <3> QED BY <3>1, <3>2, <2>2
  <2> QED BY <2>1, <2>2
<1> HIDE DEF r, h
<1>6. name[h] \in W
  BY <1>2 DEF Waiting
<1>7. \A f \in Endpoint : \A i \in 1 .. Len(r[f]) : name[r[f][i]] \in W \ {name[h]}
  <2> SUFFICES ASSUME NEW f \in Endpoint, NEW i \in 1 .. Len(r[f])
               PROVE  name[r[f][i]] \in W \ {name[h]}
    OBVIOUS
  <2>1. name[q[f][was(f, i)]] \in W
    BY <1>4 DEF Waiting
  <2>2. name[q[f][was(f, i)]] = name[q[e][1]] => f = e /\ was(f, i) = 1
    BY <1>4, <1>2 DEF Waiting
  <2> QED BY <2>1, <2>2, <1>2, <1>4
<1>8. ASSUME NEW f \in Endpoint, NEW g \in Endpoint,
             NEW i \in 1 .. Len(r[f]), NEW j \in 1 .. Len(r[g]),
             name[r[f][i]] = name[r[g][j]]
      PROVE  f = g /\ i = j
  <2>1. was(f, i) \in 1 .. Len(q[f]) /\ r[f][i] = q[f][was(f, i)]
    BY <1>4
  <2>2. was(g, j) \in 1 .. Len(q[g]) /\ r[g][j] = q[g][was(g, j)]
    BY <1>4
  <2>3. f = g /\ was(f, i) = was(g, j)
    <3> HIDE DEF was
    <3> QED BY <2>1, <2>2, <1>8 DEF Waiting
  <2> QED BY <2>3, <1>4
<1>9. ASSUME NEW t \in W \ {name[h]}
      PROVE  \E f \in Endpoint : \E i \in 1 .. Len(r[f]) : name[r[f][i]] = t
  <2>0. PICK f \in Endpoint : \E j \in 1 .. Len(q[f]) : name[q[f][j]] = t
    BY DEF Waiting
  <2>1. PICK j \in 1 .. Len(q[f]) : name[q[f][j]] = t
    BY <2>0
  <2>2. f # e \/ j # 1
    BY <2>1, <1>2
  <2> QED BY <2>1, <2>2, <1>5
<1>10. Waiting(r, name, W \ {name[h]})
  BY <1>7, <1>8, <1>9 DEF Waiting
<1> QED BY <1>2, <1>6, <1>10 DEF r, h
-----------------------------------------------------------------------------
(* Control *)

\* The core was handed to a ready thread, or parked, with ent the run states
\* before: nobody else's eligibility changes.
Moved(ent) ==
  /\ entity' \in [Thread -> RunState \cup {"None"}]
  /\ running' \in Thread \cup {None} /\ cpu' \in Thread \cup {None}
  /\ \A t \in Thread : /\ entity'[t] = "None" <=> ent[t] = "None"
                       /\ entity'[t] = "Blocked" <=> ent[t] = "Blocked"
  /\ cpu' # None => /\ running' = cpu' /\ ent[cpu'] = "Ready" /\ entity'[cpu'] = "Running"
                    /\ \A t \in Thread : entity'[t] = "Running" => t = cpu'

LEMMA YieldMoves ==
  ASSUME NEW c \in Thread, NEW n \in Thread, NEW ent \in [Thread -> RunState \cup {"None"}],
         ent[n] = "Ready", \A t \in Thread : ent[t] = "Running" => t = c,
         YieldTo(c, n, ent)
  PROVE  Moved(ent)
<1> DEFINE e1 == IF ent[c] = "Running" THEN [ent EXCEPT ![c] = "Ready"] ELSE ent
<1>1. /\ e1 \in [Thread -> RunState \cup {"None"}] /\ e1[n] = "Ready"
      /\ \A t \in Thread : e1[t] # "Running"
      /\ \A t \in Thread : (e1[t] = "None" <=> ent[t] = "None") /\ (e1[t] = "Blocked" <=> ent[t] = "Blocked")
  BY DEF RunState
<1>2. SwitchTo(n, e1)
  BY DEF YieldTo
<1> HIDE DEF e1
<1>3. /\ entity' = [e1 EXCEPT ![n] = "Running"] /\ running' = n /\ cpu' = n
  BY <1>1, <1>2 DEF SwitchTo
<1> QED BY <1>1, <1>3, ThreadAssumption DEF Moved, RunState

LEMMA RescheduleMoves ==
  ASSUME NEW c \in Thread, NEW ent \in [Thread -> RunState \cup {"None"}],
         \A t \in Thread : ent[t] = "Running" => t = c,
         Reschedule(c, ent)
  PROVE  Moved(ent)
<1>1. CASE \E n \in Ready(ent) : YieldTo(c, n, ent)
  <2>1. PICK n \in Ready(ent) : YieldTo(c, n, ent)
    BY <1>1
  <2>2. n \in Thread /\ ent[n] = "Ready"
    BY DEF Ready
  <2> QED BY <2>1, <2>2, YieldMoves
<1>2. CASE entity' = ent /\ running' = None /\ cpu' = None
  BY <1>2 DEF Moved
<1> QED BY <1>1, <1>2 DEF Reschedule
-----------------------------------------------------------------------------
(* Every behaviour *)

LEMMA InitSound == Init => Sound
<1> SUFFICES ASSUME Init PROVE Sound
  OBVIOUS
<1> USE ThreadAssumption
<1>1. TypeOK
  BY DEF Init, TypeOK, ThreadState, RunState
<1>2. Rendezvous
  BY <1>1, QueueAssumption DEF Rendezvous, Init
<1>3. RolesKept /\ CoreSchedulable /\ RunningIsOnCpu /\ ReceiversServed
  BY DEF Init, RolesKept, CoreSchedulable, RunningIsOnCpu, ReceiversServed
<1>4. Waiting(receivers, SelfName, In("BlockedOnRecv"))
  BY DEF Init, Waiting, In
<1>5. ReceiversWait
  BY <1>4 DEF Init, ReceiversWait
<1> QED BY <1>2, <1>3, <1>5 DEF Sound

\* A step that leaves the receiver queues and the blocked receivers alone
\* leaves the rest of what ReceiversWait says of them.
LEMMA SameReceivers ==
  ASSUME ReceiversWait, UNCHANGED receivers, In("BlockedOnRecv")' = In("BlockedOnRecv")
  PROVE  Waiting(receivers, SelfName, In("BlockedOnRecv"))'
<1>1. Waiting(receivers, SelfName, In("BlockedOnRecv"))
  BY DEF ReceiversWait
<1> QED BY <1>1 DEF Waiting

LEMMA StutterSound == Sound /\ UNCHANGED vars => Sound'
<1> SUFFICES ASSUME Sound, UNCHANGED vars PROVE Sound'
  OBVIOUS
<1>0. UNCHANGED <<state, pendingMsg, pendingFrom, entity, running, senders, receivers, cpu, inside, client>>
  BY DEF vars, tcb, sched, ep, user
<1>1. Rendezvous'
  BY <1>0 DEF Sound, Rendezvous, TypeOK
<1>2. RolesKept' /\ CoreSchedulable' /\ RunningIsOnCpu' /\ ReceiversServed'
  BY <1>0 DEF Sound, RolesKept, CoreSchedulable, RunningIsOnCpu, ReceiversServed
<1>3. In("BlockedOnRecv")' = In("BlockedOnRecv")
  BY <1>0 DEF In
<1>4. ReceiversWait'
  BY <1>0, <1>3, SameReceivers DEF Sound, ReceiversWait
<1> QED BY <1>1, <1>2, <1>4 DEF Sound

LEMMA StartThreadSound ==
  ASSUME Sound, NEW c \in Thread, NEW t \in Thread, StartThread(c, t)
  PROVE  Sound'
<1> USE ThreadAssumption DEF Sound
<1>0. /\ TypeOK /\ cpu = c /\ state[t] = "Inactive"
      /\ state' = [state EXCEPT ![t] = "Runnable"] /\ entity' = [entity EXCEPT ![t] = "Ready"]
      /\ UNCHANGED <<pendingMsg, pendingFrom, running, senders, receivers, cpu, inside, client>>
  BY DEF StartThread, Executes, Rendezvous, ep, user, Admitted
<1>1. TypeOK'
  BY <1>0 DEF TypeOK, ThreadState, RunState
<1>2. Rendezvous'
  BY <1>0, <1>1 DEF Rendezvous
<1>3. RolesKept'
  BY <1>0 DEF RolesKept, TypeOK
<1>4. CoreSchedulable' /\ RunningIsOnCpu'
  BY <1>0 DEF CoreSchedulable, RunningIsOnCpu, TypeOK
<1>5. In("BlockedOnRecv")' = In("BlockedOnRecv")
  BY <1>0 DEF In, TypeOK
<1>6. ReceiversWait'
  <2>1. Waiting(receivers, SelfName, In("BlockedOnRecv"))'
    BY <1>0, <1>5, SameReceivers
  <2> QED BY <2>1, <1>0 DEF ReceiversWait, TypeOK
<1>7. ReceiversServed'
  BY <1>0 DEF ReceiversServed, TypeOK, ReceiversWait
<1> QED BY <1>2, <1>3, <1>4, <1>6, <1>7
LEMMA KickSound ==
  ASSUME Sound, NEW c \in Thread, NEW n \in Thread, Kick(c, n)
  PROVE  Sound'
<1> USE ThreadAssumption DEF Sound
<1>0. /\ TypeOK /\ cpu = c /\ entity[n] = "Ready" /\ YieldTo(c, n, entity)
      /\ UNCHANGED <<state, pendingMsg, pendingFrom, senders, receivers, inside, client>>
  BY DEF Kick, Executes, Rendezvous, ep, tcb, Ready
<1>1. Moved(entity)
  <2>1. entity \in [Thread -> RunState \cup {"None"}]
    BY <1>0 DEF TypeOK
  <2>2. \A t \in Thread : entity[t] = "Running" => t = c
    BY <1>0 DEF RunningIsOnCpu
  <2> QED BY <1>0, <2>1, <2>2, YieldMoves
<1>2. Rendezvous'
  BY <1>0, <1>1 DEF Rendezvous, TypeOK, Moved
<1>3. RolesKept' /\ ReceiversServed'
  BY <1>0 DEF RolesKept, ReceiversServed
<1>4. CoreSchedulable' /\ RunningIsOnCpu'
  BY <1>1 DEF Moved, CoreSchedulable, RunningIsOnCpu
<1>5. ReceiversWait'
  <2>1. In("BlockedOnRecv")' = In("BlockedOnRecv")
    BY <1>0 DEF In
  <2>2. Waiting(receivers, SelfName, In("BlockedOnRecv"))'
    BY <1>0, <2>1, SameReceivers
  <2> QED BY <2>2, <1>0, <1>1 DEF ReceiversWait, Moved
<1> QED BY <1>2, <1>3, <1>4, <1>5

\* Delivery takes the thread at the head of the queue, which is blocked in
\* Recv and not on the core, and leaves exactly the others waiting.
LEMMA DeliverTakesReceiver ==
  ASSUME Sound, NEW c \in Thread, cpu = c, NEW e \in Endpoint, NEW m \in Msg, NEW s \in ThreadState,
         s # "BlockedOnRecv", receivers[e] # <<>>, Deliver(c, e, m, s)
  PROVE  LET rx == Head(receivers[e]) IN
         /\ rx \in Thread /\ rx # c /\ state[rx] = "BlockedOnRecv" /\ entity[rx] = "Blocked"
         /\ inside[rx] = "recv"
         /\ state' = [state EXCEPT ![rx] = "Runnable", ![c] = s] /\ state' \in [Thread -> ThreadState]
         /\ pendingMsg' = [pendingMsg EXCEPT ![rx] = m]
         /\ pendingFrom' = [pendingFrom EXCEPT ![rx] = c]
         /\ receivers' \in [Endpoint -> Seq(Thread)] /\ senders' = senders
         /\ \A f \in Endpoint : /\ senders[f] = <<>> \/ receivers'[f] = <<>>
                                /\ Len(receivers'[f]) <= Q
         /\ Waiting(receivers, SelfName, In("BlockedOnRecv"))'
<1> DEFINE rx == Head(receivers[e])
<1> USE DEF Sound
<1>0. TypeOK
  BY DEF Rendezvous
<1>1. /\ receivers \in [Endpoint -> Seq(Thread)] /\ SelfName \in [Thread -> Thread]
      /\ Waiting(receivers, SelfName, In("BlockedOnRecv"))
  BY <1>0 DEF TypeOK, SelfName, ReceiversWait
<1>2. /\ rx \in Thread /\ SelfName[rx] \in In("BlockedOnRecv")
      /\ Waiting([receivers EXCEPT ![e] = Tail(@)], SelfName, In("BlockedOnRecv") \ {SelfName[rx]})
  <2> HIDE DEF Sound
  <2> QED BY <1>1, LeaveQueue
<1>3. rx \in Thread /\ state[rx] = "BlockedOnRecv" /\ SelfName[rx] = rx
  BY <1>2 DEF SelfName, In
<1>4. entity[rx] = "Blocked" /\ inside[rx] = "recv"
  BY <1>3 DEF ReceiversWait
<1>5. rx # c
  BY <1>4, ThreadAssumption DEF CoreSchedulable
<1>6. /\ receivers' = [receivers EXCEPT ![e] = Tail(@)]
      /\ pendingMsg' = [pendingMsg EXCEPT ![rx] = m]
      /\ pendingFrom' = [pendingFrom EXCEPT ![rx] = c]
      /\ state' = [state EXCEPT ![rx] = "Runnable", ![c] = s]
      /\ senders' = senders
  BY DEF Deliver
<1> HIDE DEF rx
<1>7. state' \in [Thread -> ThreadState]
  BY <1>0, <1>3, <1>6 DEF TypeOK, ThreadState
<1>8. In("BlockedOnRecv")' = In("BlockedOnRecv") \ {rx}
  <2>1. state[c] # "BlockedOnRecv"
    BY ThreadAssumption DEF CoreSchedulable, ReceiversWait
  <2> QED BY <1>0, <1>3, <1>5, <1>6, <2>1 DEF In, TypeOK
<1>9. Waiting(receivers, SelfName, In("BlockedOnRecv"))'
  <2>1. Waiting(receivers', SelfName, In("BlockedOnRecv")')
    BY <1>2, <1>3, <1>6, <1>8
  <2> QED BY <2>1 DEF Waiting
<1>10. receivers[e] \in Seq(Thread) /\ Len(receivers[e]) <= Q /\ senders[e] = <<>>
  BY <1>1 DEF Rendezvous
<1>11. Tail(receivers[e]) \in Seq(Thread) /\ Len(Tail(receivers[e])) <= Q
  BY <1>10, TailPlaces, QueueAssumption
<1>12. receivers' \in [Endpoint -> Seq(Thread)]
  BY <1>1, <1>6, <1>11
<1>13. \A f \in Endpoint : /\ senders[f] = <<>> \/ receivers'[f] = <<>>
                           /\ Len(receivers'[f]) <= Q
  BY <1>1, <1>6, <1>10, <1>11 DEF Rendezvous
<1> QED
  BY <1>3, <1>4, <1>5, <1>6, <1>7, <1>9, <1>12, <1>13 DEF rx
LEMMA SendDeliveredSound ==
  ASSUME Sound, NEW c \in Thread, NEW e \in Endpoint, NEW m \in Msg, SendDelivered(c, e, m)
  PROVE  Sound'
<1> DEFINE rx == Head(receivers[e])
<1> USE ThreadAssumption DEF Sound
<1>0. /\ TypeOK /\ cpu = c /\ receivers[e] # <<>> /\ Deliver(c, e, m, state[c])
      /\ entity' = NoteReady(entity, rx) /\ UNCHANGED <<running, cpu, inside, client>>
  BY DEF SendDelivered, Executes, Rendezvous, user
<1>1. state[c] \in ThreadState /\ state[c] # "BlockedOnRecv"
  BY <1>0 DEF TypeOK, CoreSchedulable, ReceiversWait
<1>2. /\ rx \in Thread /\ rx # c /\ state[rx] = "BlockedOnRecv" /\ entity[rx] = "Blocked"
      /\ state' = [state EXCEPT ![rx] = "Runnable", ![c] = state[c]] /\ state' \in [Thread -> ThreadState]
      /\ pendingMsg' = [pendingMsg EXCEPT ![rx] = m]
      /\ pendingFrom' = [pendingFrom EXCEPT ![rx] = c]
      /\ receivers' \in [Endpoint -> Seq(Thread)] /\ senders' = senders
      /\ \A f \in Endpoint : /\ senders[f] = <<>> \/ receivers'[f] = <<>>
                             /\ Len(receivers'[f]) <= Q
      /\ Waiting(receivers, SelfName, In("BlockedOnRecv"))'
  <2> HIDE DEF Sound
  <2> QED BY <1>0, <1>1, DeliverTakesReceiver
<1> HIDE DEF rx
<1>3. entity' = [entity EXCEPT ![rx] = "Ready"]
  BY <1>0, <1>2 DEF NoteReady
<1>4. TypeOK'
  BY <1>0, <1>2, <1>3 DEF TypeOK, RunState
<1>5. Rendezvous'
  BY <1>2, <1>4 DEF Rendezvous
<1>6. RolesKept'
  BY <1>0, <1>2 DEF RolesKept, TypeOK
<1>7. CoreSchedulable' /\ RunningIsOnCpu'
  BY <1>0, <1>2, <1>3 DEF CoreSchedulable, RunningIsOnCpu, TypeOK
<1>8. ReceiversWait'
  BY <1>0, <1>2, <1>3 DEF ReceiversWait, TypeOK
<1>9. ReceiversServed'
  BY <1>0, <1>2 DEF ReceiversServed, TypeOK
<1> QED BY <1>5, <1>6, <1>7, <1>8, <1>9

LEMMA CallFastSound ==
  ASSUME Sound, NEW c \in Thread, NEW e \in Endpoint, NEW m \in Msg, CallFast(c, e, m)
  PROVE  Sound'
<1> DEFINE rx  == Head(receivers[e])
           ent == CallDelivered(c, e)
<1> USE ThreadAssumption DEF Sound
<1>0. /\ TypeOK /\ cpu = c /\ receivers[e] # <<>> /\ Deliver(c, e, m, "BlockedOnReply")
      /\ inside' = [inside EXCEPT ![c] = "call"]
      /\ YieldTo(c, rx, ent) /\ UNCHANGED client
  BY DEF CallFast, Executes, Rendezvous
<1>2. /\ rx \in Thread /\ rx # c /\ state[rx] = "BlockedOnRecv" /\ entity[rx] = "Blocked"
      /\ state' = [state EXCEPT ![rx] = "Runnable", ![c] = "BlockedOnReply"]
      /\ state' \in [Thread -> ThreadState]
      /\ pendingMsg' = [pendingMsg EXCEPT ![rx] = m]
      /\ pendingFrom' = [pendingFrom EXCEPT ![rx] = c]
      /\ receivers' \in [Endpoint -> Seq(Thread)] /\ senders' = senders
      /\ \A f \in Endpoint : /\ senders[f] = <<>> \/ receivers'[f] = <<>>
                             /\ Len(receivers'[f]) <= Q
      /\ Waiting(receivers, SelfName, In("BlockedOnRecv"))'
  <2> HIDE DEF Sound
  <2>1. "BlockedOnReply" \in ThreadState
    BY DEF ThreadState
  <2> QED BY <1>0, <2>1, DeliverTakesReceiver
<1>3. ent = [entity EXCEPT ![rx] = "Ready", ![c] = "Blocked"]
  <2>1. entity[c] \in {"Ready", "Running"}
    BY <1>0 DEF CoreSchedulable
  <2> QED BY <1>0, <1>2, <2>1 DEF CallDelivered, NoteBlocked, NoteReady, TypeOK
<1> HIDE DEF rx, ent
<1>4. Moved(ent)
  <2>1. ent \in [Thread -> RunState \cup {"None"}] /\ ent[rx] = "Ready"
    BY <1>0, <1>2, <1>3 DEF TypeOK, RunState
  <2>2. \A t \in Thread : ent[t] = "Running" => t = c
    BY <1>0, <1>2, <1>3 DEF TypeOK, RunningIsOnCpu
  <2> QED BY <1>0, <1>2, <2>1, <2>2, YieldMoves
<1>5. TypeOK'
  BY <1>0, <1>2, <1>4 DEF TypeOK, Moved
<1>6. Rendezvous'
  BY <1>2, <1>5 DEF Rendezvous
<1>7. RolesKept'
  BY <1>0, <1>2 DEF RolesKept, TypeOK
<1>8. CoreSchedulable' /\ RunningIsOnCpu'
  BY <1>4 DEF CoreSchedulable, RunningIsOnCpu, Moved
<1>9. ReceiversWait'
  BY <1>0, <1>2, <1>3, <1>4 DEF ReceiversWait, TypeOK, Moved
<1>10. ReceiversServed'
  BY <1>0, <1>2 DEF ReceiversServed, TypeOK
<1> QED BY <1>6, <1>7, <1>8, <1>9, <1>10

\* The run states after the thread on the core has blocked: it is the only one
\* that loses its turn, and some other thread or none gets the core.
LEMMA BlockMoves ==
  ASSUME Sound, NEW c \in Thread, cpu = c, Reschedule(c, NoteBlocked(entity, c))
  PROVE  /\ Moved([entity EXCEPT ![c] = "Blocked"])
         /\ [entity EXCEPT ![c] = "Blocked"] \in [Thread -> RunState \cup {"None"}]
<1> DEFINE ent == NoteBlocked(entity, c)
<1> USE ThreadAssumption DEF Sound
<1>1. TypeOK /\ entity[c] \in {"Ready", "Running"}
  BY DEF CoreSchedulable, Rendezvous
<1>2. ent = [entity EXCEPT ![c] = "Blocked"]
  BY <1>1 DEF NoteBlocked
<1>3. ent \in [Thread -> RunState \cup {"None"}]
  BY <1>1, <1>2 DEF TypeOK, RunState
<1>4. \A t \in Thread : ent[t] = "Running" => t = c
  BY <1>1, <1>2 DEF TypeOK, RunningIsOnCpu
<1>5. Reschedule(c, ent)
  OBVIOUS
<1> HIDE DEF ent
<1>6. Moved(ent)
  BY <1>3, <1>4, <1>5, RescheduleMoves
<1> QED BY <1>2, <1>3, <1>6

LEMMA SendQueuedSound ==
  ASSUME Sound, NEW c \in Client, NEW e \in Endpoint, NEW m \in Msg, NEW kind \in {"send", "call"},
         SendQueued(c, e, m, kind)
  PROVE  Sound'
<1> DEFINE ent == [entity EXCEPT ![c] = "Blocked"]
           s   == IF kind = "call" THEN "BlockedOnReply" ELSE "BlockedOnSend"
<1> USE ThreadAssumption DEF Sound
<1>0. /\ TypeOK /\ c \in Thread /\ cpu = c /\ receivers[e] = <<>> /\ Len(senders[e]) < Q
      /\ senders' = [senders EXCEPT ![e] = Append(@, [thread |-> c, msg |-> m])]
      /\ state' = [state EXCEPT ![c] = s] /\ inside' = [inside EXCEPT ![c] = kind]
      /\ UNCHANGED <<pendingMsg, pendingFrom, receivers, client>>
      /\ Reschedule(c, NoteBlocked(entity, c))
  BY DEF SendQueued, Enqueue, Executes, Rendezvous
<1>1. Moved(ent) /\ ent \in [Thread -> RunState \cup {"None"}]
  <2> HIDE DEF Sound
  <2> QED BY <1>0, BlockMoves
<1>2. state[c] # "BlockedOnRecv"
  BY <1>0 DEF CoreSchedulable, ReceiversWait
<1>3. /\ senders' \in [Endpoint -> Seq(Entry)]
      /\ \A f \in Endpoint : (senders'[f] = <<>> \/ receivers[f] = <<>>) /\ Len(senders'[f]) <= Q
      /\ \A f \in Endpoint : \A i \in 1 .. Len(senders'[f]) : senders'[f][i].thread \in Client
  <2>1. senders \in [Endpoint -> Seq(Entry)] /\ [thread |-> c, msg |-> m] \in Entry
    BY <1>0 DEF TypeOK, Entry
  <2> DEFINE x == [thread |-> c, msg |-> m]
  <2>2. x.thread \in Client
    OBVIOUS
  <2> HIDE DEF x
  <2>3. senders'[e] = Append(senders[e], x) /\ senders[e] \in Seq(Entry) /\ x \in Entry
    BY <1>0, <2>1 DEF x
  <2>4. /\ senders'[e] \in Seq(Entry) /\ Len(senders'[e]) = Len(senders[e]) + 1 /\ Len(senders[e]) \in Nat
        /\ \A i \in 1 .. Len(senders[e]) : senders'[e][i] = senders[e][i]
        /\ senders'[e][Len(senders[e]) + 1] = x
    BY <2>3, AppendPlaces
  <2>5. \A f \in Endpoint : f # e => senders'[f] = senders[f]
    BY <1>0, <2>1
  <2>6. senders' \in [Endpoint -> Seq(Entry)]
    BY <1>0, <2>1, <2>3, <2>4
  <2>7. Len(senders'[e]) <= Q
    BY <1>0, <2>4, QueueAssumption
  <2>8. \A i \in 1 .. Len(senders'[e]) : senders'[e][i].thread \in Client
    BY <2>2, <2>4 DEF RolesKept
  <2> QED BY <1>0, <2>5, <2>6, <2>7, <2>8 DEF Rendezvous, RolesKept
<1> HIDE DEF ent
<1>4. TypeOK'
  BY <1>0, <1>1, <1>3 DEF TypeOK, Moved, ThreadState, Entry
<1>5. Rendezvous'
  BY <1>0, <1>3, <1>4 DEF Rendezvous
<1>6. RolesKept'
  BY <1>0, <1>3 DEF RolesKept, TypeOK
<1>7. CoreSchedulable' /\ RunningIsOnCpu'
  BY <1>1 DEF CoreSchedulable, RunningIsOnCpu, Moved
<1>8. ReceiversWait'
  <2>1. In("BlockedOnRecv")' = In("BlockedOnRecv")
    BY <1>0, <1>2 DEF In, TypeOK
  <2>2. Waiting(receivers, SelfName, In("BlockedOnRecv"))'
    BY <1>0, <2>1, SameReceivers
  <2> QED BY <2>2, <1>0, <1>1, <1>2 DEF ReceiversWait, TypeOK, Moved, ent
<1>9. ReceiversServed'
  BY <1>0, <1>2 DEF ReceiversServed, TypeOK
<1> QED BY <1>5, <1>6, <1>7, <1>8, <1>9
\* Where RoleAssumption is needed: the sender that Recv makes runnable is no
\* receiver, so nobody leaves Recv without a message.
LEMMA RecvNowSound ==
  ASSUME Sound, NEW c \in Server, NEW e \in Endpoint, RecvNow(c, e)
  PROVE  Sound'
<1> DEFINE from == Head(senders[e]).thread
           s    == IF state[from] = "BlockedOnReply" THEN "BlockedOnReply" ELSE "Runnable"
<1> USE ThreadAssumption DEF Sound
<1>0. /\ TypeOK /\ c \in Thread /\ cpu = c /\ senders[e] # <<>>
      /\ state' = [state EXCEPT ![from] = IF @ = "BlockedOnReply" THEN @ ELSE "Runnable"]
      /\ entity' = NoteReady(entity, from)
      /\ client' = [client EXCEPT ![c] = @ \cup {from}]
      /\ senders' = [senders EXCEPT ![e] = Tail(@)]
      /\ inside' = [inside EXCEPT ![c] = "user"]
      /\ UNCHANGED <<pendingMsg, pendingFrom, running, receivers, cpu>>
  BY DEF RecvNow, Serving, RecvImmediate, Rendezvous
<1>1. /\ senders[e] \in Seq(Entry) /\ senders \in [Endpoint -> Seq(Entry)]
      /\ Len(senders[e]) <= Q /\ receivers[e] = <<>>
  BY <1>0 DEF TypeOK, Entry, Rendezvous
<1>2. /\ Head(senders[e]) = senders[e][1] /\ 1 \in 1 .. Len(senders[e])
      /\ Tail(senders[e]) \in Seq(Entry) /\ Len(Tail(senders[e])) = Len(senders[e]) - 1
      /\ Len(senders[e]) \in Nat
      /\ \A i \in 1 .. Len(Tail(senders[e])) :
           Tail(senders[e])[i] = senders[e][i + 1] /\ i + 1 \in 1 .. Len(senders[e])
  BY <1>0, <1>1, TailPlaces
<1>3. from \in Client /\ from \in Thread /\ from # c /\ state[from] # "BlockedOnRecv"
  <2>1. from \in Client
    BY <1>2 DEF RolesKept
  <2> QED BY <2>1, RoleAssumption DEF RolesKept
<1>4. state' = [state EXCEPT ![from] = s] /\ s \in ThreadState /\ s # "BlockedOnRecv"
  BY <1>0, <1>3 DEF ThreadState
<1>5. entity' = [entity EXCEPT ![from] = IF @ = "None" THEN @ ELSE "Ready"]
  BY <1>0, <1>3 DEF NoteReady, TypeOK
<1> HIDE DEF from, s
<1>6. /\ senders' \in [Endpoint -> Seq(Entry)]
      /\ \A f \in Endpoint : (senders'[f] = <<>> \/ receivers[f] = <<>>) /\ Len(senders'[f]) <= Q
      /\ \A f \in Endpoint : \A i \in 1 .. Len(senders'[f]) : senders'[f][i].thread \in Client
  <2>1. senders' \in [Endpoint -> Seq(Entry)]
    BY <1>0, <1>1, <1>2
  <2>2. senders'[e] = Tail(senders[e]) /\ \A f \in Endpoint : f # e => senders'[f] = senders[f]
    BY <1>0, <1>1
  <2>3. Len(senders'[e]) <= Q
    BY <1>1, <1>2, <2>2, QueueAssumption
  <2>4. \A i \in 1 .. Len(senders'[e]) : senders'[e][i].thread \in Client
    BY <1>2, <2>2 DEF RolesKept
  <2> QED BY <1>1, <2>1, <2>2, <2>3, <2>4 DEF Rendezvous, RolesKept
<1>7. TypeOK'
  <2>1. state' \in [Thread -> ThreadState] /\ entity' \in [Thread -> RunState \cup {"None"}]
    BY <1>0, <1>3, <1>4, <1>5 DEF TypeOK, RunState
  <2>2. client' \in [Thread -> SUBSET Thread] /\ inside' \in [Thread -> {"user", "send", "recv", "call", "reply"}]
    BY <1>0, <1>3 DEF TypeOK
  <2> QED BY <1>0, <1>6, <2>1, <2>2 DEF TypeOK, Entry
<1>8. Rendezvous'
  BY <1>0, <1>6, <1>7 DEF Rendezvous
<1>9. RolesKept'
  BY <1>0, <1>3, <1>4, <1>6 DEF RolesKept, TypeOK
<1>10. CoreSchedulable' /\ RunningIsOnCpu'
  BY <1>0, <1>3, <1>5 DEF CoreSchedulable, RunningIsOnCpu, TypeOK
<1>11. ReceiversWait'
  <2>1. In("BlockedOnRecv")' = In("BlockedOnRecv")
    BY <1>0, <1>3, <1>4 DEF In, TypeOK
  <2>2. Waiting(receivers, SelfName, In("BlockedOnRecv"))'
    BY <1>0, <2>1, SameReceivers
  <2>3. state[c] # "BlockedOnRecv"
    BY <1>0 DEF CoreSchedulable, ReceiversWait
  <2> QED BY <2>2, <2>3, <1>0, <1>3, <1>4, <1>5 DEF ReceiversWait, TypeOK
<1>12. ReceiversServed'
  BY <1>0, <1>3, <1>4 DEF ReceiversServed, TypeOK
<1> QED BY <1>8, <1>9, <1>10, <1>11, <1>12

LEMMA RecvParkedSound ==
  ASSUME Sound, NEW c \in Server, NEW e \in Endpoint, RecvParked(c, e)
  PROVE  Sound'
<1> DEFINE ent == [entity EXCEPT ![c] = "Blocked"]
<1> USE ThreadAssumption DEF Sound
<1>0. /\ TypeOK /\ c \in Thread /\ cpu = c /\ senders[e] = <<>> /\ Len(receivers[e]) < Q
      /\ receivers' = [receivers EXCEPT ![e] = Append(@, c)]
      /\ state' = [state EXCEPT ![c] = "BlockedOnRecv"]
      /\ inside' = [inside EXCEPT ![c] = "recv"]
      /\ UNCHANGED <<pendingMsg, pendingFrom, senders, client>>
      /\ Reschedule(c, NoteBlocked(entity, c))
  BY DEF RecvParked, Serving, Park, Rendezvous
<1>1. Moved(ent) /\ ent \in [Thread -> RunState \cup {"None"}]
  <2> HIDE DEF Sound
  <2> QED BY <1>0, BlockMoves
<1>2. state[c] # "BlockedOnRecv"
  BY <1>0 DEF CoreSchedulable, ReceiversWait
<1>3. /\ receivers' \in [Endpoint -> Seq(Thread)]
      /\ \A f \in Endpoint : (senders[f] = <<>> \/ receivers'[f] = <<>>) /\ Len(receivers'[f]) <= Q
  <2>1. receivers \in [Endpoint -> Seq(Thread)]
    BY <1>0 DEF TypeOK
  <2>2. Append(receivers[e], c) \in Seq(Thread) /\ Len(Append(receivers[e], c)) <= Q
    BY <1>0, <2>1, AppendPlaces, QueueAssumption
  <2> QED BY <1>0, <2>1, <2>2 DEF Rendezvous
<1>4. Waiting(receivers, SelfName, In("BlockedOnRecv"))'
  <2>1. /\ receivers \in [Endpoint -> Seq(Thread)] /\ SelfName \in [Thread -> Thread] /\ SelfName[c] = c
        /\ Waiting(receivers, SelfName, In("BlockedOnRecv")) /\ c \notin In("BlockedOnRecv")
    BY <1>0, <1>2 DEF TypeOK, SelfName, ReceiversWait, In
  <2>2. Waiting([receivers EXCEPT ![e] = Append(@, c)], SelfName, In("BlockedOnRecv") \union {SelfName[c]})
    <3> HIDE DEF Sound
    <3> QED BY <1>0, <2>1, JoinQueue
  <2>3. In("BlockedOnRecv")' = In("BlockedOnRecv") \union {c}
    BY <1>0 DEF In, TypeOK
  <2>4. Waiting(receivers', SelfName, In("BlockedOnRecv")')
    BY <1>0, <2>1, <2>2, <2>3
  <2> QED BY <2>4 DEF Waiting
<1> HIDE DEF ent
<1>5. Rendezvous'
  <2>1. TypeOK'
    BY <1>0, <1>1, <1>3 DEF TypeOK, Moved, ThreadState
  <2> QED BY <1>0, <1>3, <2>1 DEF Rendezvous
<1>6. RolesKept'
  BY <1>0 DEF RolesKept, TypeOK
<1>7. CoreSchedulable' /\ RunningIsOnCpu'
  BY <1>1 DEF CoreSchedulable, RunningIsOnCpu, Moved
<1>8. ReceiversWait'
  BY <1>0, <1>1, <1>4 DEF ReceiversWait, TypeOK, Moved, ent
<1>9. ReceiversServed'
  BY <1>0 DEF ReceiversServed, TypeOK
<1> QED BY <1>5, <1>6, <1>7, <1>8, <1>9

LEMMA ReplySound ==
  ASSUME Sound, NEW c \in Server, NEW to \in Thread, NEW m \in Msg, Reply(c, to, m)
  PROVE  Sound'
<1> USE ThreadAssumption DEF Sound
<1>0. /\ TypeOK /\ c \in Thread /\ cpu = c /\ to # c /\ state[to] = "BlockedOnReply"
      /\ pendingMsg' = [pendingMsg EXCEPT ![to] = m]
      /\ state' = [state EXCEPT ![to] = "Runnable"]
      /\ client' = [client EXCEPT ![c] = @ \ {to}]
      /\ entity' = Answered(c, to)
      /\ inside' = [inside EXCEPT ![c] = "reply"]
      /\ UNCHANGED <<pendingFrom, senders, receivers, running, cpu>>
  BY DEF Reply, Executes, Answer, Rendezvous, ep
<1>1. entity' = [entity EXCEPT ![to] = IF @ = "None" THEN @ ELSE "Ready", ![c] = "Ready"]
  <2>1. entity[c] \in {"Ready", "Running"}
    BY <1>0 DEF CoreSchedulable
  <2> QED BY <1>0, <2>1 DEF Answered, NoteReady, TypeOK
<1>2. TypeOK'
  <2>1. state' \in [Thread -> ThreadState] /\ entity' \in [Thread -> RunState \cup {"None"}]
    BY <1>0, <1>1 DEF TypeOK, RunState, ThreadState
  <2>2. client' \in [Thread -> SUBSET Thread] /\ inside' \in [Thread -> {"user", "send", "recv", "call", "reply"}]
    BY <1>0 DEF TypeOK
  <2> QED BY <1>0, <2>1, <2>2 DEF TypeOK
<1>3. Rendezvous'
  BY <1>0, <1>2 DEF Rendezvous
<1>4. RolesKept'
  BY <1>0 DEF RolesKept, TypeOK
<1>5. CoreSchedulable' /\ RunningIsOnCpu'
  BY <1>0, <1>1 DEF CoreSchedulable, RunningIsOnCpu, TypeOK
<1>6. state[c] # "BlockedOnRecv"
  BY <1>0 DEF CoreSchedulable, ReceiversWait
<1>7. ReceiversWait'
  <2>1. In("BlockedOnRecv")' = In("BlockedOnRecv")
    BY <1>0 DEF In, TypeOK
  <2>2. Waiting(receivers, SelfName, In("BlockedOnRecv"))'
    BY <1>0, <2>1, SameReceivers
  <2> QED BY <2>2, <1>0, <1>1, <1>6 DEF ReceiversWait, TypeOK
<1>8. ReceiversServed'
  BY <1>0 DEF ReceiversServed, TypeOK
<1> QED BY <1>3, <1>4, <1>5, <1>7, <1>8

LEMMA ReplyRefusedSound ==
  ASSUME Sound, NEW c \in Server, NEW to \in Thread, ReplyRefused(c, to)
  PROVE  Sound'
<1> USE ThreadAssumption DEF Sound
<1>0. /\ client' = [client EXCEPT ![c] = @ \ {to}]
      /\ UNCHANGED <<state, pendingMsg, pendingFrom, entity, running, senders, receivers, cpu, inside>>
  BY DEF ReplyRefused, Refuse, tcb, sched, ep
<1>1. Rendezvous'
  BY <1>0 DEF Rendezvous, TypeOK
<1>2. RolesKept' /\ CoreSchedulable' /\ RunningIsOnCpu' /\ ReceiversServed'
  BY <1>0 DEF RolesKept, CoreSchedulable, RunningIsOnCpu, ReceiversServed
<1>3. In("BlockedOnRecv")' = In("BlockedOnRecv")
  BY <1>0 DEF In
<1>4. ReceiversWait'
  BY <1>0, <1>3, SameReceivers DEF ReceiversWait
<1> QED BY <1>1, <1>2, <1>4
LEMMA ExitSound ==
  ASSUME Sound, NEW c \in Thread, NEW to \in Thread, Exit(c, to)
  PROVE  Sound'
<1> DEFINE ent == [entity EXCEPT ![c] = "None"]
<1> USE ThreadAssumption DEF Sound
<1>0. /\ TypeOK /\ cpu = c /\ entity[to] = "Ready" /\ to # c /\ inside[c] \in {"user", "reply"}
      /\ state' = [state EXCEPT ![c] = "Exited"] /\ YieldTo(c, to, ent)
      /\ UNCHANGED <<pendingMsg, pendingFrom, senders, receivers, inside, client>>
  BY DEF Exit, Serving, Rendezvous, ep, Ready
<1>1. Moved(ent)
  <2>1. ent \in [Thread -> RunState \cup {"None"}] /\ ent[to] = "Ready"
    BY <1>0 DEF TypeOK, RunState
  <2>2. \A t \in Thread : ent[t] = "Running" => t = c
    BY <1>0 DEF TypeOK, RunningIsOnCpu
  <2> HIDE DEF ent
  <2> QED BY <1>0, <2>1, <2>2, YieldMoves
<1>2. state[c] # "BlockedOnRecv"
  BY <1>0 DEF CoreSchedulable, ReceiversWait
<1> HIDE DEF ent
<1>3. Rendezvous'
  <2>1. TypeOK'
    BY <1>0, <1>1 DEF TypeOK, Moved, ThreadState
  <2> QED BY <1>0, <2>1 DEF Rendezvous
<1>4. RolesKept'
  BY <1>0 DEF RolesKept, TypeOK
<1>5. CoreSchedulable' /\ RunningIsOnCpu'
  BY <1>1 DEF CoreSchedulable, RunningIsOnCpu, Moved
<1>6. ReceiversWait'
  <2>1. In("BlockedOnRecv")' = In("BlockedOnRecv")
    BY <1>0, <1>2 DEF In, TypeOK
  <2>2. Waiting(receivers, SelfName, In("BlockedOnRecv"))'
    BY <1>0, <2>1, SameReceivers
  <2> QED BY <2>2, <1>0, <1>1, <1>2 DEF ReceiversWait, TypeOK, Moved, ent
<1>7. ReceiversServed'
  BY <1>0 DEF ReceiversServed, TypeOK
<1> QED BY <1>3, <1>4, <1>5, <1>6, <1>7

LEMMA ReturnSound ==
  ASSUME Sound, NEW c \in Thread, Return(c)
  PROVE  Sound'
<1> USE ThreadAssumption DEF Sound
<1>0. /\ TypeOK /\ cpu = c
      /\ inside' = [inside EXCEPT ![c] = "user"]
      /\ UNCHANGED <<state, entity, running, senders, receivers, cpu>>
  BY DEF Return, Resume, Rendezvous, tcb, sched, ep
<1>1. \/ UNCHANGED <<pendingMsg, pendingFrom, client>>
      \/ pendingMsg' = [pendingMsg EXCEPT ![c] = None] /\ UNCHANGED <<pendingFrom, client>>
      \/ /\ pendingMsg' = [pendingMsg EXCEPT ![c] = None]
         /\ pendingFrom' = [pendingFrom EXCEPT ![c] = None]
         /\ client' = [client EXCEPT ![c] = @ \cup ({pendingFrom[c]} \ {None})]
  BY DEF Return, Resume, tcb
<1>2. /\ pendingMsg' \in [Thread -> Msg \cup {None}] /\ pendingFrom' \in [Thread -> Thread \cup {None}]
      /\ \A t \in Thread : t # c => pendingMsg'[t] = pendingMsg[t] /\ pendingFrom'[t] = pendingFrom[t]
  BY <1>0, <1>1 DEF TypeOK
<1>3. client' \in [Thread -> SUBSET Thread]
  <2>1. {pendingFrom[c]} \ {None} \in SUBSET Thread
    BY <1>0 DEF TypeOK
  <2> QED BY <1>0, <1>1, <2>1 DEF TypeOK
<1>4. Rendezvous'
  <2>1. TypeOK'
    BY <1>0, <1>2, <1>3 DEF TypeOK
  <2> QED BY <1>0, <2>1 DEF Rendezvous
<1>5. RolesKept' /\ CoreSchedulable' /\ RunningIsOnCpu'
  BY <1>0 DEF RolesKept, CoreSchedulable, RunningIsOnCpu
<1>6. state[c] # "BlockedOnRecv"
  BY <1>0 DEF CoreSchedulable, ReceiversWait
<1>7. ReceiversWait'
  <2>1. In("BlockedOnRecv")' = In("BlockedOnRecv")
    BY <1>0 DEF In
  <2>2. Waiting(receivers, SelfName, In("BlockedOnRecv"))'
    BY <1>0, <2>1, SameReceivers
  <2> QED BY <2>2, <1>0, <1>6 DEF ReceiversWait, TypeOK
<1>8. ReceiversServed'
  BY <1>0, <1>2 DEF ReceiversServed, TypeOK
<1> QED BY <1>4, <1>5, <1>7, <1>8

LEMMA NextSound == Sound /\ [Next]_<<vars, parkedOnly>> => Sound'
<1> SUFFICES ASSUME Sound, [Next]_<<vars, parkedOnly>> PROVE Sound'
  OBVIOUS
<1> USE ThreadAssumption
<1>1. CASE UNCHANGED <<vars, parkedOnly>>
  BY <1>1, StutterSound
<1>2. CASE \E c, t \in Thread : StartThread(c, t) \/ Kick(c, t) \/ Exit(c, t)
  BY <1>2, StartThreadSound, KickSound, ExitSound
<1>3. CASE \E c \in Thread : Return(c)
  BY <1>3, ReturnSound
<1>4. CASE \E c \in Server : Serve(c)
  BY <1>4, RecvNowSound, RecvParkedSound, ReplySound, ReplyRefusedSound DEF Serve
<1>5. CASE \E c \in Client, e \in Endpoint, m \in Msg :
             SendDelivered(c, e, m) \/ SendQueued(c, e, m, "send") \/ CallFast(c, e, m)
  BY <1>5, SendDeliveredSound, SendQueuedSound, CallFastSound
<1>6. CASE CallQueued
  BY <1>6, SendQueuedSound DEF CallQueued
<1> QED BY <1>1, <1>2, <1>3, <1>4, <1>5, <1>6 DEF Next, Others

(***************************************************************************)
(* The first inductive invariant, of every behaviour of in-kernel threads. *)
(***************************************************************************)
THEOREM IpcSound == Spec => []Sound
<1>1. Start => Sound
  BY InitSound DEF Start
<1> QED BY <1>1, NextSound, PTL DEF Spec

(***************************************************************************)
(* endpoint.rs: an endpoint never holds senders and receivers at once and  *)
(* never more than its capacity, for any number of threads and any Q.      *)
(***************************************************************************)
THEOREM EndpointsRendezvous == Spec => []Rendezvous
<1>1. Sound => Rendezvous
  BY DEF Sound
<1> QED BY <1>1, IpcSound, PTL

(***************************************************************************)
(* The scheduler's running thread is the one on the core, and no other is  *)
(* Running: yield_to and dispatch's answers never leave two.               *)
(***************************************************************************)
THEOREM OneThreadRuns == Spec => []RunningIsOnCpu
<1>1. Sound => RunningIsOnCpu
  BY DEF Sound
<1> QED BY <1>1, IpcSound, PTL

(***************************************************************************)
(* No Recv returns empty-handed: the receiver finds a message and whom to  *)
(* answer, even in behaviours with queued calls.                           *)
(***************************************************************************)
THEOREM RecvFindsMessage == Spec => []RecvReturnsMessage
<1>1. Sound => RecvReturnsMessage
  BY ThreadAssumption DEF Sound, CoreSchedulable, ReceiversWait, ReceiversServed, RecvReturnsMessage
<1> QED BY <1>1, IpcSound, PTL

(***************************************************************************)
(* A delivery always finds a live receiver: every queued receiver has a    *)
(* scheduling entity, since a thread never exits while it is parked.       *)
(***************************************************************************)
THEOREM ReceiversStayAdmitted == Spec => []ReceiversAdmitted
<1>1. Sound => ReceiversAdmitted
  <2> SUFFICES ASSUME Sound, NEW e \in Endpoint, NEW i \in DOMAIN receivers[e]
               PROVE  entity[receivers[e][i]] # "None"
    BY DEF ReceiversAdmitted
  <2>1. receivers[e] \in Seq(Thread)
    BY DEF Sound, Rendezvous, TypeOK
  <2>2. i \in 1 .. Len(receivers[e]) /\ receivers[e][i] \in Thread
    BY <2>1
  <2>3. SelfName[receivers[e][i]] \in In("BlockedOnRecv")
    BY <2>2 DEF Sound, ReceiversWait, Waiting
  <2>4. state[receivers[e][i]] = "BlockedOnRecv"
    BY <2>2, <2>3 DEF SelfName, In
  <2> QED BY <2>2, <2>4 DEF Sound, ReceiversWait
<1> QED BY <1>1, IpcSound, PTL
-----------------------------------------------------------------------------
(* Behaviours in which clients call parked receivers only *)

LEMMA InitAgreed == Init => Agreed
<1> SUFFICES ASSUME Init PROVE Agreed
  OBVIOUS
<1>1. \A t \in Thread : Unstarted(t) \/ Active(t)
  BY DEF Init, Unstarted, Active
<1>2. Waiting(senders, SenderName, In("BlockedOnSend"))
  BY DEF Init, Waiting, In
<1> QED BY <1>1, <1>2 DEF Agreed

\* A thread of which nothing changes keeps its situation.
LEMMA SameSituation ==
  ASSUME NEW t \in Thread, Unstarted(t) \/ Active(t) \/ Blocked(t),
         state'[t] = state[t], inside'[t] = inside[t], pendingMsg'[t] = pendingMsg[t],
         (entity'[t] = "None") <=> (entity[t] = "None"), (entity'[t] = "Blocked") <=> (entity[t] = "Blocked"),
         entity'[t] \in RunState \cup {"None"}
  PROVE  Unstarted(t)' \/ Active(t)' \/ Blocked(t)'
  BY DEF Unstarted, Active, Blocked, RunState

LEMMA SameSenders ==
  ASSUME Agreed, UNCHANGED senders, In("BlockedOnSend")' = In("BlockedOnSend")
  PROVE  Waiting(senders, SenderName, In("BlockedOnSend"))'
<1>1. Waiting(senders, SenderName, In("BlockedOnSend"))
  BY DEF Agreed
<1> QED BY <1>1 DEF Waiting

LEMMA StutterAgreed == Agreed /\ UNCHANGED vars => Agreed'
<1> SUFFICES ASSUME Agreed, UNCHANGED vars PROVE Agreed'
  OBVIOUS
<1>0. UNCHANGED <<state, pendingMsg, pendingFrom, entity, running, senders, receivers, cpu, inside, client>>
  BY DEF vars, tcb, sched, ep, user
<1>1. \A t \in Thread : Unstarted(t)' \/ Active(t)' \/ Blocked(t)'
  BY <1>0 DEF Agreed, Unstarted, Active, Blocked
<1>2. In("BlockedOnSend")' = In("BlockedOnSend")
  BY <1>0 DEF In
<1> QED BY <1>0, <1>1, <1>2, SameSenders DEF Agreed

\* The thread on the core is Runnable while clients call parked receivers only.
LEMMA CoreRunnable ==
  ASSUME Sound, Agreed, NEW c \in Thread, cpu = c
  PROVE  Active(c)
  BY ThreadAssumption DEF Sound, Agreed, CoreSchedulable, Unstarted, Active, Blocked

LEMMA StartThreadAgreed ==
  ASSUME Sound, Agreed, NEW c \in Thread, NEW t \in Thread, StartThread(c, t)
  PROVE  Agreed'
<1>0. /\ TypeOK /\ cpu = c /\ state[t] = "Inactive"
      /\ state' = [state EXCEPT ![t] = "Runnable"] /\ entity' = [entity EXCEPT ![t] = "Ready"]
      /\ UNCHANGED <<pendingMsg, pendingFrom, running, senders, receivers, cpu, inside, client>>
  BY DEF StartThread, Executes, Sound, Rendezvous, ep, user, Admitted
<1>1. Unstarted(t)
  BY <1>0 DEF Agreed, Active, Blocked
<1>2. Active(t)'
  BY <1>0, <1>1 DEF Unstarted, Active, TypeOK
<1>3. ASSUME NEW u \in Thread, u # t PROVE Unstarted(u)' \/ Active(u)' \/ Blocked(u)'
  BY <1>0, <1>3 DEF Agreed, Unstarted, Active, Blocked, TypeOK
<1>4. In("BlockedOnSend")' = In("BlockedOnSend")
  BY <1>0 DEF In, TypeOK
<1> QED BY <1>0, <1>2, <1>3, <1>4, SameSenders DEF Agreed

LEMMA KickAgreed ==
  ASSUME Sound, Agreed, NEW c \in Thread, NEW n \in Thread, Kick(c, n)
  PROVE  Agreed'
<1>0. /\ TypeOK /\ cpu = c /\ entity[n] = "Ready" /\ YieldTo(c, n, entity)
      /\ UNCHANGED <<state, pendingMsg, pendingFrom, senders, receivers, inside, client>>
  BY DEF Kick, Executes, Sound, Rendezvous, ep, tcb, Ready
<1>1. Moved(entity)
  <2>1. entity \in [Thread -> RunState \cup {"None"}]
    BY <1>0 DEF TypeOK
  <2>2. \A t \in Thread : entity[t] = "Running" => t = c
    BY <1>0, ThreadAssumption DEF Sound, RunningIsOnCpu
  <2> QED BY <1>0, <2>1, <2>2, YieldMoves
<1>2. ASSUME NEW t \in Thread PROVE Unstarted(t)' \/ Active(t)' \/ Blocked(t)'
  BY <1>0, <1>1, SameSituation DEF Agreed, Moved
<1>3. In("BlockedOnSend")' = In("BlockedOnSend")
  BY <1>0 DEF In
<1> QED BY <1>0, <1>2, <1>3, SameSenders DEF Agreed

LEMMA SendDeliveredAgreed ==
  ASSUME Sound, Agreed, NEW c \in Thread, NEW e \in Endpoint, NEW m \in Msg, SendDelivered(c, e, m)
  PROVE  Agreed'
<1>rx. PICK rx : rx = Head(receivers[e])
  OBVIOUS
<1>0. /\ TypeOK /\ cpu = c /\ receivers[e] # <<>> /\ Deliver(c, e, m, state[c])
      /\ entity' = NoteReady(entity, rx) /\ UNCHANGED <<running, cpu, inside, client>>
  BY <1>rx DEF SendDelivered, Executes, Sound, Rendezvous, user
<1>1. state[c] \in ThreadState /\ state[c] # "BlockedOnRecv"
  BY <1>0, ThreadAssumption DEF Sound, TypeOK, CoreSchedulable, ReceiversWait
<1>2. /\ rx \in Thread /\ rx # c /\ state[rx] = "BlockedOnRecv" /\ entity[rx] = "Blocked"
      /\ inside[rx] = "recv"
      /\ state' = [state EXCEPT ![rx] = "Runnable", ![c] = state[c]]
      /\ pendingMsg' = [pendingMsg EXCEPT ![rx] = m] /\ senders' = senders
  BY <1>rx, <1>0, <1>1, DeliverTakesReceiver
<1>3. entity' = [entity EXCEPT ![rx] = "Ready"]
  BY <1>0, <1>2 DEF NoteReady
<1>4. Active(rx)'
  BY <1>0, <1>2, <1>3, ThreadAssumption DEF Active, TypeOK
<1>5. ASSUME NEW u \in Thread, u # rx PROVE Unstarted(u)' \/ Active(u)' \/ Blocked(u)'
  BY <1>0, <1>2, <1>3, <1>5 DEF Agreed, Unstarted, Active, Blocked, TypeOK
<1>6. In("BlockedOnSend")' = In("BlockedOnSend")
  BY <1>0, <1>2 DEF In, TypeOK
<1> QED BY <1>2, <1>4, <1>5, <1>6, SameSenders DEF Agreed

LEMMA CallFastAgreed ==
  ASSUME Sound, Agreed, NEW c \in Thread, NEW e \in Endpoint, NEW m \in Msg, CallFast(c, e, m)
  PROVE  Agreed'
<1>rx. PICK rx : rx = Head(receivers[e])
  OBVIOUS
<1> DEFINE ent == CallDelivered(c, e)
<1>0. /\ TypeOK /\ cpu = c /\ inside[c] = "user"
      /\ receivers[e] # <<>> /\ Deliver(c, e, m, "BlockedOnReply")
      /\ inside' = [inside EXCEPT ![c] = "call"]
      /\ YieldTo(c, rx, ent) /\ UNCHANGED client
  BY <1>rx DEF CallFast, Executes, Sound, Rendezvous
<1>1. Active(c)
  BY <1>0, CoreRunnable
<1>2. /\ rx \in Thread /\ rx # c /\ state[rx] = "BlockedOnRecv" /\ entity[rx] = "Blocked"
      /\ inside[rx] = "recv"
      /\ state' = [state EXCEPT ![rx] = "Runnable", ![c] = "BlockedOnReply"]
      /\ pendingMsg' = [pendingMsg EXCEPT ![rx] = m] /\ senders' = senders
  <2>1. "BlockedOnReply" \in ThreadState
    BY DEF ThreadState
  <2> QED BY <1>rx, <1>0, <2>1, DeliverTakesReceiver
<1>3. ent = [entity EXCEPT ![rx] = "Ready", ![c] = "Blocked"]
  BY <1>rx, <1>0, <1>1, <1>2 DEF Active, CallDelivered, NoteBlocked, NoteReady, TypeOK
<1> HIDE DEF ent
<1>4. Moved(ent)
  <2>1. ent \in [Thread -> RunState \cup {"None"}] /\ ent[rx] = "Ready"
    BY <1>0, <1>2, <1>3 DEF TypeOK, RunState
  <2>2. \A t \in Thread : ent[t] = "Running" => t = c
    BY <1>0, <1>2, <1>3, ThreadAssumption DEF TypeOK, Sound, RunningIsOnCpu
  <2> QED BY <1>0, <1>2, <2>1, <2>2, YieldMoves
<1>5. Active(rx)'
  <2>1. entity'[rx] \in {"Ready", "Running"}
    BY <1>0, <1>2, <1>3, <1>4 DEF Moved, RunState, TypeOK
  <2> QED BY <1>0, <1>2, <2>1, ThreadAssumption DEF Active, TypeOK
<1>6. Blocked(c)'
  <2>1. entity'[c] = "Blocked"
    BY <1>0, <1>2, <1>3, <1>4 DEF Moved, TypeOK
  <2> QED BY <1>0, <1>1, <1>2, <2>1 DEF Active, Blocked, TypeOK
<1>7. ASSUME NEW u \in Thread, u # rx, u # c PROVE Unstarted(u)' \/ Active(u)' \/ Blocked(u)'
  <2>1. ent[u] = entity[u] /\ state'[u] = state[u] /\ pendingMsg'[u] = pendingMsg[u] /\ inside'[u] = inside[u]
    BY <1>0, <1>2, <1>3, <1>7 DEF TypeOK
  <2> QED BY <1>4, <2>1, SameSituation DEF Agreed, Moved
<1>8. In("BlockedOnSend")' = In("BlockedOnSend")
  BY <1>0, <1>1, <1>2 DEF In, TypeOK, Active
<1> QED BY <1>2, <1>5, <1>6, <1>7, <1>8, SameSenders DEF Agreed
LEMMA SendQueuedAgreed ==
  ASSUME Sound, Agreed, NEW c \in Client, NEW e \in Endpoint, NEW m \in Msg, SendQueued(c, e, m, "send")
  PROVE  Agreed'
<1> DEFINE ent == [entity EXCEPT ![c] = "Blocked"]
           x   == [thread |-> c, msg |-> m]
<1>0. /\ TypeOK /\ c \in Thread /\ cpu = c /\ inside[c] = "user"
      /\ senders' = [senders EXCEPT ![e] = Append(@, x)]
      /\ state' = [state EXCEPT ![c] = "BlockedOnSend"] /\ inside' = [inside EXCEPT ![c] = "send"]
      /\ UNCHANGED pendingMsg
      /\ Reschedule(c, NoteBlocked(entity, c))
  BY ThreadAssumption DEF SendQueued, Enqueue, Executes, Sound, Rendezvous
<1>1. Moved(ent) /\ ent \in [Thread -> RunState \cup {"None"}]
  BY <1>0, BlockMoves
<1>2. Active(c)
  BY <1>0, CoreRunnable
<1>3. Waiting(senders, SenderName, In("BlockedOnSend"))'
  <2>1. x \in Entry /\ SenderName[x] = c
    BY <1>0 DEF Entry, SenderName
  <2> HIDE DEF x
  <2>2. /\ senders \in [Endpoint -> Seq(Entry)] /\ SenderName \in [Entry -> Thread]
        /\ Waiting(senders, SenderName, In("BlockedOnSend")) /\ c \notin In("BlockedOnSend")
    BY <1>0, <1>2 DEF TypeOK, SenderName, Entry, Agreed, In, Active
  <2>3. Waiting([senders EXCEPT ![e] = Append(@, x)], SenderName, In("BlockedOnSend") \union {SenderName[x]})
    BY <2>1, <2>2, JoinQueue
  <2>4. In("BlockedOnSend")' = In("BlockedOnSend") \union {c}
    BY <1>0 DEF In, TypeOK
  <2>5. Waiting(senders', SenderName, In("BlockedOnSend")')
    BY <1>0, <2>1, <2>3, <2>4
  <2> QED BY <2>5 DEF Waiting
<1> HIDE DEF ent
<1>4. Blocked(c)'
  <2>1. entity'[c] = "Blocked"
    BY <1>0, <1>1 DEF Moved, TypeOK, ent
  <2> QED BY <1>0, <1>2, <2>1 DEF Blocked, Active, TypeOK
<1>5. ASSUME NEW u \in Thread, u # c PROVE Unstarted(u)' \/ Active(u)' \/ Blocked(u)'
  <2>1. ent[u] = entity[u] /\ state'[u] = state[u] /\ pendingMsg'[u] = pendingMsg[u] /\ inside'[u] = inside[u]
    BY <1>0, <1>5 DEF TypeOK, ent
  <2> QED BY <1>1, <2>1, SameSituation DEF Agreed, Moved
<1> QED BY <1>3, <1>4, <1>5 DEF Agreed

LEMMA RecvNowAgreed ==
  ASSUME Sound, Agreed, NEW c \in Server, NEW e \in Endpoint, RecvNow(c, e)
  PROVE  Agreed'
<1>from. PICK from : from = Head(senders[e]).thread
  OBVIOUS
<1>0. /\ TypeOK /\ c \in Thread /\ cpu = c /\ senders[e] # <<>> /\ inside[c] \in {"user", "reply"}
      /\ state' = [state EXCEPT ![from] = IF @ = "BlockedOnReply" THEN @ ELSE "Runnable"]
      /\ entity' = NoteReady(entity, from)
      /\ senders' = [senders EXCEPT ![e] = Tail(@)]
      /\ inside' = [inside EXCEPT ![c] = "user"]
      /\ UNCHANGED pendingMsg
  BY <1>from, ThreadAssumption DEF RecvNow, Serving, RecvImmediate, Sound, Rendezvous
<1>1. Active(c)
  BY <1>0, CoreRunnable
<1>2. /\ senders \in [Endpoint -> Seq(Entry)] /\ SenderName \in [Entry -> Thread]
      /\ Waiting(senders, SenderName, In("BlockedOnSend"))
  BY <1>0 DEF TypeOK, SenderName, Entry, Agreed
<1>3. /\ Head(senders[e]) \in Entry /\ SenderName[Head(senders[e])] \in In("BlockedOnSend")
      /\ Waiting([senders EXCEPT ![e] = Tail(@)], SenderName,
                 In("BlockedOnSend") \ {SenderName[Head(senders[e])]})
  BY <1>0, <1>2, LeaveQueue
<1>4. SenderName[Head(senders[e])] = from /\ from \in Thread /\ state[from] = "BlockedOnSend" /\ from # c
  BY <1>from, <1>1, <1>3 DEF SenderName, In, Active
<1>5. Blocked(from) /\ inside[from] = "send"
  BY <1>4 DEF Agreed, Unstarted, Active, Blocked
<1>6. state' = [state EXCEPT ![from] = "Runnable"] /\ entity' = [entity EXCEPT ![from] = "Ready"]
  BY <1>0, <1>4, <1>5 DEF NoteReady, Blocked
<1>7. Active(from)'
  BY <1>0, <1>4, <1>5, <1>6 DEF Active, Blocked, TypeOK
<1>8. Active(c)'
  BY <1>0, <1>1, <1>4, <1>6 DEF Active, TypeOK
<1>9. ASSUME NEW u \in Thread, u # c, u # from PROVE Unstarted(u)' \/ Active(u)' \/ Blocked(u)'
  <2>1. /\ entity'[u] = entity[u] /\ state'[u] = state[u] /\ entity[u] \in RunState \cup {"None"}
        /\ pendingMsg'[u] = pendingMsg[u] /\ inside'[u] = inside[u]
    BY <1>0, <1>6, <1>9 DEF TypeOK
  <2> QED BY <2>1, SameSituation DEF Agreed
<1>10. Waiting(senders, SenderName, In("BlockedOnSend"))'
  <2>1. In("BlockedOnSend")' = In("BlockedOnSend") \ {from}
    BY <1>0, <1>4, <1>6 DEF In, TypeOK
  <2>2. Waiting(senders', SenderName, In("BlockedOnSend")')
    BY <1>0, <1>3, <1>4, <2>1
  <2> QED BY <2>2 DEF Waiting
<1> QED BY <1>7, <1>8, <1>9, <1>10 DEF Agreed

LEMMA RecvParkedAgreed ==
  ASSUME Sound, Agreed, NEW c \in Server, NEW e \in Endpoint, RecvParked(c, e)
  PROVE  Agreed'
<1> DEFINE ent == [entity EXCEPT ![c] = "Blocked"]
<1>0. /\ TypeOK /\ c \in Thread /\ cpu = c /\ inside[c] \in {"user", "reply"}
      /\ state' = [state EXCEPT ![c] = "BlockedOnRecv"] /\ inside' = [inside EXCEPT ![c] = "recv"]
      /\ UNCHANGED <<pendingMsg, senders>>
      /\ Reschedule(c, NoteBlocked(entity, c))
  BY ThreadAssumption DEF RecvParked, Park, Serving, Sound, Rendezvous
<1>1. Moved(ent) /\ ent \in [Thread -> RunState \cup {"None"}]
  BY <1>0, BlockMoves
<1>2. Active(c)
  BY <1>0, CoreRunnable
<1> HIDE DEF ent
<1>3. Blocked(c)'
  <2>1. entity'[c] = "Blocked"
    BY <1>0, <1>1 DEF Moved, TypeOK, ent
  <2> QED BY <1>0, <1>2, <2>1 DEF Blocked, Active, TypeOK
<1>4. ASSUME NEW u \in Thread, u # c PROVE Unstarted(u)' \/ Active(u)' \/ Blocked(u)'
  <2>1. ent[u] = entity[u] /\ state'[u] = state[u] /\ pendingMsg'[u] = pendingMsg[u] /\ inside'[u] = inside[u]
    BY <1>0, <1>4 DEF TypeOK, ent
  <2> QED BY <1>1, <2>1, SameSituation DEF Agreed, Moved
<1>5. In("BlockedOnSend")' = In("BlockedOnSend")
  BY <1>0, <1>2 DEF In, TypeOK, Active
<1> QED BY <1>0, <1>3, <1>4, <1>5, SameSenders DEF Agreed

LEMMA ReplyAgreed ==
  ASSUME Sound, Agreed, NEW c \in Server, NEW to \in Thread, NEW m \in Msg, Reply(c, to, m)
  PROVE  Agreed'
<1>0. /\ TypeOK /\ c \in Thread /\ cpu = c /\ to # c /\ state[to] = "BlockedOnReply" /\ inside[c] = "user"
      /\ pendingMsg' = [pendingMsg EXCEPT ![to] = m]
      /\ state' = [state EXCEPT ![to] = "Runnable"]
      /\ entity' = Answered(c, to)
      /\ inside' = [inside EXCEPT ![c] = "reply"]
      /\ UNCHANGED senders
  BY ThreadAssumption DEF Reply, Executes, Answer, Sound, Rendezvous, ep
<1>1. Active(c)
  BY <1>0, CoreRunnable
<1>2. Blocked(to) /\ inside[to] = "call"
  BY <1>0 DEF Agreed, Unstarted, Active, Blocked
<1>3. entity' = [entity EXCEPT ![to] = "Ready", ![c] = "Ready"]
  BY <1>0, <1>1, <1>2 DEF Answered, NoteReady, TypeOK, Active, Blocked
<1>4. Active(to)'
  BY <1>0, <1>2, <1>3, ThreadAssumption DEF Active, TypeOK
<1>5. Active(c)'
  BY <1>0, <1>1, <1>3 DEF Active, TypeOK
<1>6. ASSUME NEW u \in Thread, u # c, u # to PROVE Unstarted(u)' \/ Active(u)' \/ Blocked(u)'
  <2>1. /\ entity'[u] = entity[u] /\ state'[u] = state[u] /\ entity[u] \in RunState \cup {"None"}
        /\ pendingMsg'[u] = pendingMsg[u] /\ inside'[u] = inside[u]
    BY <1>0, <1>3, <1>6 DEF TypeOK
  <2> QED BY <2>1, SameSituation DEF Agreed
<1>7. In("BlockedOnSend")' = In("BlockedOnSend")
  BY <1>0 DEF In, TypeOK
<1> QED BY <1>0, <1>4, <1>5, <1>6, <1>7, SameSenders DEF Agreed

LEMMA ReplyRefusedAgreed ==
  ASSUME Agreed, NEW c \in Server, NEW to \in Thread, ReplyRefused(c, to)
  PROVE  Agreed'
<1>0. UNCHANGED <<state, pendingMsg, pendingFrom, entity, running, senders, receivers, cpu, inside>>
  BY DEF ReplyRefused, Refuse, tcb, sched, ep
<1>1. \A t \in Thread : Unstarted(t)' \/ Active(t)' \/ Blocked(t)'
  BY <1>0 DEF Agreed, Unstarted, Active, Blocked
<1>2. In("BlockedOnSend")' = In("BlockedOnSend")
  BY <1>0 DEF In
<1> QED BY <1>0, <1>1, <1>2, SameSenders DEF Agreed

LEMMA ExitAgreed ==
  ASSUME Sound, Agreed, NEW c \in Thread, NEW to \in Thread, Exit(c, to)
  PROVE  Agreed'
<1> DEFINE ent == [entity EXCEPT ![c] = "None"]
<1>0. /\ TypeOK /\ cpu = c /\ entity[to] = "Ready" /\ to # c /\ inside[c] \in {"user", "reply"}
      /\ state' = [state EXCEPT ![c] = "Exited"] /\ YieldTo(c, to, ent)
      /\ UNCHANGED <<pendingMsg, senders, inside>>
  BY DEF Exit, Serving, Sound, Rendezvous, ep, Ready
<1>1. Moved(ent)
  <2>1. ent \in [Thread -> RunState \cup {"None"}] /\ ent[to] = "Ready"
    BY <1>0 DEF TypeOK, RunState
  <2>2. \A t \in Thread : ent[t] = "Running" => t = c
    BY <1>0, ThreadAssumption DEF TypeOK, Sound, RunningIsOnCpu
  <2> HIDE DEF ent
  <2> QED BY <1>0, <2>1, <2>2, YieldMoves
<1>2. Active(c)
  BY <1>0, CoreRunnable
<1> HIDE DEF ent
<1>3. Unstarted(c)'
  <2>1. entity'[c] = "None"
    BY <1>0, <1>1 DEF Moved, TypeOK, ent
  <2> QED BY <1>0, <1>2, <2>1 DEF Unstarted, Active, TypeOK
<1>4. ASSUME NEW u \in Thread, u # c PROVE Unstarted(u)' \/ Active(u)' \/ Blocked(u)'
  <2>1. ent[u] = entity[u] /\ state'[u] = state[u] /\ pendingMsg'[u] = pendingMsg[u] /\ inside'[u] = inside[u]
    BY <1>0, <1>4 DEF TypeOK, ent
  <2> QED BY <1>1, <2>1, SameSituation DEF Agreed, Moved
<1>5. In("BlockedOnSend")' = In("BlockedOnSend")
  BY <1>0, <1>2 DEF In, TypeOK, Active
<1> QED BY <1>0, <1>3, <1>4, <1>5, SameSenders DEF Agreed

LEMMA ReturnAgreed ==
  ASSUME Sound, Agreed, NEW c \in Thread, Return(c)
  PROVE  Agreed'
<1>0. /\ TypeOK /\ cpu = c
      /\ inside' = [inside EXCEPT ![c] = "user"]
      /\ UNCHANGED <<state, entity, running, senders, receivers, cpu>>
  BY DEF Return, Resume, Sound, Rendezvous, tcb, sched, ep
<1>1. Active(c)
  BY <1>0, CoreRunnable
<1>2. \/ inside[c] = "send" /\ UNCHANGED pendingMsg
      \/ pendingMsg' = [pendingMsg EXCEPT ![c] = None]
  BY DEF Return, Resume, tcb
<1>3. Active(c)'
  BY <1>0, <1>1, <1>2 DEF Active, TypeOK
<1>4. ASSUME NEW u \in Thread, u # c PROVE Unstarted(u)' \/ Active(u)' \/ Blocked(u)'
  BY <1>0, <1>2, <1>4 DEF Agreed, Unstarted, Active, Blocked, TypeOK
<1>5. In("BlockedOnSend")' = In("BlockedOnSend")
  BY <1>0 DEF In
<1> QED BY <1>0, <1>3, <1>4, <1>5, SameSenders DEF Agreed
LEMMA NextAgreed ==
  ASSUME Sound, parkedOnly, Agreed, [Next]_<<vars, parkedOnly>>
  PROVE  Agreed'
<1> USE ThreadAssumption
<1>1. CASE UNCHANGED <<vars, parkedOnly>>
  BY <1>1, StutterAgreed
<1>2. CASE \E c, t \in Thread : StartThread(c, t) \/ Kick(c, t) \/ Exit(c, t)
  BY <1>2, StartThreadAgreed, KickAgreed, ExitAgreed
<1>3. CASE \E c \in Thread : Return(c)
  BY <1>3, ReturnAgreed
<1>4. CASE \E c \in Server : Serve(c)
  BY <1>4, RecvNowAgreed, RecvParkedAgreed, ReplyAgreed, ReplyRefusedAgreed DEF Serve
<1>5. CASE \E c \in Client, e \in Endpoint, m \in Msg :
             SendDelivered(c, e, m) \/ SendQueued(c, e, m, "send") \/ CallFast(c, e, m)
  BY <1>5, SendDeliveredAgreed, SendQueuedAgreed, CallFastAgreed
<1>6. ~CallQueued
  BY DEF CallQueued
<1> QED BY <1>1, <1>2, <1>3, <1>4, <1>5, <1>6 DEF Next, Others

(***************************************************************************)
(* The whole inductive invariant: in behaviours without queued calls, TCB  *)
(* state, run state, syscall, queue place and pending message of every     *)
(* thread agree.                                                           *)
(***************************************************************************)
THEOREM IpcInvariant == Spec => []IInv
<1>1. Start => IInv
  BY InitSound, InitAgreed DEF Start, IInv
<1>2. IInv /\ [Next]_<<vars, parkedOnly>> => IInv'
  <2> SUFFICES ASSUME IInv, [Next]_<<vars, parkedOnly>> PROVE IInv'
    OBVIOUS
  <2>1. Sound'
    BY NextSound DEF IInv
  <2>2. parkedOnly' = parkedOnly
    BY DEF Next
  <2>3. parkedOnly => Agreed'
    BY NextAgreed DEF IInv
  <2> QED BY <2>1, <2>2, <2>3 DEF IInv
<1> QED BY <1>1, <1>2, PTL DEF Spec

\* P is the set of places of t in the queues q.
PlacesOf(P, q, name, t) ==
  /\ P \in SUBSET (Endpoint \X (1 .. Q))
  /\ \A e \in Endpoint : Len(q[e]) <= Q
  /\ \A e \in Endpoint, i \in 1 .. Q : <<e, i>> \in P <=> i <= Len(q[e]) /\ name[q[e][i]] = t

\* A thread that waits has one place, any other none.
LEMMA WaitingCounted ==
  ASSUME NEW X, NEW q \in [Endpoint -> Seq(X)], NEW name \in [X -> Thread],
         NEW W, NEW t \in Thread, NEW P, PlacesOf(P, q, name, t),
         Waiting(q, name, W)
  PROVE  Cardinality(P) = IF t \in W THEN 1 ELSE 0
<1>0. /\ P \in SUBSET (Endpoint \X (1 .. Q))
      /\ \A e \in Endpoint : Len(q[e]) <= Q
      /\ \A e \in Endpoint, i \in 1 .. Q : <<e, i>> \in P <=> i <= Len(q[e]) /\ name[q[e][i]] = t
  BY DEF PlacesOf
<1>1. \A e \in Endpoint : q[e] \in Seq(X) /\ Len(q[e]) \in Nat
  OBVIOUS
<1>2. \A e \in Endpoint, i \in 1 .. Q : <<e, i>> \in P => i \in 1 .. Len(q[e]) /\ name[q[e][i]] = t
  BY <1>0, <1>1, QueueAssumption
<1>3. \A e \in Endpoint : \A i \in 1 .. Len(q[e]) : name[q[e][i]] = t => i \in 1 .. Q /\ <<e, i>> \in P
  BY <1>0, <1>1, QueueAssumption
<1>4. CASE t \in W
  <2>1. PICK e \in Endpoint : \E i \in 1 .. Len(q[e]) : name[q[e][i]] = t
    BY <1>4 DEF Waiting
  <2>2. PICK i \in 1 .. Len(q[e]) : name[q[e][i]] = t
    BY <2>1
  <2>3. \A f \in Endpoint, j \in 1 .. Q : <<f, j>> \in P => f = e /\ j = i
    BY <1>2, <2>2 DEF Waiting
  <2>4. <<e, i>> \in P
    BY <1>3, <2>2
  <2>5. P = {<<e, i>>}
    <3>1. ASSUME NEW p \in P PROVE p = <<e, i>>
      <4>1. PICK f \in Endpoint, j \in 1 .. Q : p = <<f, j>>
        BY <1>0
      <4> QED BY <2>3, <4>1
    <3> QED BY <2>4, <3>1
  <2> QED BY <1>4, <2>5, FS_Singleton
<1>5. CASE t \notin W
  <2>1. P = {}
    <3>1. ASSUME NEW p \in P PROVE FALSE
      <4>1. PICK f \in Endpoint, j \in 1 .. Q : p = <<f, j>>
        BY <1>0
      <4>2. j \in 1 .. Len(q[f]) /\ name[q[f][j]] = t
        BY <1>2, <4>1
      <4> QED BY <1>5, <4>2 DEF Waiting
    <3> QED BY <3>1
  <2> QED BY <1>5, <2>1, FS_EmptySet
<1> QED BY <1>4, <1>5

LEMMA InvariantBlockedIsQueued ==
  ASSUME Sound, Agreed
  PROVE  BlockedIsQueued
<1> SUFFICES ASSUME NEW t \in Thread
             PROVE  /\ Cardinality(Places(receivers, LAMBDA r : r = t)) = (IF state[t] = "BlockedOnRecv" THEN 1 ELSE 0)
                    /\ state[t] = "BlockedOnSend" => Cardinality(Places(senders, LAMBDA r : r.thread = t)) = 1
  BY DEF BlockedIsQueued
<1>0. /\ receivers \in [Endpoint -> Seq(Thread)] /\ senders \in [Endpoint -> Seq(Entry)]
      /\ \A e \in Endpoint : Len(senders[e]) <= Q /\ Len(receivers[e]) <= Q
  BY DEF Sound, Rendezvous, TypeOK, Entry
<1>1. Cardinality(Places(receivers, LAMBDA r : r = t)) = (IF t \in In("BlockedOnRecv") THEN 1 ELSE 0)
  <2> DEFINE P == Places(receivers, LAMBDA r : r = t)
  <2>1. P \in SUBSET (Endpoint \X (1 .. Q))
    BY DEF Places
  <2>2. SelfName \in [Thread -> Thread] /\ \A x \in Thread : SelfName[x] = x
    BY DEF SelfName
  <2>3. ASSUME NEW e \in Endpoint, NEW i \in 1 .. Q
        PROVE  <<e, i>> \in P <=> i <= Len(receivers[e]) /\ SelfName[receivers[e][i]] = t
    <3>1. <<e, i>> \in P <=> i <= Len(receivers[e]) /\ receivers[e][i] = t
      BY DEF Places
    <3>2. i <= Len(receivers[e]) => receivers[e][i] \in Thread
      BY <1>0, QueueAssumption
    <3> QED BY <2>2, <3>1, <3>2
  <2>4. Waiting(receivers, SelfName, In("BlockedOnRecv"))
    BY DEF Sound, ReceiversWait
  <2> HIDE DEF P
  <2>5. Cardinality(P) = IF t \in In("BlockedOnRecv") THEN 1 ELSE 0
    <3>1. PlacesOf(P, receivers, SelfName, t)
      BY <1>0, <2>1, <2>3 DEF PlacesOf
    <3>2. receivers \in [Endpoint -> Seq(Thread)] /\ SelfName \in [Thread -> Thread]
      BY <1>0, <2>2
    <3>3. PICK W : W = In("BlockedOnRecv")
      OBVIOUS
    <3>4. Waiting(receivers, SelfName, W)
      BY <2>4, <3>3
    <3>5. Cardinality(P) = IF t \in W THEN 1 ELSE 0
      BY <3>1, <3>2, <3>4, WaitingCounted
    <3> QED BY <3>3, <3>5
  <2> QED BY <2>5 DEF P
<1>2. Cardinality(Places(senders, LAMBDA r : r.thread = t)) = (IF t \in In("BlockedOnSend") THEN 1 ELSE 0)
  <2> DEFINE P == Places(senders, LAMBDA r : r.thread = t)
  <2>1. P \in SUBSET (Endpoint \X (1 .. Q))
    BY DEF Places
  <2>2. SenderName \in [Entry -> Thread] /\ \A x \in Entry : SenderName[x] = x.thread
    BY DEF SenderName, Entry
  <2>3. ASSUME NEW e \in Endpoint, NEW i \in 1 .. Q
        PROVE  <<e, i>> \in P <=> i <= Len(senders[e]) /\ SenderName[senders[e][i]] = t
    <3>1. <<e, i>> \in P <=> i <= Len(senders[e]) /\ senders[e][i].thread = t
      BY DEF Places
    <3>2. i <= Len(senders[e]) => senders[e][i] \in Entry
      BY <1>0, QueueAssumption
    <3> QED BY <2>2, <3>1, <3>2
  <2>4. Waiting(senders, SenderName, In("BlockedOnSend"))
    BY DEF Agreed
  <2> HIDE DEF P
  <2>5. Cardinality(P) = IF t \in In("BlockedOnSend") THEN 1 ELSE 0
    <3>1. PlacesOf(P, senders, SenderName, t)
      BY <1>0, <2>1, <2>3 DEF PlacesOf
    <3>2. senders \in [Endpoint -> Seq(Entry)] /\ SenderName \in [Entry -> Thread]
      BY <1>0, <2>2
    <3>3. PICK W : W = In("BlockedOnSend")
      OBVIOUS
    <3>4. Waiting(senders, SenderName, W)
      BY <2>4, <3>3
    <3>5. Cardinality(P) = IF t \in W THEN 1 ELSE 0
      BY <3>1, <3>2, <3>4, WaitingCounted
    <3> QED BY <3>3, <3>5
  <2> QED BY <2>5 DEF P
<1> QED BY <1>1, <1>2 DEF In

(***************************************************************************)
(* With parked receivers only, a thread is Runnable exactly when the       *)
(* scheduler may run it, and a thread blocked on a rendezvous waits in     *)
(* exactly one place of one endpoint queue.                                *)
(***************************************************************************)
THEOREM ThreadsAgree == Spec => []ParkedAgree
<1>1. IInv => ParkedAgree
  <2> SUFFICES ASSUME IInv, parkedOnly PROVE RunnableIsSchedulable /\ BlockedIsQueued
    BY DEF ParkedAgree
  <2>1. RunnableIsSchedulable
    BY DEF IInv, Agreed, Unstarted, Active, Blocked, RunnableIsSchedulable
  <2> QED BY <2>1, InvariantBlockedIsQueued DEF IInv
<1> QED BY <1>1, IpcInvariant, PTL

(***************************************************************************)
(* With parked receivers only, a Call that returns has been left a reply.  *)
(***************************************************************************)
THEOREM CallsAnswered == Spec => []ParkedCallReturnsReply
<1>1. IInv => ParkedCallReturnsReply
  <2> SUFFICES ASSUME IInv, parkedOnly, NEW c \in Thread, cpu = c, inside[c] = "call"
               PROVE  pendingMsg[c] # None
    BY DEF ParkedCallReturnsReply, CallReturnsReply
  <2>1. Active(c)
    BY CoreRunnable DEF IInv
  <2> QED BY <2>1 DEF Active
<1> QED BY <1>1, IpcInvariant, PTL

(***************************************************************************)
(* With parked receivers only, a message left for a thread stays until its *)
(* receiver takes it: neither a second delivery nor a reply overwrites it. *)
(***************************************************************************)
THEOREM MessagesNotOverwritten == Spec => ParkedNoOverwrite
<1> DEFINE A == parkedOnly => \A t \in Thread : pendingMsg[t] # None /\ pendingMsg'[t] # pendingMsg[t]
                                                  => pendingMsg'[t] = None
<1>1. IInv /\ [Next]_<<vars, parkedOnly>> => [A]_<<vars, parkedOnly>>
  <2> SUFFICES ASSUME Sound, Agreed, parkedOnly, Next, NEW t \in Thread,
                      pendingMsg[t] # None, pendingMsg'[t] # pendingMsg[t]
               PROVE  pendingMsg'[t] = None
    BY DEF IInv
  <2> USE ThreadAssumption
  <2>0. TypeOK
    BY DEF Sound, Rendezvous
  <2>1. ~Blocked(t)
    BY DEF Blocked
  \* A delivery goes to a thread blocked in Recv, which was left nothing.
  <2>2. ASSUME NEW c \in Thread, cpu = c, NEW e \in Endpoint, NEW m \in Msg, NEW s \in ThreadState,
               s # "BlockedOnRecv", receivers[e] # <<>>, Deliver(c, e, m, s)
        PROVE  FALSE
    <3> DEFINE rx == Head(receivers[e])
    <3>1. /\ rx \in Thread /\ state[rx] = "BlockedOnRecv"
          /\ pendingMsg' = [pendingMsg EXCEPT ![rx] = m]
      BY <2>2, DeliverTakesReceiver
    <3> HIDE DEF rx
    <3>2. Blocked(rx)
      BY <3>1 DEF Agreed, Unstarted, Active
    <3> QED BY <2>0, <2>1, <3>1, <3>2 DEF TypeOK
  <2>3. CASE \E c \in Client, e \in Endpoint, m \in Msg :
               SendDelivered(c, e, m) \/ SendQueued(c, e, m, "send") \/ CallFast(c, e, m)
    <3>1. ASSUME NEW c \in Client, NEW e \in Endpoint, NEW m \in Msg, SendDelivered(c, e, m)
          PROVE  FALSE
      <4>1. c \in Thread /\ cpu = c /\ receivers[e] # <<>> /\ Deliver(c, e, m, state[c])
        BY <3>1 DEF SendDelivered, Executes
      <4>2. state[c] \in ThreadState /\ state[c] # "BlockedOnRecv"
        BY <2>0, <4>1 DEF Sound, TypeOK, CoreSchedulable, ReceiversWait
      <4> QED BY <2>2, <4>1, <4>2
    <3>2. ASSUME NEW c \in Client, NEW e \in Endpoint, NEW m \in Msg, CallFast(c, e, m)
          PROVE  FALSE
      <4>1. c \in Thread /\ cpu = c /\ receivers[e] # <<>> /\ Deliver(c, e, m, "BlockedOnReply")
        BY <3>2 DEF CallFast, Executes
      <4>2. "BlockedOnReply" \in ThreadState
        BY DEF ThreadState
      <4> QED BY <2>2, <4>1, <4>2
    <3> QED BY <2>3, <3>1, <3>2 DEF SendQueued, Enqueue
  \* A reply goes to a thread blocked on it.
  <2>4. CASE \E c \in Server : Serve(c)
    <3>1. ASSUME NEW c \in Server, NEW to \in Thread, NEW m \in Msg, Reply(c, to, m)
          PROVE  FALSE
      <4>1. state[to] = "BlockedOnReply" /\ pendingMsg' = [pendingMsg EXCEPT ![to] = m]
        BY <3>1 DEF Reply, Answer
      <4>2. Blocked(to)
        BY <4>1 DEF Agreed, Unstarted, Active
      <4> QED BY <2>0, <2>1, <4>1, <4>2 DEF TypeOK
    <3> QED BY <2>4, <3>1 DEF Serve, RecvNow, RecvImmediate, RecvParked, Park, ReplyRefused, Refuse, tcb
  <2>5. CASE \E c \in Thread : Return(c)
    BY <2>0, <2>5 DEF Return, Resume, tcb, TypeOK
  <2>6. CASE \E c, u \in Thread : StartThread(c, u) \/ Kick(c, u) \/ Exit(c, u)
    BY <2>6 DEF StartThread, Kick, Exit, tcb
  <2>7. ~CallQueued
    BY DEF CallQueued
  <2> QED BY <2>3, <2>4, <2>5, <2>6, <2>7 DEF Next, Others
<1>2. Spec => [][Next]_<<vars, parkedOnly>>
  BY DEF Spec
<1> QED BY <1>1, <1>2, IpcInvariant, PTL DEF ParkedNoOverwrite
=============================================================================
