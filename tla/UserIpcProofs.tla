---------------------------- MODULE UserIpcProofs ----------------------------
(***************************************************************************)
(* The cooperative phase of the boot while nobody dies and every call goes *)
(* through a service wrapper: for any number of services, processes and    *)
(* messages the trap handlers know who trapped, and a Call never returns   *)
(* without its reply.                                                      *)
(*                                                                         *)
(* The inductive invariant follows the one call that can be outstanding:   *)
(* the Root Task is in user code, or its message is queued, was handed to  *)
(* a parked service, or was received, and then the service that owes the   *)
(* reply has the core and gives it up only by replying.                    *)
(***************************************************************************)
EXTENDS UserIpc, SequenceTheorems, TLAPS

(***************************************************************************)
(* The system the kernel boots on riscv64 and aarch64: the service         *)
(* wrappers are called by the Root Task, every service has one endpoint,   *)
(* and a service that was not poked finds slot 0, the Root Task's id, in   *)
(* its first return register.  On x86_64 the last part does not hold, and  *)
(* neither do the theorems (run user_ipc_x86).                             *)
(***************************************************************************)
Slot0Boot ==
  /\ Client \ RawClient \subseteq {Root}
  /\ \A e, f \in Endpoint : Owner[e] = Owner[f] => e = f
  /\ \A e \in Endpoint : Unpoked[e] = Root

\* The core executes the thread that is running, and no other entity is.
OnCore ==
  /\ cpu \in Thread /\ running = cpu /\ entity[cpu] = "Running"
  /\ \A t \in Thread : entity[t] = "Running" => t = cpu

\* A thread other than the Root Task.
Unborn(t) == state[t] = "Inactive" /\ entity[t] = "None" /\ inside[t] = "user"
Awake(t)  ==
  /\ state[t] = "Runnable" /\ entity[t] \in {"Ready", "Running"}
  /\ inside[t] = "user" \/ (t = cpu /\ inside[t] = "recv")
Waits(t)  == state[t] = "BlockedOnRecv" /\ entity[t] = "Blocked" /\ inside[t] = "recv"

OthersKept == \A t \in Thread \ {Root} : Unborn(t) \/ Awake(t) \/ Waits(t)

\* An endpoint's receiver queue holds its service, if that is parked.
ParkedAtOwn ==
  \A e \in Endpoint :
    receivers[e] = IF state[Owner[e]] = "BlockedOnRecv" THEN <<Owner[e]>> ELSE <<>>

NoneQueued == \A e \in Endpoint : senders[e] = <<>>
NoneOwed   == \A t \in Thread : client[t] = {}

\* The stages of the Root Task's call.
InUser ==
  /\ state[Root] = "Runnable" /\ entity[Root] \in {"Ready", "Running"}
  /\ inside[Root] = "user" /\ inside[cpu] = "user" /\ NoneQueued /\ NoneOwed
Awaiting ==
  /\ state[Root] = "BlockedOnReply" /\ inside[Root] = "call"
  /\ cpu # Root /\ cpu \in Server
Queued ==
  /\ Awaiting /\ inside[cpu] = "user" /\ entity[Root] = "Blocked" /\ NoneOwed
  /\ \E e \in Endpoint :
       /\ Owner[e] = cpu /\ Len(senders[e]) = 1 /\ senders[e][1].thread = Root
       /\ \A f \in Endpoint \ {e} : senders[f] = <<>>
Handed ==
  /\ Awaiting /\ inside[cpu] = "recv" /\ entity[Root] = "Blocked"
  /\ pendingFrom[cpu] = Root /\ NoneQueued /\ NoneOwed
Received ==
  /\ Awaiting /\ inside[cpu] = "user" /\ entity[Root] \in {"Blocked", "Ready"}
  /\ NoneQueued /\ client[cpu] = {Root} /\ \A t \in Thread \ {cpu} : client[t] = {}
Replied ==
  /\ state[Root] = "Runnable" /\ inside[Root] = "call" /\ cpu = Root
  /\ pendingMsg[Root] \in Msg /\ NoneQueued /\ NoneOwed

CallKept == InUser \/ Queued \/ Handed \/ Received \/ Replied

Serene == TypeOK /\ OnCore /\ OthersKept /\ ParkedAtOwn /\ CallKept

IInv == ~faulty => Serene
-----------------------------------------------------------------------------
\* Where one who executes must stand: the Root Task in user code, or a service
\* that owes or is about to receive, or another thread while the Root Task
\* waits for nothing.
LEMMA ExecutesStage ==
  ASSUME Serene, NEW c \in Thread, Executes(c)
  PROVE  /\ cpu = c /\ running = c /\ inside[c] = "user" /\ state[c] = "Runnable"
         /\ entity[c] = "Running"
         /\ InUser \/ Queued \/ Received
  BY ThreadAssumption DEF Serene, OnCore, OthersKept, Unborn, Awake, Waits, CallKept, Executes, Caller,
     InUser, Queued, Awaiting, Received, Handed, Replied

LEMMA SpawnKeeps ==
  ASSUME Serene, NEW c \in Thread, NEW t \in Thread, SpawnProcess(c, t)
  PROVE  Serene'
<1>1. InUser /\ cpu = Root /\ t # Root
  BY ExecutesStage DEF SpawnProcess, InUser, Queued, Awaiting, Received
<1>2. TypeOK'
  BY DEF Serene, TypeOK, SpawnProcess, Admitted, ep, user, ThreadState, RunState
<1>3. OnCore' /\ OthersKept'
  BY <1>1 DEF Serene, OnCore, OthersKept, Unborn, Awake, Waits, TypeOK, SpawnProcess, Admitted, ep, user
<1>4. ParkedAtOwn'
  BY OwnerAssumption, ThreadAssumption DEF Serene, ParkedAtOwn, TypeOK, SpawnProcess, ep, user
<1>5. InUser'
  BY <1>1, ThreadAssumption DEF Serene, InUser, NoneQueued, NoneOwed, TypeOK, SpawnProcess, Admitted, ep, user
<1> QED BY <1>2, <1>3, <1>4, <1>5 DEF Serene, CallKept

LEMMA StartKeeps ==
  ASSUME Serene, NEW c \in Thread, NEW t \in Thread, StartService(c, t)
  PROVE  Serene'
<1>1. InUser /\ cpu = Root /\ t # Root
  BY ExecutesStage DEF StartService, InUser, Queued, Awaiting, Received
<1>2. TypeOK'
  BY DEF Serene, TypeOK, StartService, Admitted, NoteReady, SwitchTo, ep, user, ThreadState, RunState
<1>3. OnCore' /\ OthersKept'
  BY <1>1 DEF Serene, OnCore, OthersKept, Unborn, Awake, Waits, TypeOK, InUser, StartService, Admitted, NoteReady, SwitchTo, ep, user
<1>4. ParkedAtOwn'
  BY OwnerAssumption, ThreadAssumption DEF Serene, ParkedAtOwn, TypeOK, StartService, ep, user
<1>5. InUser'
  BY <1>1, ThreadAssumption DEF Serene, InUser, OthersKept, Unborn, Awake, Waits, NoneQueued, NoneOwed, TypeOK, StartService,
     Admitted, NoteReady, SwitchTo, ep, user
<1> QED BY <1>2, <1>3, <1>4, <1>5 DEF Serene, CallKept

LEMMA YieldKeeps ==
  ASSUME Serene, NEW c \in Thread \ Server, CooperativeYield(c)
  PROVE  Serene'
<1>1. InUser /\ cpu = c /\ running = c /\ entity[c] = "Running"
  BY ExecutesStage DEF CooperativeYield, InUser, Queued, Awaiting, Received
<1>2. Accounted = [entity EXCEPT ![c] = "Ready"]
  BY <1>1, ThreadAssumption DEF Accounted
<1>3. PICK n \in Thread : /\ n \in Ready(Accounted)
                          /\ entity' = [[entity EXCEPT ![c] = "Ready"] EXCEPT ![n] = "Running"]
                          /\ running' = n /\ cpu' = n
  <2>1. c \in Ready(Accounted)
    BY <1>2 DEF Ready, Serene, TypeOK
  <2>2. NoteReady(Accounted, c) = Accounted
    BY <1>2 DEF NoteReady, Serene, TypeOK
  <2>3. \E n \in Ready(Accounted) : SwitchTo(n, Accounted)
    BY <2>1, <2>2 DEF CooperativeYield
  <2> QED BY <2>3, <1>2 DEF SwitchTo, Ready, Serene, TypeOK
<1>4. n = c \/ entity[n] = "Ready"
  BY <1>2, <1>3 DEF Ready, Serene, TypeOK
<1>5. UNCHANGED <<tcb, ep, inside, client>>
  BY DEF CooperativeYield
<1>6. TypeOK'
  BY <1>3, <1>5 DEF Serene, TypeOK, tcb, ep, RunState
<1>7. OnCore' /\ OthersKept'
  BY <1>1, <1>3, <1>4, <1>5 DEF Serene, OnCore, OthersKept, Unborn, Awake, Waits, TypeOK, InUser, tcb
<1>8. ParkedAtOwn'
  BY <1>5 DEF Serene, ParkedAtOwn, tcb, ep
<1>9. inside[n] = "user"
  BY <1>1, <1>4 DEF Serene, OthersKept, Unborn, Awake, Waits, InUser
<1>10. InUser'
  BY <1>1, <1>3, <1>5, <1>9, ThreadAssumption DEF Serene, InUser, NoneQueued, NoneOwed, TypeOK, tcb, ep
<1> QED BY <1>6, <1>7, <1>8, <1>10 DEF Serene, CallKept

\* The parked service gets the core and, not poked, finds the Root Task's id.
LEMMA CallWrapperKeeps ==
  ASSUME Slot0Boot, Serene, NEW e \in Callable(Root), CallWrapper(Root, e)
  PROVE  Serene'
<1>0. e \in Endpoint /\ Owner[e] # Root /\ Owner[e] \in Server /\ Owner[e] \in Thread /\ Root \in Thread
  BY ThreadAssumption, OwnerAssumption DEF Callable
<1>1. InUser /\ cpu = Root /\ running = Root
  BY <1>0, ExecutesStage DEF CallWrapper, Parked, InUser, Queued, Awaiting, Received
<1>2. PICK rx \in Thread : rx = Owner[e]
  BY <1>0
<1>3. receivers[e] = <<rx>> /\ Head(receivers[e]) = rx /\ Tail(receivers[e]) = <<>>
      /\ state[rx] = "BlockedOnRecv"
  <2>1. receivers[e] = <<rx>> /\ state[rx] = "BlockedOnRecv"
    BY <1>0, <1>2 DEF CallWrapper, Parked, Serene, ParkedAtOwn
  <2> QED BY <2>1
<1>4. entity[rx] = "Blocked" /\ inside[rx] = "recv"
  BY <1>0, <1>2, <1>3 DEF Serene, OthersKept, Unborn, Awake, Waits
<1>5. /\ receivers' = [receivers EXCEPT ![e] = <<>>]
      /\ pendingFrom' = [pendingFrom EXCEPT ![rx] = Root]
      /\ state' = [[state EXCEPT ![rx] = "Runnable"] EXCEPT ![Root] = "BlockedOnReply"]
      /\ inside' = [inside EXCEPT ![Root] = "call"]
      /\ UNCHANGED <<senders, pendingMsg, client>>
  BY <1>0, <1>2, <1>3 DEF CallWrapper, HandOver, Slot0Boot
<1>6. /\ entity' = [[entity EXCEPT ![Root] = "Blocked"] EXCEPT ![rx] = "Running"]
      /\ running' = rx /\ cpu' = rx
  <2>1. SwitchTo(rx, CallDelivered(Root, e))
    BY <1>3 DEF CallWrapper, HandOver
  <2>2. entity[Root] = "Running" /\ rx # Root
    BY <1>0, <1>1, <1>2 DEF Serene, OnCore
  <2>3. CallDelivered(Root, e) = [[entity EXCEPT ![rx] = "Ready"] EXCEPT ![Root] = "Blocked"]
    BY <1>0, <1>3, <1>4, <2>2 DEF CallDelivered, NoteReady, NoteBlocked, Serene, TypeOK
  <2> QED BY <2>1, <2>2, <2>3, <1>0 DEF SwitchTo, Serene, TypeOK
<1>7. TypeOK'
  <2>1. <<>> \in Seq(Thread)
    OBVIOUS
  <2> QED BY <1>0, <1>5, <1>6, <2>1 DEF Serene, TypeOK, ThreadState, RunState
<1>8. OnCore' /\ OthersKept'
  BY <1>0, <1>1, <1>2, <1>4, <1>5, <1>6 DEF Serene, OnCore, OthersKept, Unborn, Awake, Waits, TypeOK, InUser
<1>9. ParkedAtOwn'
  <2>1. \A f \in Endpoint \ {e} : Owner[f] # rx /\ Owner[f] \in Thread
    BY <1>0, <1>2, OwnerAssumption, ThreadAssumption DEF Slot0Boot
  <2>2. state'[rx] = "Runnable" /\ state'[Root] # "BlockedOnRecv" /\ state[Root] # "BlockedOnRecv"
    BY <1>0, <1>1, <1>2, <1>5 DEF Serene, TypeOK, InUser
  <2>3. \A t \in Thread \ {rx, Root} : state'[t] = state[t]
    BY <1>5 DEF Serene, TypeOK
  <2>4. receivers'[e] = <<>> /\ \A f \in Endpoint \ {e} : receivers'[f] = receivers[f]
    BY <1>0, <1>5 DEF Serene, TypeOK
  <2> QED BY <2>1, <2>2, <2>3, <2>4, <1>0, <1>2 DEF Serene, ParkedAtOwn
<1>10. Handed'
  BY <1>0, <1>1, <1>2, <1>4, <1>5, <1>6 DEF Serene, TypeOK, InUser, Handed, Awaiting, NoneQueued, NoneOwed
<1> QED BY <1>7, <1>8, <1>9, <1>10 DEF Serene, CallKept

\* The wrapper queues the call and hands the core to the service itself,
\* which is ready: it was started, and it is not parked.
LEMMA CallServiceKeeps ==
  ASSUME Slot0Boot, Serene, NEW e \in Callable(Root), NEW m \in Msg, CallService(Root, e, m)
  PROVE  Serene'
<1>0. e \in Endpoint /\ Owner[e] # Root /\ Owner[e] \in Server /\ Owner[e] \in Thread /\ Root \in Thread
  BY ThreadAssumption, OwnerAssumption DEF Callable
<1>1. InUser /\ cpu = Root /\ running = Root /\ entity[Root] = "Running"
  BY <1>0, ExecutesStage DEF CallService, InUser, Queued, Awaiting, Received
<1>2. PICK s \in Thread : s = Owner[e]
  BY <1>0
<1>3. state[s] = "Runnable" /\ entity[s] = "Ready" /\ inside[s] = "user"
  <2>1. state[s] # "BlockedOnRecv" /\ state[s] # "Inactive"
    <3>1. receivers[e] = <<>> /\ <<s>> # <<>>
      BY DEF CallService, Enqueue
    <3> QED BY <1>0, <1>2, <3>1 DEF CallService, Serene, ParkedAtOwn
  <2> QED BY <2>1, <1>0, <1>1, <1>2 DEF Serene, OnCore, OthersKept, Unborn, Awake, Waits
<1>4. PICK r : r = [thread |-> Root, msg |-> m]
  OBVIOUS
<1>5. /\ senders' = [senders EXCEPT ![e] = <<r>>]
      /\ state' = [state EXCEPT ![Root] = "BlockedOnReply"]
      /\ inside' = [inside EXCEPT ![Root] = "call"]
      /\ UNCHANGED <<pendingMsg, pendingFrom, receivers, client>>
  <2>1. senders[e] = <<>>
    BY <1>0, <1>1 DEF InUser, NoneQueued
  <2>2. Append(<<>>, r) = <<r>>
    OBVIOUS
  <2> QED BY <2>1, <2>2, <1>0, <1>4 DEF CallService, Enqueue
<1>6. /\ entity' = [[entity EXCEPT ![Root] = "Blocked"] EXCEPT ![s] = "Running"]
      /\ running' = s /\ cpu' = s
  <2>1. NoteBlocked(entity, Root) = [entity EXCEPT ![Root] = "Blocked"]
    BY <1>1 DEF NoteBlocked
  <2>2. s \in Ready(NoteBlocked(entity, Root))
    BY <2>1, <1>0, <1>2, <1>3 DEF Ready, Serene, TypeOK
  <2>3. SwitchTo(s, NoteBlocked(entity, Root))
    BY <2>2, <1>2 DEF CallService
  <2> QED BY <2>1, <2>3, <1>0, <1>2, <1>3 DEF SwitchTo, Serene, TypeOK
<1>7. <<r>> \in Seq([thread : Thread, msg : Msg]) /\ Len(<<r>>) = 1 /\ <<r>>[1] = r /\ r.thread = Root
  BY <1>0, <1>4
<1>8. TypeOK'
  BY <1>0, <1>5, <1>6, <1>7 DEF Serene, TypeOK, ThreadState, RunState
<1>9. OnCore' /\ OthersKept'
  BY <1>0, <1>1, <1>2, <1>3, <1>5, <1>6 DEF Serene, OnCore, OthersKept, Unborn, Awake, Waits, TypeOK, InUser
<1>10. ParkedAtOwn'
  BY <1>0, <1>1, <1>5 DEF Serene, TypeOK, ParkedAtOwn, InUser
<1>11. senders'[e] = <<r>> /\ \A f \in Endpoint \ {e} : senders'[f] = <<>>
  BY <1>0, <1>1, <1>5 DEF Serene, TypeOK, InUser, NoneQueued
<1>12. Queued'
  BY <1>0, <1>1, <1>2, <1>3, <1>5, <1>6, <1>7, <1>11 DEF Serene, TypeOK, InUser, Queued, Awaiting, NoneOwed
<1> QED BY <1>8, <1>9, <1>10, <1>12 DEF Serene, CallKept

LEMMA OneEntry ==
  ASSUME NEW X, NEW s \in Seq(X), Len(s) = 1
  PROVE  Head(s) = s[1] /\ Tail(s) = <<>>
<1>1. s # <<>> /\ Tail(s) \in Seq(X) /\ Len(Tail(s)) = 0 /\ Head(s) = s[1]
  OBVIOUS
<1> QED BY <1>1, EmptySeq

\* Only the service the call was queued for can find a sender.
LEMMA RecvNowKeeps ==
  ASSUME Slot0Boot, Serene, NEW c \in Thread, NEW e \in Endpoint, Owner[e] = c, RecvNow(c, e)
  PROVE  Serene'
<1>0. Root \in Thread
  BY ThreadAssumption
<1>1. cpu = c /\ senders[e] # <<>> /\ inside[c] = "user"
  BY ExecutesStage DEF RecvNow, RecvImmediate
<1>2. Queued
  BY <1>1, ExecutesStage DEF RecvNow, InUser, Received, NoneQueued
<1>3. Len(senders[e]) = 1 /\ senders[e][1].thread = Root /\ \A f \in Endpoint \ {e} : senders[f] = <<>>
  BY <1>1, <1>2 DEF Queued
<1>4. Head(senders[e]).thread = Root /\ Tail(senders[e]) = <<>>
  <2>1. senders[e] \in Seq([thread : Thread, msg : Msg])
    BY DEF Serene, TypeOK
  <2> QED BY <2>1, <1>3, OneEntry
<1>5. /\ state' = state /\ inside' = inside
      /\ entity' = [entity EXCEPT ![Root] = "Ready"]
      /\ client' = [client EXCEPT ![c] = {Root}]
      /\ senders' = [senders EXCEPT ![e] = <<>>]
      /\ UNCHANGED <<pendingMsg, pendingFrom, running, receivers, cpu>>
  BY <1>0, <1>1, <1>2, <1>4 DEF RecvNow, RecvImmediate, NoteReady, Queued, Awaiting, NoneOwed, Serene, TypeOK
<1>6. TypeOK'
  <2>1. <<>> \in Seq([thread : Thread, msg : Msg])
    OBVIOUS
  <2> QED BY <1>0, <1>5, <2>1 DEF Serene, TypeOK, RunState
<1>7. OnCore' /\ OthersKept' /\ ParkedAtOwn'
  BY <1>0, <1>1, <1>2, <1>5 DEF Serene, OnCore, OthersKept, Unborn, Awake, Waits, ParkedAtOwn, TypeOK, Queued, Awaiting
<1>8. Received'
  BY <1>0, <1>1, <1>2, <1>3, <1>5 DEF Serene, TypeOK, Queued, Received, Awaiting, NoneOwed, NoneQueued
<1> QED BY <1>6, <1>7, <1>8 DEF Serene, CallKept

\* A service with nobody to answer parks, and the Root Task is ready to go on.
LEMMA RecvParkedKeeps ==
  ASSUME Slot0Boot, Serene, NEW c \in Server, NEW e \in Endpoint, Owner[e] = c, client[c] = {},
         RecvParked(c, e)
  PROVE  Serene'
<1>0. Root \in Thread /\ c \in Thread /\ c # Root
  BY ThreadAssumption DEF RecvParked
<1>1. cpu = c /\ senders[e] = <<>> /\ state[c] = "Runnable" /\ entity[c] = "Running" /\ inside[c] = "user"
  <2>1. Executes(c) /\ senders[e] = <<>>
    BY DEF RecvParked, Park
  <2> QED BY <1>0, <2>1, ExecutesStage
<1>2. InUser
  <2>1. ~Received
    BY <1>0, <1>1 DEF Received
  <2>2. ~Queued
    <3>1. SUFFICES ASSUME Queued PROVE FALSE
      OBVIOUS
    <3>2. PICK f \in Endpoint : Owner[f] = cpu /\ Len(senders[f]) = 1
      BY <3>1 DEF Queued
    <3>3. f = e
      BY <3>2, <1>1 DEF Slot0Boot
    <3> QED BY <3>2, <3>3, <1>1
  <2> QED BY <1>0, <2>1, <2>2, ExecutesStage DEF RecvParked
<1>3. receivers[e] = <<>>
  BY <1>1 DEF Serene, ParkedAtOwn
<1>4. /\ receivers' = [receivers EXCEPT ![e] = <<c>>]
      /\ state' = [state EXCEPT ![c] = "BlockedOnRecv"]
      /\ inside' = [inside EXCEPT ![c] = "recv"]
      /\ UNCHANGED <<pendingMsg, pendingFrom, senders, client>>
  <2>1. Append(<<>>, c) = <<c>>
    OBVIOUS
  <2> QED BY <2>1, <1>3 DEF RecvParked, Park
<1>5. entity[Root] = "Ready"
  BY <1>0, <1>1, <1>2 DEF InUser, Serene, OnCore
<1>6. /\ entity' = [[entity EXCEPT ![c] = "Blocked"] EXCEPT ![Root] = "Running"]
      /\ running' = Root /\ cpu' = Root
  <2>1. NoteBlocked(entity, c) = [entity EXCEPT ![c] = "Blocked"]
    BY <1>1 DEF NoteBlocked
  <2>2. Root \in Ready(NoteBlocked(entity, c))
    BY <2>1, <1>0, <1>5 DEF Ready, Serene, TypeOK
  <2>3. SwitchTo(Root, NoteBlocked(entity, c))
    BY <2>2 DEF RecvParked
  <2> QED BY <2>1, <2>3, <1>0, <1>5 DEF SwitchTo, Serene, TypeOK
<1>7. <<c>> \in Seq(Thread)
  BY <1>0
<1>8. TypeOK'
  BY <1>0, <1>4, <1>6, <1>7 DEF Serene, TypeOK, ThreadState, RunState
<1>9. OnCore' /\ OthersKept'
  BY <1>0, <1>1, <1>2, <1>4, <1>5, <1>6 DEF Serene, OnCore, OthersKept, Unborn, Awake, Waits, TypeOK, InUser
<1>10. ParkedAtOwn'
  <2>1. \A f \in Endpoint \ {e} : Owner[f] # c /\ Owner[f] \in Thread
    BY OwnerAssumption, ThreadAssumption DEF Slot0Boot
  <2>2. \A t \in Thread \ {c} : state'[t] = state[t]
    BY <1>4 DEF Serene, TypeOK
  <2>3. state'[c] = "BlockedOnRecv" /\ receivers'[e] = <<c>> /\ \A f \in Endpoint \ {e} : receivers'[f] = receivers[f]
    BY <1>0, <1>4 DEF Serene, TypeOK
  <2> QED BY <2>1, <2>2, <2>3 DEF Serene, ParkedAtOwn
<1>11. InUser'
  BY <1>0, <1>2, <1>4, <1>6 DEF Serene, TypeOK, InUser, NoneQueued, NoneOwed
<1> QED BY <1>8, <1>9, <1>10, <1>11 DEF Serene, CallKept

\* The reply reaches the Root Task, which gets the core.
LEMMA ReplyKeeps ==
  ASSUME Serene, NEW c \in Thread, NEW to \in Thread, NEW m \in Msg, Reply(c, to, m)
  PROVE  Serene'
<1>0. Root \in Thread
  BY ThreadAssumption
<1>1. Received /\ cpu = c /\ entity[c] = "Running" /\ to = Root /\ c # Root
  <2>1. Executes(c) /\ to \in client[c]
    BY DEF Reply, Answer
  <2>2. cpu = c /\ entity[c] = "Running" /\ (InUser \/ Queued \/ Received)
    BY <2>1, ExecutesStage
  <2>3. Received
    BY <2>1, <2>2 DEF InUser, Queued, NoneOwed
  <2> QED BY <2>1, <2>2, <2>3 DEF Received, Awaiting
<1>2. /\ pendingMsg' = [pendingMsg EXCEPT ![Root] = m]
      /\ state' = [state EXCEPT ![Root] = "Runnable"]
      /\ client' = [client EXCEPT ![c] = {}]
      /\ UNCHANGED <<pendingFrom, ep, inside>>
  <2>1. client[c] \ {Root} = {}
    BY <1>1 DEF Received
  <2> QED BY <1>1, <2>1 DEF Reply, Answer
<1>3. /\ entity' = [[entity EXCEPT ![c] = "Ready"] EXCEPT ![Root] = "Running"]
      /\ running' = Root /\ cpu' = Root
  <2>1. entity[Root] # "None"
    BY <1>1 DEF Received
  <2>2. Answered(c, to) = [[entity EXCEPT ![Root] = "Ready"] EXCEPT ![c] = "Ready"]
    BY <1>0, <1>1, <2>1 DEF Answered, NoteReady, Serene, TypeOK
  <2> QED BY <1>0, <1>1, <2>2 DEF Reply, SwitchTo, Serene, TypeOK
<1>4. TypeOK'
  BY <1>0, <1>2, <1>3 DEF Serene, TypeOK, ThreadState, RunState, ep
<1>5. OnCore' /\ OthersKept'
  BY <1>0, <1>1, <1>2, <1>3 DEF Serene, OnCore, OthersKept, Unborn, Awake, Waits, TypeOK, Received, Awaiting
<1>6. ParkedAtOwn'
  <2>1. \A f \in Endpoint : (state'[Owner[f]] = "BlockedOnRecv") <=> (state[Owner[f]] = "BlockedOnRecv")
    BY <1>0, <1>1, <1>2, OwnerAssumption, ThreadAssumption DEF Serene, TypeOK, Received, Awaiting
  <2> QED BY <2>1, <1>2 DEF Serene, ParkedAtOwn, ep
<1>7. Replied'
  BY <1>0, <1>1, <1>2, <1>3 DEF Serene, TypeOK, Received, Awaiting, Replied, NoneQueued, NoneOwed, ep
<1> QED BY <1>4, <1>5, <1>6, <1>7 DEF Serene, CallKept

\* A service is never told that nobody waits for its answer.
LEMMA NeverRefused ==
  ASSUME Serene, NEW c \in Thread, NEW to \in Thread, ReplyRefused(c, to)
  PROVE  FALSE
BY ExecutesStage DEF ReplyRefused, Refuse, InUser, Queued, Received, NoneOwed, Awaiting

\* A trap returns: a service takes the caller it was left, the Root Task its
\* reply.
LEMMA ReturnKeeps ==
  ASSUME Serene, NEW c \in Thread, Return(c)
  PROVE  Serene'
<1>0. Root \in Thread /\ cpu = c /\ inside[c] # "user" /\ Resume(c)
  BY ThreadAssumption DEF Return
<1>1. Handed \/ Replied
  BY <1>0 DEF Serene, CallKept, InUser, Queued, Received
<1>2. /\ inside' = [inside EXCEPT ![c] = "user"]
      /\ UNCHANGED <<state, sched, ep, cpu>>
  BY <1>0, <1>1 DEF Resume, tcb
<1>3. OnCore' /\ OthersKept' /\ ParkedAtOwn'
  BY <1>0, <1>2 DEF Serene, OnCore, OthersKept, Unborn, Awake, Waits, ParkedAtOwn, TypeOK, sched, ep
<1>4. CASE Handed
  <2>1. /\ pendingMsg' = [pendingMsg EXCEPT ![c] = None]
        /\ pendingFrom' = [pendingFrom EXCEPT ![c] = None]
        /\ client' = [client EXCEPT ![c] = {Root}]
    BY <1>0, <1>4, ThreadAssumption DEF Resume, Handed, NoneOwed
  <2>2. TypeOK'
    BY <1>0, <1>2, <2>1 DEF Serene, TypeOK, sched, ep
  <2>3. Received'
    BY <1>0, <1>2, <1>4, <2>1 DEF Serene, TypeOK, Handed, Received, Awaiting, NoneQueued, NoneOwed, sched, ep
  <2> QED BY <1>3, <2>2, <2>3 DEF Serene, CallKept
<1>5. CASE Replied
  <2>1. pendingMsg' = [pendingMsg EXCEPT ![c] = None] /\ UNCHANGED <<pendingFrom, client>>
    BY <1>0, <1>5 DEF Resume, Replied
  <2>2. TypeOK'
    BY <1>0, <1>2, <2>1 DEF Serene, TypeOK, sched, ep
  <2>3. InUser'
    BY <1>0, <1>2, <1>5, <2>1 DEF Serene, OnCore, TypeOK, Replied, InUser, NoneQueued, NoneOwed, sched, ep
  <2> QED BY <1>3, <2>2, <2>3 DEF Serene, CallKept
<1> QED BY <1>1, <1>4, <1>5

(***************************************************************************)
(* Every step of a calm behaviour keeps the invariant.                     *)
(***************************************************************************)
LEMMA CalmKeeps ==
  ASSUME Slot0Boot, Serene, Calm
  PROVE  Serene'
<1>1. CASE \E c, t \in Thread : SpawnProcess(c, t) \/ StartService(c, t)
  BY <1>1, SpawnKeeps, StartKeeps
<1>2. CASE \E c \in Thread \ Server : CooperativeYield(c)
  BY <1>2, YieldKeeps
<1>3. CASE \E c \in Thread : Return(c)
  BY <1>3, ReturnKeeps
<1>4. CASE \E c \in Server : Serve(c)
  <2>1. PICK c \in Server : Serve(c)
    BY <1>4
  <2>2. c \in Thread
    BY ThreadAssumption
  <2>3. CASE \E e \in Endpoint : Owner[e] = c /\ client[c] = {} /\ (RecvNow(c, e) \/ RecvParked(c, e))
    BY <2>2, <2>3, RecvNowKeeps, RecvParkedKeeps
  <2>4. CASE \E to \in Thread, m \in Msg : Reply(c, to, m)
    BY <2>2, <2>4, ReplyKeeps
  <2>5. CASE \E to \in Thread : ReplyRefused(c, to)
    BY <2>2, <2>5, NeverRefused
  <2> QED BY <2>1, <2>3, <2>4, <2>5 DEF Serve
<1>5. CASE \E c \in Client \ RawClient : CallWrapped(c)
  <2>1. CallWrapped(Root)
    BY <1>5 DEF Slot0Boot
  <2> QED BY <2>1, CallWrapperKeeps, CallServiceKeeps DEF CallWrapped
<1> QED BY <1>1, <1>2, <1>3, <1>4, <1>5 DEF Calm

LEMMA StartSerene ==
  Start => IInv
<1> SUFFICES ASSUME Init PROVE Serene
  BY DEF Start, IInv
<1>1. \A t \in Thread : t # Root => Unborn(t)
  BY DEF Init, Unborn
<1>2. TypeOK
  BY ThreadAssumption DEF Init, TypeOK, ThreadState, RunState
<1>3. OnCore /\ OthersKept
  BY <1>1, ThreadAssumption DEF Init, OnCore, OthersKept
<1>4. ParkedAtOwn
  BY OwnerAssumption, ThreadAssumption DEF Init, ParkedAtOwn
<1>5. InUser
  BY ThreadAssumption DEF Init, InUser, NoneQueued, NoneOwed
<1> QED BY <1>2, <1>3, <1>4, <1>5 DEF Serene, CallKept

LEMMA StepSerene ==
  ASSUME Slot0Boot
  PROVE  IInv /\ [Next]_<<vars, faulty>> => IInv'
<1> SUFFICES ASSUME IInv, [Next]_<<vars, faulty>> PROVE IInv'
  OBVIOUS
<1>1. CASE Next
  BY <1>1, CalmKeeps DEF IInv, Next
<1>2. CASE UNCHANGED <<vars, faulty>>
  <2> USE <1>2 DEF vars, tcb, sched, ep, user
  <2>1. TypeOK => TypeOK'
    BY DEF TypeOK
  <2>2. OnCore /\ OthersKept /\ ParkedAtOwn => OnCore' /\ OthersKept' /\ ParkedAtOwn'
    BY DEF OnCore, OthersKept, Unborn, Awake, Waits, ParkedAtOwn
  <2>3. CallKept => CallKept'
    BY DEF CallKept, InUser, Queued, Handed, Received, Replied, Awaiting, NoneQueued, NoneOwed
  <2> QED BY <2>1, <2>2, <2>3 DEF IInv, Serene
<1> QED BY <1>1, <1>2

LEMMA AlwaysSerene ==
  ASSUME Slot0Boot
  PROVE  Spec => []IInv
BY StartSerene, StepSerene, PTL DEF Spec

(***************************************************************************)
(* While nobody dies and every call goes through a wrapper, the thread the *)
(* core executes is the one running() names, so a trap is never charged to *)
(* another thread, and no other entity is left Running.                    *)
(***************************************************************************)
THEOREM TrapsAreTheRunnings ==
  ASSUME Slot0Boot
  PROVE  Spec => []CalmRunningIsOnCpu
<1>1. IInv => CalmRunningIsOnCpu
  BY DEF IInv, Serene, OnCore, CalmRunningIsOnCpu, RunningIsOnCpu
<1> QED BY <1>1, AlwaysSerene, PTL

(***************************************************************************)
(* Whenever the core is back in a thread's Call, the reply was left for    *)
(* it: neither the wrappers' hand-off, nor a receive that makes the caller *)
(* ready early, nor a service that parks returns a Call without a reply.   *)
(***************************************************************************)
THEOREM CallsReturnReplies ==
  ASSUME Slot0Boot
  PROVE  Spec => []CalmCallReturnsReply
<1>1. ASSUME IInv PROVE CalmCallReturnsReply
  <2> SUFFICES ASSUME Serene, NEW c \in Thread, cpu = c, inside[c] = "call"
               PROVE  pendingMsg[c] # None
    BY <1>1 DEF IInv, CalmCallReturnsReply, CallReturnsReply
  <2>1. Replied /\ c = Root
    BY DEF Serene, CallKept, OthersKept, Unborn, Awake, Waits, InUser, Queued, Handed, Received, Awaiting
  <2> QED BY <2>1, ThreadAssumption DEF Replied
<1> QED BY <1>1, AlwaysSerene, PTL
=============================================================================
