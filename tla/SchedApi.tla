------------------------------- MODULE SchedApi -------------------------------
(***************************************************************************)
(* Any sequence of the scheduler's operations, the way the trap handlers   *)
(* call them: the thread on the core yields, blocks, dies or is preempted, *)
(* others are woken, priorities are inherited and restored, chain groups   *)
(* come and go.  Virtual runtimes are kept relative to the smallest one of *)
(* their kind; leads above MaxLead are not told apart.                     *)
(***************************************************************************)
EXTENDS Scheduler

CONSTANTS
  Interactive, Throughput,   \* the threads of each mode
  Group,                     \* chain group ids
  ChainMembers,              \* MAX_CHAIN_MEMBERS
  MaxSlice,                  \* bound: what one run slice may add
  MaxLead

VARIABLES
  sched, core,
  beat     \* flips with every tick
api == <<sched, core, beat>>

Schedulable == Interactive \union Throughput

\* Threads are numbered; the Root Task is one of the interactive ones.
ASSUME SchedAssumption ==
  /\ Schedulable \subseteq Nat /\ Interactive # {} /\ None \notin Schedulable \union Group
  /\ MaxSlice \in Nat /\ MaxLead \in Nat

Slice  == 1 .. MaxSlice

Least(S) == CHOOSE x \in S : \A y \in S : x <= y
Capped(x) == IF x > MaxLead THEN MaxLead ELSE x

\* The same scheduler with the virtual runtimes that pick_next compares moved
\* down together: those of the interactive threads, and those of the others
\* and of the groups.
Rebased(s) ==
  LET mine   == {t \in Admitted(s) : s.ent[t].mode = "Interactive"}
      fast   == {s.ent[t].vruntime : t \in mine} \union {MaxLead * MaxLead}
      slow   == {s.ent[t].vruntime : t \in Admitted(s) \ mine} \union
                {s.grp[g].vruntime : g \in DOMAIN s.grp} \union {MaxLead * MaxLead}
      low(t) == IF t \in mine THEN Least(fast) ELSE Least(slow)
  IN  [ent |-> [t \in Admitted(s) |-> [s.ent[t] EXCEPT !.vruntime = Capped(@ - low(t))]],
       grp |-> [g \in DOMAIN s.grp |-> [s.grp[g] EXCEPT !.vruntime = Capped(@ - Least(slow))]],
       running |-> s.running]

\* A core with nobody to run has halted.
Put(s)    == core # None /\ \E r \in {s} : sched' = Rebased(r) /\ UNCHANGED <<core, beat>>
Decide(d) == core # None /\ \E r \in {d} : sched' = Rebased(r.s) /\ core' = r.core

ApiInit ==
  LET first == Least(Interactive) IN
  /\ sched = [ent |-> [t \in Schedulable |->
                        [SchedEntity(IF t \in Interactive THEN "Interactive" ELSE "Throughput",
                                     MaxPriority - 1)
                         EXCEPT !.st = IF t = first THEN "Running" ELSE "Ready"]],
              grp |-> <<>>, running |-> first]
  /\ core = first /\ beat = FALSE

ApiTick   == beat' = ~beat /\ \E x \in Slice : Decide(PreemptTick(sched, core, x))
Yield     == UNCHANGED beat /\ \E x \in Slice : Decide(CooperativeYield(sched, core, x))
Block     == UNCHANGED beat /\ \E x \in Slice : Decide(BlockThread(sched, core, core, x))
HandOver  == UNCHANGED beat /\ \E x \in Slice, t \in ReadySet(sched) :
               Decide(YieldToThread(sched, core, t, x))
Wake      == \E t \in Admitted(sched) :
               sched.ent[t].st = "Blocked" /\ Put(NoteReady(sched, t))
ApiTerminate == UNCHANGED beat /\ \E x \in Slice : Decide(TerminateThread(sched, core, x))
Inherit   == \E t \in Admitted(sched) : Put(InheritPriority(sched, t, MaxPriority))
Restore   == \E t \in Admitted(sched) : Put(RestorePriority(sched, t))
NewGroup  == \E g \in Group \ DOMAIN sched.grp : Put(CreateGroup(sched, g))
Join      == \E t \in Throughput, g \in Group :
               /\ t \in Admitted(sched) => sched.ent[t].group = None
               /\ Put(JoinGroup(sched, t, g, ChainMembers))
Leave     == \E t \in Throughput : Put(LeaveGroup(sched, t))

ApiNext ==
  \/ ApiTick \/ Yield \/ Block \/ HandOver \/ Wake \/ ApiTerminate
  \/ Inherit \/ Restore \/ NewGroup \/ Join \/ Leave

\* The timer interrupt keeps coming.
TickComes == core # None /\ beat' = ~beat
ApiSpec == ApiInit /\ [][ApiNext]_api /\ WF_beat(TickComes)
-----------------------------------------------------------------------------
(***************************************************************************)
(* Exactly the thread running() names is in state Running, and it is the   *)
(* one whose code the core executes: account, pick and dispatch are        *)
(* separate calls, and every decision has to make all of them.             *)
(***************************************************************************)
OneRunning ==
  /\ {t \in Admitted(sched) : sched.ent[t].st = "Running"} = {sched.running} \ {None}
  /\ core = sched.running

(***************************************************************************)
(* A thread's chain group exists and has it as a member, and no other      *)
(* group has (leave_group recycles an empty group), when ids are given to  *)
(* new groups only and a thread leaves a group before it joins another:    *)
(* nothing in the table checks either.                                     *)
(***************************************************************************)
InGroup(grp, t, g) == g \in DOMAIN grp /\ t \in grp[g].members
MembershipMirrored ==
  \A t \in Admitted(sched), g \in Group :
    sched.ent[t].group = g <=> InGroup(sched.grp, t, g)

\* Both: what every later decision of the scheduler relies on.
SchedulerAgrees == OneRunning /\ MembershipMirrored

(***************************************************************************)
(* An interactive thread that is ready at the highest priority is run in   *)
(* the end, stops being so, or the core halts: virtual runtimes turn equal *)
(* priorities into taking turns.  (Nothing like it holds for a lower       *)
(* priority: pick_next has no term for how long a thread has waited.)      *)
(***************************************************************************)
Urgent(t) ==
  core # None /\ t \in ReadySet(sched) /\ sched.ent[t].eff = MaxPriority
InteractiveServed == \A t \in Interactive : Urgent(t) ~> ~Urgent(t)
=============================================================================
