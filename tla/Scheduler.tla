------------------------------ MODULE Scheduler ------------------------------
(***************************************************************************)
(* kernel-sched's Scheduler and the decisions kernel-core takes with it    *)
(* (preempt.rs).  A scheduler is a value                                   *)
(*   [ent     : thread -> its SchedEntity, for the admitted threads,       *)
(*    grp     : chain group -> its ChainGroup, for the existing groups,    *)
(*    running : the running thread or None]                                *)
(* and every method is an operator on such values, so that the decisions   *)
(* compose calls in the order the code makes them.  A decision answers the *)
(* new scheduler and the thread whose context the core continues with.     *)
(* Threads are their ids, whose order breaks ties.  A run slice adds some  *)
(* positive amount to the virtual runtime: weights and the clock decide    *)
(* how much, so it is a parameter.                                         *)
(***************************************************************************)
EXTENDS Naturals, FiniteSets, Functions, TLC

CONSTANTS None

\* No thread id is None.
ASSUME IdAssumption == None \notin Nat

MaxPriority == 2     \* 39 in the code: only the order matters

SchedEntity(mode, priority) ==
  [mode |-> mode, base |-> priority, eff |-> priority,
   st |-> "Blocked", vruntime |-> 0, group |-> None]

Admitted(s) == DOMAIN s.ent

\* The table with an entry for key, in place of the one it had.
Entered(table, key, entry) ==
  [k \in DOMAIN table \union {key} |-> IF k = key THEN entry ELSE table[k]]

Admit(s, t, mode, priority) ==
  [s EXCEPT !.ent = Entered(@, t, SchedEntity(mode, priority))]

\* The chain group of the thread is left as it is.
Remove(s, t) ==
  [s EXCEPT !.ent = Restrict(@, DOMAIN @ \ {t}),
            !.running = IF @ = t THEN None ELSE @]

NoteReady(s, t) ==
  IF t \in Admitted(s) THEN [s EXCEPT !.ent[t].st = "Ready"] ELSE s

NoteBlocked(s, t) ==
  IF t \in Admitted(s)
  THEN [s EXCEPT !.ent[t].st = "Blocked", !.running = IF @ = t THEN None ELSE @]
  ELSE s
-----------------------------------------------------------------------------
\* Priority inheritance.
Higher(a, b) == IF a > b THEN a ELSE b
InheritPriority(s, t, donor) ==
  IF t \in Admitted(s) THEN [s EXCEPT !.ent[t].eff = Higher(@, donor)] ELSE s
RestorePriority(s, t) ==
  IF t \in Admitted(s) THEN [s EXCEPT !.ent[t].eff = s.ent[t].base] ELSE s

\* Chain groups.  create_group replaces a group of the same id; join_group
\* adds the member before it looks for the thread.
CreateGroup(s, g) ==
  [s EXCEPT !.grp = Entered(@, g, [members |-> {}, vruntime |-> 0])]

JoinGroup(s, t, g, capacity) ==
  IF \/ g \notin DOMAIN s.grp
     \/ t \notin s.grp[g].members /\ Cardinality(s.grp[g].members) = capacity
  THEN s
  ELSE LET added == [s EXCEPT !.grp[g].members = @ \union {t}]
       IN  IF t \in Admitted(s) THEN [added EXCEPT !.ent[t].group = g] ELSE added

\* mutant of LeaveGroup: the thread keeps its link to the group
LeaveGroupKeepsLink(s, t) ==
  IF t \notin Admitted(s) \/ s.ent[t].group \notin DOMAIN s.grp THEN s
  ELSE [s EXCEPT !.grp[s.ent[t].group].members = @ \ {t}]

LeaveGroup(s, t) ==
  IF t \notin Admitted(s) \/ s.ent[t].group = None THEN s
  ELSE LET g    == s.ent[t].group
           left == [s EXCEPT !.ent[t].group = None]
           rest == s.grp[g].members \ {t}
       IN  CASE g \notin DOMAIN s.grp -> left
             [] g \in DOMAIN s.grp /\ rest = {} ->
                  [left EXCEPT !.grp = Restrict(@, DOMAIN @ \ {g})]
             [] OTHER -> [left EXCEPT !.grp[g].members = rest]
-----------------------------------------------------------------------------
\* The running thread is charged and is ready again; nobody runs.
Account(s, slice) ==
  LET t == s.running IN
  IF t \notin Admitted(s) THEN [s EXCEPT !.running = None]
  ELSE LET g == s.ent[t].group IN
       [ent |-> [s.ent EXCEPT ![t].vruntime = @ + slice,
                              ![t].st = IF @ = "Running" THEN "Ready" ELSE @],
        grp |-> IF g \in DOMAIN s.grp THEN [s.grp EXCEPT ![g].vruntime = @ + slice] ELSE s.grp,
        running |-> None]

Class(e)     == IF e.mode = "Interactive" THEN 0 ELSE 1
Urgency(e)   == IF e.mode = "Interactive" THEN MaxPriority - e.eff ELSE 0

\* mutant of EffectiveV: virtual runtime is left out of the key
EffectiveVNone(s, e) == 0

EffectiveV(s, e) ==
  IF e.mode = "Throughput" /\ e.group \in DOMAIN s.grp THEN s.grp[e.group].vruntime
                                                      ELSE e.vruntime

\* The keys of pick_next in lexicographic order, the id last.
Precedes(s, a, b) ==
  LET x == s.ent[a]  y == s.ent[b] IN
  \/ Class(x) < Class(y)
  \/ Class(x) = Class(y) /\ \/ Urgency(x) < Urgency(y)
                            \/ /\ Urgency(x) = Urgency(y)
                               /\ \/ EffectiveV(s, x) < EffectiveV(s, y)
                                  \/ EffectiveV(s, x) = EffectiveV(s, y) /\ a < b

ReadySet(s) == {t \in Admitted(s) : s.ent[t].st = "Ready"}

PickNext(s) ==
  IF ReadySet(s) = {} THEN None
  ELSE CHOOSE t \in ReadySet(s) : \A u \in ReadySet(s) \ {t} : Precedes(s, t, u)

\* mutant of Dispatch: running is not recorded
DispatchUnrecorded(s, t) ==
  IF t \in Admitted(s) THEN [s EXCEPT !.ent[t].st = "Running"] ELSE s

Dispatch(s, t) ==
  IF t \in Admitted(s) THEN [s EXCEPT !.ent[t].st = "Running", !.running = t] ELSE s
-----------------------------------------------------------------------------
(***************************************************************************)
(* preempt.rs.  core is the thread whose code the core executes; a         *)
(* decision other than Switch leaves it.                                   *)
(***************************************************************************)
Decision(s, core) == [s |-> s, core |-> core]

PreemptTick(s, core, slice) ==
  LET o == s.running
      a == Account(s, slice)
      n == PickNext(a)
  IN  CASE o # None /\ n # None -> Decision(Dispatch(a, n), IF n = o THEN core ELSE n)
        [] o # None /\ n = None -> Decision(Dispatch(NoteReady(a, o), o), core)
        [] o = None /\ n # None -> Decision(Dispatch(a, n), core)
        [] OTHER -> Decision(a, core)

\* The yielder is hidden from one selection.
CooperativeYield(s, core, slice) ==
  LET o == s.running
      a == Account(s, slice)
      n == PickNext(IF o = None THEN a ELSE NoteBlocked(a, o))
      r == IF o = None THEN a ELSE NoteReady(a, o)
  IN  CASE o # None /\ n # None -> Decision(Dispatch(r, n), n)
        [] o # None /\ n = None -> Decision(Dispatch(r, o), core)
        [] o = None /\ n # None -> Decision(Dispatch(r, n), core)
        [] OTHER -> Decision(r, core)

\* A block that would leave nobody to run is undone.
BlockThread(s, core, t, slice) ==
  LET b == NoteBlocked(Account(s, slice), t)
      n == PickNext(b)
  IN  IF n # None THEN Decision(Dispatch(b, n), n)
                  ELSE Decision(Dispatch(NoteReady(b, t), t), core)

\* Both account for the dying thread only when it is the running one.
Retired(s, t, slice) == Remove(IF s.running = t THEN Account(s, slice) ELSE s, t)

\* With nobody ready the trap handler halts: the core is None.
TerminateThread(s, t, slice) ==
  LET r == Retired(s, t, slice)
      n == PickNext(r)
  IN  IF n # None THEN Decision(Dispatch(r, n), n) ELSE Decision(r, None)

TerminateAndHandoff(s, t, to, slice) == Decision(Dispatch(Retired(s, t, slice), to), to)

YieldToThread(s, from, to, slice) ==
  Decision(Dispatch(NoteBlocked(Account(s, slice), from), to), to)

\* init_user_thread: admit (again) at the highest priority and make ready.
InitUserThread(s, t) == NoteReady(Admit(s, t, "Interactive", MaxPriority), t)
=============================================================================
