----------------------------- MODULE SchedProofs -----------------------------
(***************************************************************************)
(* The scheduler for any threads, groups and slices: each of its methods   *)
(* keeps a scheduler sane, and the decisions composed of them leave the    *)
(* running thread and the core in agreement; through the whole preemptive  *)
(* phase with the Device Manager and its driver too (Supervision).         *)
(***************************************************************************)
EXTENDS SchedApi, Supervision, WellFoundedInduction, TLAPS

\* Every non-empty set of naturals has a least member.
LEMMA LeastOf ==
  ASSUME NEW S \in SUBSET Nat, S # {}
  PROVE  \E x \in S : \A y \in S : x <= y
<1> DEFINE R == {p \in Nat \X Nat : p[1] < p[2]}
<1>1. IsWellFoundedOn(R, Nat)
  BY NatLessThanWellFounded DEF OpToRel
<1>2. PICK x \in S : \A y \in S : ~ (<<y, x>> \in R)
  BY <1>1, WFMin
<1>3. \A y \in S : x \in Nat /\ y \in Nat /\ ~ (y < x)
  BY <1>2
<1> QED BY <1>3

LEMMA LeastIsLeast ==
  ASSUME NEW S \in SUBSET Nat, S # {}
  PROVE  Least(S) \in S /\ \A y \in S : Least(S) <= y
  BY LeastOf DEF Least
-----------------------------------------------------------------------------
(* Schedulers *)

RunState   == {"Ready", "Running", "Blocked"}
Entity     == [mode : {"Interactive", "Throughput"}, base : 0 .. MaxPriority, eff : 0 .. MaxPriority,
               st : RunState, vruntime : Nat, group : Group \union {None}]
ChainGroup == [members : SUBSET Nat, vruntime : Nat]

\* s has entities E, groups G and runs R: what is admitted has its types,
\* Running is the state of the thread running() names and of no other, and
\* threads and groups name each other.
Made(s, E, G, R) ==
  /\ s = [ent |-> E, grp |-> G, running |-> R]
  /\ DOMAIN E \subseteq Nat /\ E \in [DOMAIN E -> Entity]
  /\ DOMAIN G \subseteq Group /\ G \in [DOMAIN G -> ChainGroup]
  /\ R \in Nat \union {None} /\ (R # None => R \in DOMAIN E)
  /\ \A t \in DOMAIN E : E[t].st = "Running" <=> t = R
  /\ \A t \in DOMAIN E, g \in Group : E[t].group = g <=> InGroup(G, t, g)

Sane(s) == Made(s, s.ent, s.grp, s.running)

LEMMA MadeIsSane ==
  ASSUME NEW s, NEW E, NEW G, NEW R, Made(s, E, G, R)
  PROVE  Sane(s) /\ s.ent = E /\ s.grp = G /\ s.running = R
<1>1. s.ent = E /\ s.grp = G /\ s.running = R
  BY DEF Made
<1> QED BY <1>1 DEF Sane

\* A change of one thread's entity that keeps its group, as note_ready,
\* note_blocked, dispatch and the priority methods make it.
LEMMA EntityChanged ==
  ASSUME NEW s, NEW E, NEW G, NEW R, Made(s, E, G, R), NEW t \in DOMAIN E,
         NEW e \in Entity, e.group = E[t].group,
         NEW Q \in Nat \union {None}, Q # None => Q \in DOMAIN E,
         e.st = "Running" <=> t = Q,
         \A u \in DOMAIN E \ {t} : E[u].st = "Running" <=> u = Q,
         NEW r, r = [ent |-> [E EXCEPT ![t] = e], grp |-> G, running |-> Q]
  PROVE  Made(r, [E EXCEPT ![t] = e], G, Q)
<1> DEFINE F == [E EXCEPT ![t] = e]
<1>1. E \in [DOMAIN E -> Entity]
  BY DEF Made
<1>2. DOMAIN F = DOMAIN E /\ F \in [DOMAIN F -> Entity] /\ F[t] = e /\ \A u \in DOMAIN E \ {t} : F[u] = E[u]
  BY <1>1
<1> HIDE DEF F
<1>3. \A u \in DOMAIN F : F[u].st = "Running" <=> u = Q
  BY <1>2
<1>4. \A u \in DOMAIN F : F[u].group = E[u].group
  BY <1>2
<1>5. Made(r, F, G, Q)
  BY <1>2, <1>3, <1>4 DEF Made, F
<1> QED BY <1>5 DEF F

LEMMA NoteReadySane ==
  ASSUME NEW s, Sane(s), NEW t \in Nat, t # s.running
  PROVE  /\ Sane(NoteReady(s, t)) /\ NoteReady(s, t).running = s.running
         /\ Admitted(NoteReady(s, t)) = Admitted(s)
         /\ t \in Admitted(s) => NoteReady(s, t).ent[t].st = "Ready"
<1>1. PICK E, G, R : E = s.ent /\ G = s.grp /\ R = s.running /\ Made(s, E, G, R)
  BY DEF Sane
<1>2. CASE t \notin DOMAIN E
  BY <1>1, <1>2 DEF NoteReady, Admitted
<1>3. CASE t \in DOMAIN E
  <2>1. PICK e : e = [E[t] EXCEPT !.st = "Ready"]
    OBVIOUS
  <2>2. e \in Entity /\ e.group = E[t].group /\ e.st = "Ready"
    BY <1>1, <1>3, <2>1 DEF Made, Entity, RunState
  <2>3. PICK r : r = [ent |-> [E EXCEPT ![t] = e], grp |-> G, running |-> R]
    OBVIOUS
  <2>4. NoteReady(s, t) = r
    BY <1>1, <1>3, <2>1, <2>3 DEF NoteReady, Admitted, Made
  <2>5. /\ R \in Nat \union {None} /\ (R # None => R \in DOMAIN E)
        /\ \A u \in DOMAIN E \ {t} : E[u].st = "Running" <=> u = R
        /\ t # R
    BY <1>1 DEF Made
  <2>6. Made(r, [E EXCEPT ![t] = e], G, R)
    BY <1>1, <1>3, <2>2, <2>3, <2>5, EntityChanged
  <2>7. DOMAIN [E EXCEPT ![t] = e] = DOMAIN E /\ [E EXCEPT ![t] = e][t] = e
    BY <1>3
  <2> QED BY <1>1, <2>2, <2>4, <2>6, <2>7, MadeIsSane DEF Admitted
<1> QED BY <1>2, <1>3

\* What an update of the entities and of running makes of a scheduler.
LEMMA TwoFields ==
  ASSUME NEW E, NEW G, NEW R, NEW F, NEW Q, NEW s, s = [ent |-> E, grp |-> G, running |-> R]
  PROVE  [s EXCEPT !.ent = F, !.running = Q] = [ent |-> F, grp |-> G, running |-> Q]
<1>1. PICK a : a = [s EXCEPT !.ent = F]
  OBVIOUS
<1>2. a = [ent |-> F, grp |-> G, running |-> R]
  BY <1>1
<1>3. [a EXCEPT !.running = Q] = [ent |-> F, grp |-> G, running |-> Q]
  BY <1>2
<1>4. [s EXCEPT !.ent = F, !.running = Q] = [a EXCEPT !.running = Q]
  BY <1>1
<1> QED BY <1>3, <1>4

LEMMA NoteBlockedSane ==
  ASSUME NEW s, Sane(s), NEW t \in Nat
  PROVE  /\ Sane(NoteBlocked(s, t)) /\ Admitted(NoteBlocked(s, t)) = Admitted(s)
         /\ NoteBlocked(s, t).running = IF s.running = t THEN None ELSE s.running
<1>1. PICK E, G, R : E = s.ent /\ G = s.grp /\ R = s.running /\ Made(s, E, G, R)
  BY DEF Sane
<1>2. CASE t \notin DOMAIN E
  BY <1>1, <1>2 DEF NoteBlocked, Admitted, Made
<1>3. CASE t \in DOMAIN E
  <2>1. PICK e : e = [E[t] EXCEPT !.st = "Blocked"]
    OBVIOUS
  <2>2. e \in Entity /\ e.group = E[t].group /\ e.st = "Blocked"
    BY <1>1, <1>3, <2>1 DEF Made, Entity, RunState
  <2>3. PICK Q : Q = IF R = t THEN None ELSE R
    OBVIOUS
  <2>4. PICK r : r = [ent |-> [E EXCEPT ![t] = e], grp |-> G, running |-> Q]
    OBVIOUS
  <2>5. NoteBlocked(s, t) = r
    <3>1. s = [ent |-> E, grp |-> G, running |-> R]
      BY <1>1 DEF Made
    <3>2. [E EXCEPT ![t].st = "Blocked"] = [E EXCEPT ![t] = e]
      BY <2>1
    <3>3. NoteBlocked(s, t) = [s EXCEPT !.ent[t].st = "Blocked", !.running = Q]
      BY <1>1, <1>3, <2>3 DEF NoteBlocked, Admitted
    <3>4. [s EXCEPT !.ent[t].st = "Blocked", !.running = Q] = [s EXCEPT !.ent = [E EXCEPT ![t].st = "Blocked"], !.running = Q]
      BY <3>1
    <3> QED BY <2>4, <3>1, <3>2, <3>3, <3>4, TwoFields
  <2>6. /\ Q \in Nat \union {None} /\ (Q # None => Q \in DOMAIN E)
        /\ \A u \in DOMAIN E \ {t} : E[u].st = "Running" <=> u = Q
        /\ t # Q
    BY <1>1, <2>3, SchedAssumption, IdAssumption DEF Made
  <2>7. Made(r, [E EXCEPT ![t] = e], G, Q)
    BY <1>1, <1>3, <2>2, <2>4, <2>6, EntityChanged
  <2>8. DOMAIN [E EXCEPT ![t] = e] = DOMAIN E
    OBVIOUS
  <2> QED BY <1>1, <2>3, <2>5, <2>7, <2>8, MadeIsSane DEF Admitted
<1> QED BY <1>2, <1>3

\* dispatch, while nobody runs.
LEMMA DispatchSane ==
  ASSUME NEW s, Sane(s), s.running = None, NEW t \in Admitted(s)
  PROVE  Sane(Dispatch(s, t)) /\ Dispatch(s, t).running = t /\ Admitted(Dispatch(s, t)) = Admitted(s)
<1>1. PICK E, G, R : E = s.ent /\ G = s.grp /\ R = s.running /\ Made(s, E, G, R)
  BY DEF Sane
<1>2. t \in DOMAIN E /\ t \in Nat /\ R = None
  BY <1>1 DEF Admitted, Made
<1>3. PICK e : e = [E[t] EXCEPT !.st = "Running"]
  OBVIOUS
<1>4. e \in Entity /\ e.group = E[t].group /\ e.st = "Running"
  BY <1>1, <1>2, <1>3 DEF Made, Entity, RunState
<1>5. PICK r : r = [ent |-> [E EXCEPT ![t] = e], grp |-> G, running |-> t]
  OBVIOUS
<1>6. Dispatch(s, t) = r
  <2>1. s = [ent |-> E, grp |-> G, running |-> R]
    BY <1>1 DEF Made
  <2>2. [E EXCEPT ![t].st = "Running"] = [E EXCEPT ![t] = e]
    BY <1>3
  <2>3. Dispatch(s, t) = [s EXCEPT !.ent[t].st = "Running", !.running = t]
    BY <1>1, <1>2 DEF Dispatch, Admitted
  <2>4. [s EXCEPT !.ent[t].st = "Running", !.running = t] = [s EXCEPT !.ent = [E EXCEPT ![t].st = "Running"], !.running = t]
    BY <2>1
  <2> QED BY <1>5, <2>1, <2>2, <2>3, <2>4, TwoFields
<1>7. \A u \in DOMAIN E \ {t} : E[u].st = "Running" <=> u = t
  BY <1>1, <1>2, SchedAssumption, IdAssumption DEF Made
<1>8. Made(r, [E EXCEPT ![t] = e], G, t)
  BY <1>1, <1>2, <1>4, <1>5, <1>7, EntityChanged
<1>9. DOMAIN [E EXCEPT ![t] = e] = DOMAIN E
  OBVIOUS
<1> QED BY <1>1, <1>6, <1>8, <1>9, MadeIsSane DEF Admitted

\* account charges the running thread and its group, and nobody runs.
LEMMA AccountSane ==
  ASSUME NEW s, Sane(s), NEW x \in Nat
  PROVE  /\ Sane(Account(s, x)) /\ Account(s, x).running = None /\ Admitted(Account(s, x)) = Admitted(s)
         /\ s.running # None => Account(s, x).ent[s.running].st = "Ready"
<1>1. PICK E, G, R : E = s.ent /\ G = s.grp /\ R = s.running /\ Made(s, E, G, R)
  BY DEF Sane
<1>2. CASE R = None
  <2>1. s = [ent |-> E, grp |-> G, running |-> None] /\ R \notin DOMAIN E
    BY <1>1, <1>2, SchedAssumption, IdAssumption DEF Made
  <2>2. Account(s, x) = s
    BY <1>1, <2>1 DEF Account, Admitted
  <2> QED BY <1>1, <1>2, <2>2
<1>3. CASE R # None
  <2>1. R \in DOMAIN E /\ R \in Nat /\ E[R] \in Entity /\ E[R].st = "Running"
    BY <1>1, <1>3 DEF Made
  <2>2. PICK e : e = [E[R] EXCEPT !.vruntime = @ + x, !.st = "Ready"]
    OBVIOUS
  <2>3. e \in Entity /\ e.group = E[R].group /\ e.st = "Ready"
    <3>1. E[R].vruntime + x \in Nat
      BY <2>1 DEF Entity
    <3>2. PICK v \in Nat : v = E[R].vruntime + x
      BY <3>1
    <3>3. e = [E[R] EXCEPT !.vruntime = v, !.st = "Ready"]
      BY <2>2, <3>2
    <3> QED BY <2>1, <3>3 DEF Entity, RunState
  <2>4. PICK g : g = E[R].group
    OBVIOUS
  <2>5. PICK H : H = IF g \in DOMAIN G THEN [G EXCEPT ![g].vruntime = @ + x] ELSE G
    OBVIOUS
  <2>6. PICK r : r = [ent |-> [E EXCEPT ![R] = e], grp |-> H, running |-> None]
    OBVIOUS
  <2>7. Account(s, x) = r
    <3>1. [E EXCEPT ![R].vruntime = @ + x, ![R].st = IF @ = "Running" THEN "Ready" ELSE @] = [E EXCEPT ![R] = e]
      BY <2>1, <2>2 DEF Entity
    <3> QED BY <1>1, <2>1, <2>4, <2>5, <2>6, <3>1 DEF Account, Admitted
  <2>8. PICK q : q = [ent |-> [E EXCEPT ![R] = e], grp |-> G, running |-> None]
    OBVIOUS
  <2>9. \A u \in DOMAIN E \ {R} : E[u].st = "Running" <=> u = None
    BY <1>1, SchedAssumption, IdAssumption DEF Made
  <2>10. Made(q, [E EXCEPT ![R] = e], G, None)
    BY <1>1, <1>3, <2>1, <2>3, <2>8, <2>9, EntityChanged
  <2>11. /\ DOMAIN H = DOMAIN G /\ H \in [DOMAIN H -> ChainGroup]
         /\ \A h \in DOMAIN G : H[h].members = G[h].members
    BY <1>1, <2>5 DEF Made, ChainGroup
  <2>12. PICK F : F = [E EXCEPT ![R] = e]
    OBVIOUS
  <2>13. Made(r, F, H, None)
    <3>1. \A u, h : InGroup(H, u, h) <=> InGroup(G, u, h)
      BY <2>11 DEF InGroup
    <3> QED BY <2>6, <2>10, <2>11, <2>12, <3>1 DEF Made
  <2>14. DOMAIN F = DOMAIN E /\ F[R] = e
    BY <2>1, <2>12
  <2> QED BY <1>1, <2>3, <2>7, <2>13, <2>14, MadeIsSane DEF Admitted
<1> QED BY <1>2, <1>3

LEMMA RemoveSane ==
  ASSUME NEW s, Sane(s), NEW t \in Nat
  PROVE  /\ Sane(Remove(s, t)) /\ Admitted(Remove(s, t)) = Admitted(s) \ {t}
         /\ Remove(s, t).running = IF s.running = t THEN None ELSE s.running
<1>1. PICK E, G, R : E = s.ent /\ G = s.grp /\ R = s.running /\ Made(s, E, G, R)
  BY DEF Sane
<1>2. PICK F : F = [u \in DOMAIN E \ {t} |-> E[u]]
  OBVIOUS
<1>3. PICK Q : Q = IF R = t THEN None ELSE R
  OBVIOUS
<1>4. Remove(s, t) = [ent |-> F, grp |-> G, running |-> Q]
  <2>1. s = [ent |-> E, grp |-> G, running |-> R]
    BY <1>1 DEF Made
  <2>2. Restrict(E, DOMAIN E \ {t}) = F
    BY <1>2 DEF Restrict
  <2>3. PICK I : I = Restrict(E, DOMAIN E \ {t})
    OBVIOUS
  <2>4. Remove(s, t) = [s EXCEPT !.ent = I, !.running = Q]
    BY <1>1, <1>3, <2>3 DEF Remove
  <2> QED BY <2>1, <2>2, <2>3, <2>4, TwoFields
<1>5. DOMAIN F = DOMAIN E \ {t} /\ F \in [DOMAIN F -> Entity] /\ \A u \in DOMAIN F : F[u] = E[u]
  BY <1>1, <1>2 DEF Made
<1>6. PICK r : r = [ent |-> F, grp |-> G, running |-> Q]
  OBVIOUS
<1>7. Made(r, F, G, Q)
  BY <1>1, <1>3, <1>5, <1>6, SchedAssumption, IdAssumption DEF Made
<1> QED BY <1>1, <1>3, <1>4, <1>5, <1>6, <1>7, MadeIsSane DEF Admitted

\* Moving the virtual runtimes down together.
LEMMA RebasedSane ==
  ASSUME NEW s, Sane(s)
  PROVE  Sane(Rebased(s)) /\ Rebased(s).running = s.running
<1>1. PICK E, G, R : E = s.ent /\ G = s.grp /\ R = s.running /\ Made(s, E, G, R)
  BY DEF Sane
<1>2. PICK top : top = MaxLead * MaxLead
  OBVIOUS
<1>3. top \in Nat
  BY <1>2, SchedAssumption, IdAssumption
<1>4. PICK mine : mine = {t \in DOMAIN E : E[t].mode = "Interactive"}
  OBVIOUS
<1>5. PICK fast : fast = {E[t].vruntime : t \in mine} \union {top}
  OBVIOUS
<1>6. PICK slow : slow = {E[t].vruntime : t \in DOMAIN E \ mine} \union {G[g].vruntime : g \in DOMAIN G} \union {top}
  OBVIOUS
<1>7. fast \in SUBSET Nat /\ fast # {} /\ slow \in SUBSET Nat /\ slow # {}
  BY <1>1, <1>3, <1>4, <1>5, <1>6 DEF Made, Entity, ChainGroup
<1>8. PICK f \in Nat : f = Least(fast)
  BY <1>7, LeastIsLeast
<1>9. PICK w \in Nat : w = Least(slow)
  BY <1>7, LeastIsLeast
<1>10. /\ \A t \in mine : f <= E[t].vruntime
       /\ \A t \in DOMAIN E \ mine : w <= E[t].vruntime
       /\ \A g \in DOMAIN G : w <= G[g].vruntime
  <2>1. \A y \in fast : f <= y
    BY <1>7, <1>8, LeastIsLeast
  <2>2. \A y \in slow : w <= y
    BY <1>7, <1>9, LeastIsLeast
  <2>3. \A t \in mine : E[t].vruntime \in fast
    BY <1>5
  <2>4. \A t \in DOMAIN E \ mine : E[t].vruntime \in slow
    BY <1>6
  <2>5. \A g \in DOMAIN G : G[g].vruntime \in slow
    BY <1>6
  <2> QED BY <2>1, <2>2, <2>3, <2>4, <2>5
<1>11. \A a, b \in Nat : b <= a => Capped(a - b) \in Nat
  BY SchedAssumption, IdAssumption DEF Capped
<1> DEFINE low(t) == IF t \in mine THEN f ELSE w
<1>12. PICK F : F = [t \in DOMAIN E |-> [E[t] EXCEPT !.vruntime = Capped(@ - low(t))]]
  OBVIOUS
<1>13. PICK H : H = [g \in DOMAIN G |-> [G[g] EXCEPT !.vruntime = Capped(@ - w)]]
  OBVIOUS
<1>14. Rebased(s) = [ent |-> F, grp |-> H, running |-> R]
  BY <1>1, <1>2, <1>4, <1>5, <1>6, <1>8, <1>9, <1>12, <1>13 DEF Rebased, Admitted
<1>15. \A t \in DOMAIN E : Capped(E[t].vruntime - low(t)) \in Nat
  BY <1>1, <1>4, <1>10, <1>11 DEF Made, Entity
<1>16. \A g \in DOMAIN G : Capped(G[g].vruntime - w) \in Nat
  BY <1>1, <1>10, <1>11 DEF Made, ChainGroup
<1> HIDE DEF low
<1>17. /\ DOMAIN F = DOMAIN E /\ F \in [DOMAIN F -> Entity]
       /\ \A t \in DOMAIN E : F[t].st = E[t].st /\ F[t].group = E[t].group
  BY <1>1, <1>12, <1>15 DEF Made, Entity
<1>18. /\ DOMAIN H = DOMAIN G /\ H \in [DOMAIN H -> ChainGroup]
       /\ \A g \in DOMAIN G : H[g].members = G[g].members
  BY <1>1, <1>13, <1>16 DEF Made, ChainGroup
<1>19. PICK r : r = [ent |-> F, grp |-> H, running |-> R]
  OBVIOUS
<1>20. Made(r, F, H, R)
  <2>1. \A u, h : InGroup(H, u, h) <=> InGroup(G, u, h)
    BY <1>18 DEF InGroup
  <2> QED BY <1>1, <1>17, <1>18, <1>19, <2>1 DEF Made
<1> QED BY <1>1, <1>14, <1>19, <1>20, MadeIsSane
-----------------------------------------------------------------------------
(* pick_next *)

LEMMA LeastBy ==
  ASSUME NEW S, S # {}, NEW f \in [S -> Nat]
  PROVE  \E x \in S : \A y \in S : f[x] <= f[y]
<1>1. PICK I : I = {f[x] : x \in S}
  OBVIOUS
<1>2. I \in SUBSET Nat /\ I # {}
  BY <1>1
<1>3. PICK m \in I : \A y \in I : m <= y
  BY <1>2, LeastOf
<1>4. PICK x \in S : m = f[x]
  BY <1>1, <1>3
<1>5. \A y \in S : f[y] \in I
  BY <1>1
<1> QED BY <1>3, <1>4, <1>5

\* pick_next answers None only when no thread is ready, and a ready thread
\* otherwise: its keys order the ready threads, the last one being unique.
LEMMA PickNextReady ==
  ASSUME NEW s, Sane(s)
  PROVE  IF ReadySet(s) = {} THEN PickNext(s) = None ELSE PickNext(s) \in ReadySet(s)
<1>1. PICK E, G, R : E = s.ent /\ G = s.grp /\ R = s.running /\ Made(s, E, G, R)
  BY DEF Sane
<1>2. PICK S : S = ReadySet(s)
  OBVIOUS
<1>3. S \subseteq DOMAIN E /\ S \subseteq Nat /\ \A t \in S : E[t] \in Entity
  BY <1>1, <1>2, SchedAssumption, IdAssumption DEF ReadySet, Admitted, Made
<1>4. CASE S # {}
  <2>1. PICK f : f = [t \in S |-> Class(E[t])]
    OBVIOUS
  <2>2. PICK g : g = [t \in S |-> Urgency(E[t])]
    OBVIOUS
  <2>3. PICK h : h = [t \in S |-> EffectiveV(s, E[t])]
    OBVIOUS
  <2>4. f \in [S -> Nat] /\ g \in [S -> Nat]
    BY <1>3, <2>1, <2>2 DEF Class, Urgency, Entity, MaxPriority
  <2>5. h \in [S -> Nat]
    <3>1. \A k \in DOMAIN G : G[k].vruntime \in Nat
      BY <1>1 DEF Made, ChainGroup
    <3>2. \A t \in S : E[t].vruntime \in Nat
      BY <1>3 DEF Entity
    <3>3. \A t \in S : EffectiveV(s, E[t]) \in Nat
      BY <1>1, <3>1, <3>2 DEF EffectiveV
    <3> QED BY <2>3, <3>3
  <2>6. PICK F : F = {x \in S : \A y \in S : f[x] <= f[y]}
    OBVIOUS
  <2>7. F # {} /\ F \subseteq S
    BY <1>4, <2>4, <2>6, LeastBy
  <2>8. PICK H : H = {x \in F : \A y \in F : g[x] <= g[y]}
    OBVIOUS
  <2>9. H # {} /\ H \subseteq F
    <3>1. PICK k : k = [x \in F |-> g[x]]
      OBVIOUS
    <3>2. k \in [F -> Nat] /\ \A x \in F : k[x] = g[x]
      BY <2>4, <2>7, <3>1
    <3>3. PICK x \in F : \A y \in F : k[x] <= k[y]
      BY <2>7, <3>2, LeastBy
    <3> QED BY <2>8, <3>2, <3>3
  <2>10. PICK K : K = {x \in H : \A y \in H : h[x] <= h[y]}
    OBVIOUS
  <2>11. K # {} /\ K \subseteq H
    <3>1. PICK k : k = [x \in H |-> h[x]]
      OBVIOUS
    <3>2. k \in [H -> Nat] /\ \A x \in H : k[x] = h[x]
      BY <2>5, <2>7, <2>9, <3>1
    <3>3. PICK x \in H : \A y \in H : k[x] <= k[y]
      BY <2>9, <3>2, LeastBy
    <3> QED BY <2>10, <3>2, <3>3
  <2>12. PICK t \in K : \A y \in K : t <= y
    <3>1. K \in SUBSET Nat
      BY <1>3, <2>7, <2>9, <2>11
    <3> QED BY <2>11, <3>1, LeastOf
  <2>13. ASSUME NEW u \in S \ {t}
         PROVE  \/ f[t] < f[u]
                \/ f[t] = f[u] /\ \/ g[t] < g[u]
                                  \/ g[t] = g[u] /\ (h[t] < h[u] \/ (h[t] = h[u] /\ t < u))
    <3>1. t \in S /\ t \in F /\ t \in H /\ t \in Nat /\ u \in Nat
      BY <1>3, <2>7, <2>9, <2>11, <2>12
    <3>2. f[t] \in Nat /\ f[u] \in Nat /\ g[t] \in Nat /\ g[u] \in Nat /\ h[t] \in Nat /\ h[u] \in Nat
      BY <2>4, <2>5, <3>1
    <3>3. f[t] <= f[u]
      BY <2>6, <3>1
    <3>4. f[t] = f[u] => u \in F
      BY <2>6, <3>1
    <3>5. u \in F => g[t] <= g[u]
      BY <2>8, <3>1
    <3>6. u \in F /\ g[t] = g[u] => u \in H
      BY <2>8, <3>1
    <3>7. u \in H => h[t] <= h[u]
      BY <2>10, <2>12
    <3>8. u \in H /\ h[t] = h[u] => u \in K
      BY <2>10, <2>12
    <3>9. u \in K => t < u
      BY <2>12, <3>1
    <3> QED BY <3>2, <3>3, <3>4, <3>5, <3>6, <3>7, <3>8, <3>9
  <2>14. t \in S /\ \A u \in S \ {t} : Precedes(s, t, u)
    <3>1. t \in S
      BY <2>7, <2>9, <2>11, <2>12
    <3>2. \A u \in S : f[u] = Class(s.ent[u]) /\ g[u] = Urgency(s.ent[u]) /\ h[u] = EffectiveV(s, s.ent[u])
      BY <1>1, <2>1, <2>2, <2>3
    <3> QED BY <2>13, <3>1, <3>2 DEF Precedes
  <2> QED BY <1>2, <1>4, <2>14 DEF PickNext
<1> QED BY <1>2, <1>4 DEF PickNext
-----------------------------------------------------------------------------
(* Priorities and chain groups *)

LEMMA PrioritySane ==
  ASSUME NEW s, Sane(s), NEW t \in Admitted(s), NEW p \in 0 .. MaxPriority
  PROVE  LET r == [s EXCEPT !.ent[t].eff = p] IN Sane(r) /\ r.running = s.running
<1>1. PICK E, G, R : E = s.ent /\ G = s.grp /\ R = s.running /\ Made(s, E, G, R)
  BY DEF Sane
<1>2. t \in DOMAIN E /\ E[t] \in Entity
  BY <1>1 DEF Admitted, Made
<1>3. PICK e : e = [E[t] EXCEPT !.eff = p]
  OBVIOUS
<1>4. e \in Entity /\ e.group = E[t].group /\ e.st = E[t].st
  BY <1>2, <1>3 DEF Entity
<1>5. PICK r : r = [ent |-> [E EXCEPT ![t] = e], grp |-> G, running |-> R]
  OBVIOUS
<1>6. [s EXCEPT !.ent[t].eff = p] = r
  BY <1>1, <1>2, <1>3, <1>5 DEF Made
<1>7. /\ R \in Nat \union {None} /\ (R # None => R \in DOMAIN E)
      /\ \A u \in DOMAIN E \ {t} : E[u].st = "Running" <=> u = R
      /\ e.st = "Running" <=> t = R
  BY <1>1, <1>2, <1>4 DEF Made
<1>8. Made(r, [E EXCEPT ![t] = e], G, R)
  BY <1>1, <1>2, <1>4, <1>5, <1>7, EntityChanged
<1> QED BY <1>1, <1>6, <1>8, MadeIsSane

LEMMA InheritSane ==
  ASSUME NEW s, Sane(s), NEW t \in Admitted(s)
  PROVE  Sane(InheritPriority(s, t, MaxPriority)) /\ InheritPriority(s, t, MaxPriority).running = s.running
<1>1. s.ent[t] \in Entity
  BY DEF Sane, Made, Admitted
<1>2. PICK p : p = Higher(s.ent[t].eff, MaxPriority)
  OBVIOUS
<1>3. p \in 0 .. MaxPriority
  BY <1>1, <1>2 DEF Higher, Entity, MaxPriority
<1>4. InheritPriority(s, t, MaxPriority) = [s EXCEPT !.ent[t].eff = p]
  BY <1>2 DEF InheritPriority
<1> QED BY <1>3, <1>4, PrioritySane

LEMMA RestoreSane ==
  ASSUME NEW s, Sane(s), NEW t \in Admitted(s)
  PROVE  Sane(RestorePriority(s, t)) /\ RestorePriority(s, t).running = s.running
<1>1. s.ent[t] \in Entity
  BY DEF Sane, Made, Admitted
<1>2. PICK p : p = s.ent[t].base
  OBVIOUS
<1>3. p \in 0 .. MaxPriority
  BY <1>1, <1>2 DEF Entity
<1>4. RestorePriority(s, t) = [s EXCEPT !.ent[t].eff = p]
  BY <1>2 DEF RestorePriority
<1> QED BY <1>3, <1>4, PrioritySane

LEMMA CreateGroupSane ==
  ASSUME NEW s, Sane(s), NEW g \in Group \ DOMAIN s.grp
  PROVE  Sane(CreateGroup(s, g)) /\ CreateGroup(s, g).running = s.running
<1>1. PICK E, G, R : E = s.ent /\ G = s.grp /\ R = s.running /\ Made(s, E, G, R)
  BY DEF Sane
<1>2. PICK H : H = Entered(G, g, [members |-> {}, vruntime |-> 0])
  OBVIOUS
<1>3. /\ DOMAIN H = DOMAIN G \union {g} /\ H[g] = [members |-> {}, vruntime |-> 0]
      /\ \A h \in DOMAIN G : H[h] = G[h]
      /\ H = [h \in DOMAIN H |-> H[h]]
  BY <1>1, <1>2 DEF Entered
<1>4. G \in [DOMAIN G -> ChainGroup] /\ DOMAIN G \subseteq Group
  BY <1>1 DEF Made
<1>5. [members |-> {}, vruntime |-> 0] \in ChainGroup
  BY DEF ChainGroup
<1>6. DOMAIN H \subseteq Group /\ H \in [DOMAIN H -> ChainGroup]
  BY <1>3, <1>4, <1>5
<1>7. PICK r : r = [ent |-> E, grp |-> H, running |-> R]
  OBVIOUS
<1>8. CreateGroup(s, g) = r
  <2>1. CreateGroup(s, g) = [s EXCEPT !.grp = H]
    BY <1>1, <1>2 DEF CreateGroup
  <2>2. s = [ent |-> E, grp |-> G, running |-> R]
    BY <1>1 DEF Made
  <2> QED BY <1>7, <2>1, <2>2
<1>9. Made(r, E, H, R)
  <2>1. \A u, h : InGroup(H, u, h) <=> InGroup(G, u, h)
    BY <1>1, <1>3 DEF InGroup
  <2> QED BY <1>1, <1>6, <1>7, <2>1 DEF Made
<1> QED BY <1>1, <1>8, <1>9, MadeIsSane

\* A change of one thread's group and of the groups, as join_group and
\* leave_group make it.
LEMMA Regrouped ==
  ASSUME NEW s, NEW E, NEW G, NEW R, Made(s, E, G, R), NEW t \in DOMAIN E,
         NEW H, DOMAIN H \subseteq Group, H \in [DOMAIN H -> ChainGroup],
         NEW k \in Group \union {None}, \A g \in Group : k = g <=> InGroup(H, t, g),
         \A u \in DOMAIN E \ {t}, g \in Group : E[u].group = g <=> InGroup(H, u, g),
         NEW r, r = [ent |-> [E EXCEPT ![t].group = k], grp |-> H, running |-> R]
  PROVE  Made(r, [E EXCEPT ![t].group = k], H, R)
<1> DEFINE F == [E EXCEPT ![t].group = k]
<1>1. E \in [DOMAIN E -> Entity] /\ DOMAIN E \subseteq Nat
  BY DEF Made
<1>2. PICK e : e = [E[t] EXCEPT !.group = k]
  OBVIOUS
<1>3. e \in Entity /\ e.group = k /\ e.st = E[t].st
  BY <1>1, <1>2 DEF Entity
<1>4. F = [E EXCEPT ![t] = e]
  BY <1>2
<1>5. DOMAIN F = DOMAIN E /\ F \in [DOMAIN F -> Entity] /\ F[t] = e /\ \A u \in DOMAIN E \ {t} : F[u] = E[u]
  BY <1>1, <1>3, <1>4
<1> HIDE DEF F
<1>6. \A u \in DOMAIN F : F[u].st = "Running" <=> u = R
  BY <1>3, <1>5 DEF Made
<1>7. \A u \in DOMAIN F, g \in Group : F[u].group = g <=> InGroup(H, u, g)
  BY <1>3, <1>5
<1>8. r = [ent |-> F, grp |-> H, running |-> R]
  BY DEF F
<1>9. Made(r, F, H, R)
  BY <1>5, <1>6, <1>7, <1>8 DEF Made
<1> QED BY <1>9 DEF F

LEMMA JoinGroupSane ==
  ASSUME NEW s, Sane(s), NEW t \in Nat, NEW g \in Group, NEW n,
         t \in Admitted(s) => s.ent[t].group = None
  PROVE  Sane(JoinGroup(s, t, g, n)) /\ JoinGroup(s, t, g, n).running = s.running
<1>1. PICK E, G, R : E = s.ent /\ G = s.grp /\ R = s.running /\ Made(s, E, G, R)
  BY DEF Sane
<1>2. s = [ent |-> E, grp |-> G, running |-> R] /\ G \in [DOMAIN G -> ChainGroup] /\ DOMAIN G \subseteq Group
  BY <1>1 DEF Made
<1>3. CASE g \notin DOMAIN G \/ (t \notin G[g].members /\ Cardinality(G[g].members) = n)
  BY <1>1, <1>3 DEF JoinGroup
<1>4. CASE g \in DOMAIN G /\ ~ (t \notin G[g].members /\ Cardinality(G[g].members) = n)
  <2> DEFINE M == G[g].members \union {t}
  <2>1. PICK c : c = [G[g] EXCEPT !.members = M]
    OBVIOUS
  <2>2. G[g] \in ChainGroup /\ c \in ChainGroup /\ c.members = M
    BY <1>2, <1>4, <2>1 DEF ChainGroup
  <2>3. PICK H : H = [G EXCEPT ![g] = c]
    OBVIOUS
  <2>4. PICK a : a = [ent |-> E, grp |-> H, running |-> R]
    OBVIOUS
  <2>5. JoinGroup(s, t, g, n) = IF t \in DOMAIN E THEN [a EXCEPT !.ent[t].group = g] ELSE a
    <3>1. [s EXCEPT !.grp[g].members = @ \union {t}] = [s EXCEPT !.grp[g].members = M]
      BY <1>1
    <3> HIDE DEF M
    <3>2. [s EXCEPT !.grp[g].members = M] = a
      BY <1>2, <2>1, <2>3, <2>4
    <3> QED BY <1>1, <1>4, <3>1, <3>2 DEF JoinGroup, Admitted
  <2>6. /\ DOMAIN H = DOMAIN G /\ H \in [DOMAIN H -> ChainGroup] /\ t \in H[g].members
        /\ \A u, h : u # t \/ h # g => (InGroup(H, u, h) <=> InGroup(G, u, h))
    <3>1. t \in M /\ \A u : u # t => (u \in M <=> u \in G[g].members)
      OBVIOUS
    <3> HIDE DEF M
    <3>2. /\ DOMAIN H = DOMAIN G /\ H \in [DOMAIN H -> ChainGroup]
          /\ H[g] = c /\ \A h \in DOMAIN G \ {g} : H[h] = G[h]
      BY <1>2, <1>4, <2>2, <2>3
    <3> QED BY <1>4, <2>2, <3>1, <3>2 DEF InGroup
  <2> HIDE DEF M
  <2>7. \A u \in DOMAIN E \ {t}, h \in Group : E[u].group = h <=> InGroup(H, u, h)
    BY <1>1, <2>6 DEF Made
  <2>8. CASE t \notin DOMAIN E
    <3>1. Made(a, E, H, R)
      BY <1>1, <1>2, <2>4, <2>6, <2>7, <2>8 DEF Made
    <3> QED BY <1>1, <2>5, <2>8, <3>1, MadeIsSane
  <2>9. CASE t \in DOMAIN E
    <3>1. PICK r : r = [ent |-> [E EXCEPT ![t].group = g], grp |-> H, running |-> R]
      OBVIOUS
    <3>2. JoinGroup(s, t, g, n) = r
      BY <2>4, <2>5, <2>9, <3>1
    <3>3. \A h \in Group : g = h <=> InGroup(H, t, h)
      <4>1. \A h \in Group : ~ InGroup(G, t, h)
        BY <1>1, <2>9, SchedAssumption, IdAssumption DEF Made, Admitted
      <4> QED BY <1>4, <2>6, <4>1 DEF InGroup
    <3>4. Made(r, [E EXCEPT ![t].group = g], H, R)
      <4>1. DOMAIN H \subseteq Group /\ H \in [DOMAIN H -> ChainGroup]
        BY <1>2, <2>6
      <4> QED BY <1>1, <2>7, <2>9, <3>1, <3>3, <4>1, Regrouped
    <3> QED BY <1>1, <3>2, <3>4, MadeIsSane
  <2> QED BY <2>8, <2>9
<1> QED BY <1>3, <1>4

LEMMA LeaveGroupSane ==
  ASSUME NEW s, Sane(s), NEW t \in Nat
  PROVE  Sane(LeaveGroup(s, t)) /\ LeaveGroup(s, t).running = s.running
<1>1. PICK E, G, R : E = s.ent /\ G = s.grp /\ R = s.running /\ Made(s, E, G, R)
  BY DEF Sane
<1>2. s = [ent |-> E, grp |-> G, running |-> R] /\ G \in [DOMAIN G -> ChainGroup] /\ DOMAIN G \subseteq Group
  BY <1>1 DEF Made
<1>3. CASE t \notin DOMAIN E \/ E[t].group = None
  BY <1>1, <1>3 DEF LeaveGroup, Admitted
<1>4. CASE t \in DOMAIN E /\ E[t].group # None
  <2>1. PICK g : g = E[t].group
    OBVIOUS
  <2>2. g \in Group /\ g \in DOMAIN G /\ t \in G[g].members /\ G[g] \in ChainGroup
    <3>1. g \in Group
      BY <1>1, <1>4, <2>1 DEF Made, Entity
    <3>2. InGroup(G, t, g)
      BY <1>1, <1>4, <2>1, <3>1 DEF Made
    <3> QED BY <1>2, <3>1, <3>2 DEF InGroup
  <2>3. PICK a : a = [ent |-> [E EXCEPT ![t].group = None], grp |-> G, running |-> R]
    OBVIOUS
  <2>4. [s EXCEPT !.ent[t].group = None] = a
    BY <1>2, <2>3
  <2>5. PICK M : M = G[g].members \ {t}
    OBVIOUS
  <2>6. LeaveGroup(s, t) = IF M = {} THEN [a EXCEPT !.grp = Restrict(G, DOMAIN G \ {g})]
                                     ELSE [a EXCEPT !.grp[g].members = M]
    BY <1>1, <1>4, <2>1, <2>2, <2>3, <2>4, <2>5 DEF LeaveGroup, Admitted
  <2>7. PICK H : H = IF M = {} THEN Restrict(G, DOMAIN G \ {g}) ELSE [G EXCEPT ![g].members = M]
    OBVIOUS
  <2>8. PICK r : r = [ent |-> [E EXCEPT ![t].group = None], grp |-> H, running |-> R]
    OBVIOUS
  <2>9. LeaveGroup(s, t) = r
    <3>1. CASE M = {}
      BY <2>3, <2>6, <2>7, <2>8, <3>1
    <3>2. CASE M # {}
      BY <2>3, <2>6, <2>7, <2>8, <3>2
    <3> QED BY <3>1, <3>2
  <2>10. /\ DOMAIN H \subseteq Group /\ H \in [DOMAIN H -> ChainGroup]
         /\ DOMAIN H = IF M = {} THEN DOMAIN G \ {g} ELSE DOMAIN G
         /\ \A h \in DOMAIN G \ {g} : H[h] = G[h]
         /\ M # {} => H[g].members = M
    <3>1. CASE M = {}
      BY <1>2, <2>7, <3>1 DEF Restrict
    <3>2. CASE M # {}
      <4>1. PICK c : c = [G[g] EXCEPT !.members = M]
        OBVIOUS
      <4>2. c \in ChainGroup /\ c.members = M
        BY <2>2, <2>5, <4>1 DEF ChainGroup
      <4>3. H = [G EXCEPT ![g] = c]
        BY <2>7, <3>2, <4>1
      <4> QED BY <1>2, <2>2, <3>2, <4>2, <4>3
    <3> QED BY <3>1, <3>2
  <2>11. /\ \A u, h : h # g => (InGroup(H, u, h) <=> InGroup(G, u, h))
         /\ \A u : u # t => (InGroup(H, u, g) <=> InGroup(G, u, g))
         /\ ~ InGroup(H, t, g)
    <3>1. \A u, h : h # g => (InGroup(H, u, h) <=> InGroup(G, u, h))
      BY <2>10 DEF InGroup
    <3>2. CASE M = {}
      BY <2>2, <2>5, <2>10, <3>1, <3>2 DEF InGroup
    <3>3. CASE M # {}
      BY <2>2, <2>5, <2>10, <3>1, <3>3 DEF InGroup
    <3> QED BY <3>2, <3>3
  <2>12. /\ \A u \in DOMAIN E \ {t}, h \in Group : E[u].group = h <=> InGroup(H, u, h)
         /\ \A h \in Group : None = h <=> InGroup(H, t, h)
    BY <1>1, <1>4, <2>1, <2>11, SchedAssumption, IdAssumption DEF Made
  <2>13. Made(r, [E EXCEPT ![t].group = None], H, R)
    <3>1. DOMAIN H \subseteq Group /\ H \in [DOMAIN H -> ChainGroup] /\ t \in DOMAIN E
      BY <1>4, <2>10
    <3>2. Made(s, E, G, R) /\ None \in Group \union {None}
      BY <1>1
    <3> QED BY <2>8, <2>12, <3>1, <3>2, Regrouped
  <2> QED BY <1>1, <2>9, <2>13, MadeIsSane
<1> QED BY <1>3, <1>4
-----------------------------------------------------------------------------
(* Decisions *)

\* A decision is sound when its scheduler is, and the core executes the thread
\* it calls running.
Sound(d) == Sane(d.s) /\ d.core = d.s.running

\* Most decisions end in a dispatch of the thread the core continues with.
LEMMA DispatchSound ==
  ASSUME NEW s, Sane(s), s.running = None, NEW t \in Admitted(s)
  PROVE  Sound(Decision(Dispatch(s, t), t))
  BY DispatchSane DEF Sound, Decision

LEMMA PickNextTypes ==
  ASSUME NEW s, Sane(s)
  PROVE  /\ PickNext(s) # None => PickNext(s) \in Admitted(s)
         /\ \A t \in Admitted(s) : s.ent[t].st = "Ready" => PickNext(s) # None
<1>1. None \notin Admitted(s)
  BY SchedAssumption, IdAssumption DEF Sane, Made, Admitted
<1> QED BY <1>1, PickNextReady DEF ReadySet

\* The thread that was charged is ready, so somebody always is.
LEMMA PreemptTickSound ==
  ASSUME NEW s, Sane(s), s.running # None, NEW x \in Nat
  PROVE  Sound(PreemptTick(s, s.running, x))
<1>1. PICK o : o = s.running
  OBVIOUS
<1>2. PICK a : a = Account(s, x)
  OBVIOUS
<1>3. Sane(a) /\ a.running = None /\ o \in Admitted(a) /\ a.ent[o].st = "Ready"
  <2>1. o \in Admitted(s)
    BY <1>1 DEF Sane, Made, Admitted
  <2> QED BY <1>1, <1>2, <2>1, AccountSane
<1>4. PICK n : n = PickNext(a)
  OBVIOUS
<1>5. n # None /\ n \in Admitted(a)
  BY <1>3, <1>4, PickNextTypes
<1>6. PreemptTick(s, o, x) = Decision(Dispatch(a, n), n)
  BY <1>1, <1>2, <1>4, <1>5 DEF PreemptTick
<1> QED BY <1>1, <1>3, <1>5, <1>6, DispatchSound

LEMMA CooperativeYieldSound ==
  ASSUME NEW s, Sane(s), s.running # None, NEW x \in Nat
  PROVE  Sound(CooperativeYield(s, s.running, x))
<1>1. PICK o : o = s.running
  OBVIOUS
<1>2. PICK a : a = Account(s, x)
  OBVIOUS
<1>3. Sane(a) /\ a.running = None /\ o \in Admitted(a) /\ o \in Nat
  <2>1. o \in Admitted(s) /\ o \in Nat
    BY <1>1 DEF Sane, Made, Admitted
  <2> QED BY <1>1, <1>2, <2>1, AccountSane
<1>4. PICK b : b = NoteBlocked(a, o)
  OBVIOUS
<1>5. Sane(b) /\ Admitted(b) = Admitted(a)
  BY <1>3, <1>4, NoteBlockedSane
<1>6. PICK r : r = NoteReady(a, o)
  OBVIOUS
<1>7. Sane(r) /\ r.running = None /\ Admitted(r) = Admitted(a)
  BY <1>1, <1>3, <1>6, NoteReadySane
<1>8. PICK n : n = PickNext(b)
  OBVIOUS
<1>9. n # None => n \in Admitted(r)
  BY <1>5, <1>7, <1>8, PickNextTypes
<1>10. CooperativeYield(s, o, x) = IF n # None THEN Decision(Dispatch(r, n), n) ELSE Decision(Dispatch(r, o), o)
  BY <1>1, <1>2, <1>4, <1>6, <1>8 DEF CooperativeYield
<1> QED BY <1>1, <1>3, <1>7, <1>9, <1>10, DispatchSound

LEMMA BlockThreadSound ==
  ASSUME NEW s, Sane(s), s.running # None, NEW x \in Nat
  PROVE  Sound(BlockThread(s, s.running, s.running, x))
<1>1. PICK o : o = s.running
  OBVIOUS
<1>2. PICK a : a = Account(s, x)
  OBVIOUS
<1>3. Sane(a) /\ a.running = None /\ o \in Admitted(a) /\ o \in Nat
  <2>1. o \in Admitted(s) /\ o \in Nat
    BY <1>1 DEF Sane, Made, Admitted
  <2> QED BY <1>1, <1>2, <2>1, AccountSane
<1>4. PICK b : b = NoteBlocked(a, o)
  OBVIOUS
<1>5. Sane(b) /\ Admitted(b) = Admitted(a) /\ b.running = None
  BY <1>3, <1>4, NoteBlockedSane
<1>6. PICK r : r = NoteReady(b, o)
  OBVIOUS
<1>7. Sane(r) /\ r.running = None /\ Admitted(r) = Admitted(a)
  BY <1>1, <1>3, <1>5, <1>6, NoteReadySane
<1>8. PICK n : n = PickNext(b)
  OBVIOUS
<1>9. n # None => n \in Admitted(b)
  BY <1>5, <1>8, PickNextTypes
<1>10. BlockThread(s, o, o, x) = IF n # None THEN Decision(Dispatch(b, n), n) ELSE Decision(Dispatch(r, o), o)
  BY <1>2, <1>4, <1>6, <1>8 DEF BlockThread
<1> QED BY <1>1, <1>3, <1>5, <1>7, <1>9, <1>10, DispatchSound

LEMMA TerminateThreadSound ==
  ASSUME NEW s, Sane(s), s.running # None, NEW x \in Nat
  PROVE  Sound(TerminateThread(s, s.running, x))
<1>1. PICK o : o = s.running
  OBVIOUS
<1>2. PICK a : a = Account(s, x)
  OBVIOUS
<1>3. Sane(a) /\ a.running = None /\ o \in Nat
  BY <1>1, <1>2, AccountSane DEF Sane, Made
<1>4. PICK r : r = Remove(a, o)
  OBVIOUS
<1>5. Sane(r) /\ r.running = None
  BY <1>3, <1>4, RemoveSane
<1>6. PICK n : n = PickNext(r)
  OBVIOUS
<1>7. n # None => n \in Admitted(r)
  BY <1>5, <1>6, PickNextTypes
<1>8. TerminateThread(s, o, x) = IF n # None THEN Decision(Dispatch(r, n), n) ELSE Decision(r, None)
  BY <1>1, <1>2, <1>4, <1>6 DEF TerminateThread, Retired
<1>9. Sound(Decision(r, None))
  BY <1>5 DEF Sound, Decision
<1> QED BY <1>1, <1>5, <1>7, <1>8, <1>9, DispatchSound

LEMMA YieldToThreadSound ==
  ASSUME NEW s, Sane(s), s.running # None, NEW x \in Nat, NEW to \in Admitted(s)
  PROVE  Sound(YieldToThread(s, s.running, to, x))
<1>1. PICK o : o = s.running
  OBVIOUS
<1>2. PICK a : a = Account(s, x)
  OBVIOUS
<1>3. Sane(a) /\ a.running = None /\ Admitted(a) = Admitted(s) /\ o \in Nat
  <2>1. o \in Nat
    BY <1>1 DEF Sane, Made
  <2> QED BY <1>1, <1>2, <2>1, AccountSane
<1>4. PICK b : b = NoteBlocked(a, o)
  OBVIOUS
<1>5. Sane(b) /\ Admitted(b) = Admitted(s) /\ b.running = None
  BY <1>3, <1>4, NoteBlockedSane
<1>6. YieldToThread(s, o, to, x) = Decision(Dispatch(b, to), to)
  BY <1>2, <1>4 DEF YieldToThread
<1> QED BY <1>1, <1>5, <1>6, DispatchSound
-----------------------------------------------------------------------------
(* Any sequence of operations *)

SchedInv == Sane(sched) /\ core = sched.running

LEMMA Decided ==
  ASSUME NEW d, Sound(d), Decide(d)
  PROVE  SchedInv'
  BY RebasedSane DEF Sound, Decide, SchedInv

LEMMA WasPut ==
  ASSUME SchedInv, NEW s, Sane(s), s.running = sched.running, Put(s)
  PROVE  SchedInv'
  BY RebasedSane DEF Put, SchedInv

LEMMA SchedInvInit == ApiInit => SchedInv
<1> SUFFICES ASSUME ApiInit PROVE SchedInv
  OBVIOUS
<1>1. PICK o : o = Least(Interactive)
  OBVIOUS
<1>2. o \in Interactive /\ o \in Schedulable
  BY <1>1, SchedAssumption, IdAssumption, LeastIsLeast DEF Schedulable
<1>3. PICK E : E = sched.ent
  OBVIOUS
<1>4. ASSUME NEW t \in Schedulable
      PROVE  /\ E[t] \in Entity /\ E[t].group = None
             /\ E[t].st = IF t = o THEN "Running" ELSE "Ready"
  <2>1. PICK m \in {"Interactive", "Throughput"} : m = IF t \in Interactive THEN "Interactive" ELSE "Throughput"
    OBVIOUS
  <2>2. PICK e : e = SchedEntity(m, MaxPriority - 1)
    OBVIOUS
  <2>3. e = [mode |-> m, base |-> 1, eff |-> 1, st |-> "Blocked", vruntime |-> 0, group |-> None]
    BY <2>2 DEF SchedEntity, MaxPriority
  <2>4. PICK w \in RunState : w = IF t = o THEN "Running" ELSE "Ready"
    BY DEF RunState
  <2>5. E[t] = [e EXCEPT !.st = w]
    BY <1>1, <1>3, <2>1, <2>2, <2>4 DEF ApiInit
  <2>6. e \in Entity /\ e.group = None
    BY <2>3 DEF Entity, RunState, MaxPriority
  <2> QED BY <2>4, <2>5, <2>6 DEF Entity
<1>5. DOMAIN E = Schedulable /\ E = [t \in Schedulable |-> E[t]] /\ sched = [ent |-> E, grp |-> <<>>, running |-> o] /\ core = o
  BY <1>1, <1>3 DEF ApiInit
<1>6. DOMAIN <<>> = {}
  OBVIOUS
<1>7. Made(sched, E, <<>>, o)
  <2>1. E \in [DOMAIN E -> Entity]
    BY <1>4, <1>5
  <2>2. <<>> \in [DOMAIN <<>> -> ChainGroup]
    BY <1>6
  <2>3. \A t \in DOMAIN E, g \in Group : E[t].group = g <=> InGroup(<<>>, t, g)
    BY <1>4, <1>5, <1>6, SchedAssumption, IdAssumption DEF InGroup
  <2>4. \A t \in DOMAIN E : E[t].st = "Running" <=> t = o
    BY <1>4, <1>5
  <2> QED BY <1>2, <1>5, <1>6, <2>1, <2>2, <2>3, <2>4, SchedAssumption DEF Made
<1> QED BY <1>5, <1>7, MadeIsSane DEF SchedInv

\* One step per operation: a decision of the running thread, or a method that
\* leaves running alone.
LEMMA SchedInvNext == SchedInv /\ [ApiNext]_api => SchedInv'
<1> SUFFICES ASSUME SchedInv, [ApiNext]_api PROVE SchedInv'
  OBVIOUS
<1>1. Sane(sched) /\ core = sched.running /\ Slice \subseteq Nat
  BY SchedAssumption, IdAssumption DEF SchedInv, Slice
<1>2. Admitted(sched) \subseteq Nat
  BY <1>1 DEF Sane, Made, Admitted
<1>3. CASE ApiTick
  <2>1. PICK x \in Slice : Decide(PreemptTick(sched, core, x))
    BY <1>3 DEF ApiTick
  <2>2. core # None
    BY <2>1 DEF Decide
  <2> QED BY <1>1, <2>1, <2>2, PreemptTickSound, Decided
<1>4. CASE Yield
  <2>1. PICK x \in Slice : Decide(CooperativeYield(sched, core, x))
    BY <1>4 DEF Yield
  <2>2. core # None
    BY <2>1 DEF Decide
  <2> QED BY <1>1, <2>1, <2>2, CooperativeYieldSound, Decided
<1>5. CASE Block
  <2>1. PICK x \in Slice : Decide(BlockThread(sched, core, core, x))
    BY <1>5 DEF Block
  <2>2. core # None
    BY <2>1 DEF Decide
  <2> QED BY <1>1, <2>1, <2>2, BlockThreadSound, Decided
<1>6. CASE HandOver
  <2>1. PICK x \in Slice, t \in ReadySet(sched) : Decide(YieldToThread(sched, core, t, x))
    BY <1>6 DEF HandOver
  <2>2. core # None /\ t \in Admitted(sched)
    BY <2>1 DEF Decide, ReadySet
  <2> QED BY <1>1, <2>1, <2>2, YieldToThreadSound, Decided
<1>7. CASE Wake
  <2>1. PICK t \in Admitted(sched) : sched.ent[t].st = "Blocked" /\ Put(NoteReady(sched, t))
    BY <1>7 DEF Wake
  <2>2. t \in Nat /\ t # sched.running
    BY <1>1, <1>2, <2>1 DEF Sane, Made, Admitted
  <2> QED BY <1>1, <2>1, <2>2, NoteReadySane, WasPut
<1>8. CASE ApiTerminate
  <2>1. PICK x \in Slice : Decide(TerminateThread(sched, core, x))
    BY <1>8 DEF ApiTerminate
  <2>2. core # None
    BY <2>1 DEF Decide
  <2> QED BY <1>1, <2>1, <2>2, TerminateThreadSound, Decided
<1>9. CASE Inherit
  BY <1>1, <1>9, InheritSane, WasPut DEF Inherit
<1>10. CASE Restore
  BY <1>1, <1>10, RestoreSane, WasPut DEF Restore
<1>11. CASE NewGroup
  BY <1>1, <1>11, CreateGroupSane, WasPut DEF NewGroup
<1>12. CASE Join
  <2>1. PICK t \in Throughput, g \in Group :
          (t \in Admitted(sched) => sched.ent[t].group = None) /\ Put(JoinGroup(sched, t, g, ChainMembers))
    BY <1>12 DEF Join
  <2>2. t \in Nat
    BY SchedAssumption DEF Schedulable
  <2> QED BY <1>1, <2>1, <2>2, JoinGroupSane, WasPut
<1>13. CASE Leave
  <2>1. PICK t \in Throughput : Put(LeaveGroup(sched, t))
    BY <1>13 DEF Leave
  <2>2. t \in Nat
    BY SchedAssumption DEF Schedulable
  <2> QED BY <1>1, <2>1, <2>2, LeaveGroupSane, WasPut
<1>14. CASE UNCHANGED api
  BY <1>14 DEF api, SchedInv
<1> QED BY <1>3, <1>4, <1>5, <1>6, <1>7, <1>8, <1>9, <1>10, <1>11, <1>12, <1>13, <1>14 DEF ApiNext

LEMMA InvAgrees == SchedInv => SchedulerAgrees
<1> SUFFICES ASSUME SchedInv PROVE SchedulerAgrees
  OBVIOUS
<1>1. PICK E, G, R : E = sched.ent /\ G = sched.grp /\ R = sched.running /\ Made(sched, E, G, R) /\ core = R
  BY DEF SchedInv, Sane
<1>2. {t \in DOMAIN E : E[t].st = "Running"} = {R} \ {None}
  BY <1>1, SchedAssumption, IdAssumption DEF Made
<1>3. OneRunning
  BY <1>1, <1>2 DEF OneRunning, Admitted
<1>4. MembershipMirrored
  BY <1>1 DEF MembershipMirrored, Made, Admitted
<1> QED BY <1>3, <1>4 DEF SchedulerAgrees

(***************************************************************************)
(* For any threads, groups and slices, and after any sequence of calls:    *)
(* exactly the thread running() names is in state Running, it is the one   *)
(* the core executes, and threads and chain groups name each other.        *)
(***************************************************************************)
THEOREM SchedulersAgree == ApiSpec => []SchedulerAgrees
<1>1. ApiSpec => []SchedInv
  BY SchedInvInit, SchedInvNext, PTL DEF ApiSpec
<1> QED BY <1>1, InvAgrees, PTL
-----------------------------------------------------------------------------
(* The preemptive phase and its supervision *)

(***************************************************************************)
(* What the phase keeps of the scheduler, the core and the ids.  No thread *)
(* is in a chain group and ids are given out in order.  Only a stray       *)
(* hand-over puts the Root Task's program where another thread's belongs,  *)
(* on the core or in a saved context; everybody else's traps and faults    *)
(* are taken under their own name.                                         *)
(***************************************************************************)
Lone(s)  == Sane(s) /\ DOMAIN s.grp = {}
Watching == dmPc \notin {"unborn", "spinning"}
History  == [crashes : Nat, faults : Nat, refused : BOOLEAN, strayed : BOOLEAN, ran : SUBSET Tid]

\* The program k stands for the thread t or, if one strayed, is the Root Task's.
StandsFor(k, t, strayed) == k = t \/ (k = RootTask /\ strayed)

CoreKept ==
  /\ Lone(pSched) /\ Admitted(pSched) \subseteq 0 .. next - 1
  /\ StandsFor(pCore, pSched.running, hist.strayed)
  /\ saved \in [Tid -> Tid] /\ \A t \in Tid : StandsFor(saved[t], t, hist.strayed)

PhaseKept ==
  /\ next \in FirstFree .. LastTid + 1 /\ exited \subseteq Tid
  /\ phase \in {"cooperative", "preemptive", "over", "skipped"} /\ ticks \in 0 .. TickBudget
  /\ dmPc \in DmPlace /\ pending \in BOOLEAN
  /\ policy \in [state : {"Starting", "Running", "Restarting", "Failed"}, restarts : Nat, lifetime : Nat]
  /\ policy.restarts <= RestartBudget + (IF dmPc = "spinning" THEN 1 ELSE 0)
  /\ hist \in History
  /\ phase \in {"cooperative", "skipped"} =>
       pCore = RootTask /\ pSched.running = RootTask /\ ~hist.strayed
  /\ phase = "cooperative" =>
       /\ next = FirstFree /\ dmPc = "unborn" /\ ~pending
       /\ hist.crashes = 0 /\ policy.lifetime = 0

(***************************************************************************)
(* Process A has a thread of its own and neither waits nor faults: once it *)
(* is started there is always somebody to run, so no block is undone and   *)
(* no IPC_RECV returns to its caller.                                      *)
(***************************************************************************)
ProcsKept ==
  /\ watched \in {None} \union FirstFree .. next - 1 /\ procC \in {None} \union FirstFree .. next - 1
  /\ watched # None => watched # procC
  /\ phase \in {"preemptive", "over"} =>
       /\ procA \in Admitted(pSched) /\ procA \notin {watched, procC} /\ procA >= FirstFree
       /\ pSched.ent[procA].st # "Blocked"
       /\ dmPc # "unborn" => procA # FirstFree
       /\ RootTask \notin Admitted(pSched)

\* Until the manager gives up its thread, the first one spawned, stays
\* admitted and its saved context its own: it is never the one whose fault is
\* handled, and no tick switches away from it.
ManagerKept ==
  /\ dmTid = (IF Watching THEN FirstFree ELSE None)
  /\ dmPc # "unborn" => watched # FirstFree /\ procC # FirstFree
  /\ Watching => FirstFree \in Admitted(pSched) /\ saved[FirstFree] = FirstFree

(***************************************************************************)
(* Where the manager is says what is pending.  It sleeps whenever it waits *)
(* without the core, so no tick can resume it; a pending crash means it    *)
(* has the core and has not yet polled; and once a crash was taken the     *)
(* driver it was about is gone.                                            *)
(***************************************************************************)
CrashKept ==
  dmPc # "unborn" =>
    /\ hist.crashes = policy.lifetime + (IF pending THEN 1 ELSE 0)
    /\ pending => pCore = FirstFree /\ dmPc \in {"starting", "waiting", "woken"}
    /\ pending \/ dmPc \in {"respawning", "spinning"} => watched \notin Admitted(pSched)
    /\ dmPc \in {"waiting", "woken"} /\ pCore # FirstFree => pSched.ent[FirstFree].st = "Blocked"
    /\ dmPc = "woken" /\ pCore = FirstFree => pending
    /\ dmPc = "respawning" => pCore = FirstFree

\* A thread that awaits a reply is admitted: p2_fault takes it off the list.
CallsKept ==
  /\ asked \in 0 .. MaxAsked /\ owed \in BOOLEAN
  /\ owed => NetStack \in Admitted(pSched)

SupInv == CoreKept /\ PhaseKept /\ ProcsKept /\ ManagerKept /\ CrashKept /\ CallsKept

\* r has the threads of s, in the same run states but for t.
SameBut(s, r, t) ==
  /\ Admitted(r) = Admitted(s)
  /\ \A u \in Admitted(s) \ {t} : r.ent[u].st = s.ent[u].st

LEMMA LoneShape ==
  ASSUME NEW s, Lone(s)
  PROVE  /\ s = [ent |-> s.ent, grp |-> s.grp, running |-> s.running]
         /\ s.ent \in [Admitted(s) -> Entity] /\ Admitted(s) \subseteq Nat /\ Admitted(s) = DOMAIN s.ent
         /\ s.running \in Nat \union {None} /\ (s.running # None => s.running \in Admitted(s))
         /\ \A t \in Admitted(s) : s.ent[t].st = "Running" <=> t = s.running
  BY DEF Lone, Sane, Made, Admitted

LEMMA NoteReadyLone ==
  ASSUME NEW s, Lone(s), NEW t \in Nat, t # s.running
  PROVE  /\ Lone(NoteReady(s, t)) /\ NoteReady(s, t).running = s.running
         /\ SameBut(s, NoteReady(s, t), t)
         /\ t \in Admitted(s) => NoteReady(s, t).ent[t].st = "Ready"
<1>1. PICK E : E = s.ent
  OBVIOUS
<1>2. s = [ent |-> E, grp |-> s.grp, running |-> s.running] /\ E \in [DOMAIN E -> Entity] /\ Admitted(s) = DOMAIN E
  BY <1>1, LoneShape
<1>3. CASE t \notin Admitted(s)
  BY <1>3 DEF NoteReady, SameBut
<1>4. CASE t \in Admitted(s)
  <2>1. PICK r : r = NoteReady(s, t)
    OBVIOUS
  <2>2. r.grp = s.grp /\ r.ent = [E EXCEPT ![t].st = "Ready"]
    BY <1>2, <1>4, <2>1 DEF NoteReady
  <2>3. \A u \in DOMAIN E \ {t} : r.ent[u].st = E[u].st
    BY <2>2
  <2> QED BY <1>1, <1>2, <1>4, <2>1, <2>2, <2>3, NoteReadySane DEF Lone, SameBut
<1> QED BY <1>3, <1>4

LEMMA NoteBlockedLone ==
  ASSUME NEW s, Lone(s), NEW t \in Nat
  PROVE  /\ Lone(NoteBlocked(s, t))
         /\ NoteBlocked(s, t).running = IF s.running = t THEN None ELSE s.running
         /\ SameBut(s, NoteBlocked(s, t), t)
         /\ t \in Admitted(s) => NoteBlocked(s, t).ent[t].st = "Blocked"
<1>1. PICK E : E = s.ent
  OBVIOUS
<1>2. s = [ent |-> E, grp |-> s.grp, running |-> s.running] /\ E \in [DOMAIN E -> Entity] /\ Admitted(s) = DOMAIN E
  BY <1>1, LoneShape
<1>3. CASE t \notin Admitted(s)
  BY <1>3, NoteBlockedSane DEF NoteBlocked, SameBut, Lone
<1>4. CASE t \in Admitted(s)
  <2>1. PICK r : r = NoteBlocked(s, t)
    OBVIOUS
  <2>2. r.grp = s.grp /\ r.ent = [E EXCEPT ![t].st = "Blocked"]
    BY <1>2, <1>4, <2>1 DEF NoteBlocked
  <2>3. \A u \in DOMAIN E \ {t} : r.ent[u].st = E[u].st
    BY <2>2
  <2>4. r.ent[t].st = "Blocked"
    BY <1>2, <1>4, <2>2 DEF Entity
  <2> QED BY <1>1, <1>2, <1>4, <2>1, <2>2, <2>3, <2>4, NoteBlockedSane DEF Lone, SameBut
<1> QED BY <1>3, <1>4

LEMMA DispatchLone ==
  ASSUME NEW s, Lone(s), s.running = None, NEW t \in Admitted(s)
  PROVE  Lone(Dispatch(s, t)) /\ Dispatch(s, t).running = t /\ SameBut(s, Dispatch(s, t), t)
<1>1. PICK E : E = s.ent
  OBVIOUS
<1>2. s = [ent |-> E, grp |-> s.grp, running |-> s.running] /\ E \in [DOMAIN E -> Entity] /\ Admitted(s) = DOMAIN E
  BY <1>1, LoneShape
<1>3. PICK r : r = Dispatch(s, t)
  OBVIOUS
<1>4. r.grp = s.grp /\ r.ent = [E EXCEPT ![t].st = "Running"]
  BY <1>2, <1>3 DEF Dispatch
<1>5. \A u \in DOMAIN E \ {t} : r.ent[u].st = E[u].st
  BY <1>4
<1> QED BY <1>1, <1>2, <1>3, <1>4, <1>5, DispatchSane DEF Lone, SameBut

LEMMA AccountLone ==
  ASSUME NEW s, Lone(s), NEW x \in Nat
  PROVE  /\ Lone(Account(s, x)) /\ Account(s, x).running = None
         /\ SameBut(s, Account(s, x), s.running)
         /\ s.running # None => Account(s, x).ent[s.running].st = "Ready"
<1>1. PICK E, t : E = s.ent /\ t = s.running
  OBVIOUS
<1>2. s = [ent |-> E, grp |-> s.grp, running |-> t] /\ E \in [DOMAIN E -> Entity] /\ Admitted(s) = DOMAIN E
  BY <1>1, LoneShape
<1>3. PICK r : r = Account(s, x)
  OBVIOUS
<1>4. CASE t \notin Admitted(s)
  <2>1. r.grp = s.grp /\ r.ent = E
    BY <1>1, <1>2, <1>3, <1>4 DEF Account
  <2> QED BY <1>1, <1>2, <1>3, <2>1, AccountSane DEF Lone, SameBut
<1>5. CASE t \in Admitted(s)
  <2>1. r.grp = s.grp
    BY <1>1, <1>3, <1>5 DEF Account, Lone
  <2>2. r.ent = [E EXCEPT ![t].vruntime = @ + x, ![t].st = IF @ = "Running" THEN "Ready" ELSE @]
    BY <1>1, <1>3, <1>5 DEF Account
  <2>3. \A u \in DOMAIN E \ {t} : r.ent[u] = E[u]
    BY <2>2
  <2> QED BY <1>1, <1>2, <1>3, <2>1, <2>3, AccountSane DEF Lone, SameBut
<1> QED BY <1>4, <1>5

LEMMA RemoveLone ==
  ASSUME NEW s, Lone(s), NEW t \in Nat
  PROVE  /\ Lone(Remove(s, t)) /\ Admitted(Remove(s, t)) = Admitted(s) \ {t}
         /\ Remove(s, t).running = IF s.running = t THEN None ELSE s.running
         /\ \A u \in Admitted(s) \ {t} : Remove(s, t).ent[u].st = s.ent[u].st
<1>1. PICK E : E = s.ent
  OBVIOUS
<1>2. s = [ent |-> E, grp |-> s.grp, running |-> s.running] /\ E \in [DOMAIN E -> Entity] /\ Admitted(s) = DOMAIN E
  BY <1>1, LoneShape
<1>3. PICK r : r = Remove(s, t)
  OBVIOUS
<1>4. r.grp = s.grp /\ r.ent = Restrict(E, DOMAIN E \ {t})
  BY <1>2, <1>3 DEF Remove
<1>5. \A u \in DOMAIN E \ {t} : r.ent[u] = E[u]
  BY <1>4 DEF Restrict
<1> QED BY <1>1, <1>2, <1>3, <1>4, <1>5, RemoveSane DEF Lone

\* admit gives a thread a fresh entity, blocked and in no group.
LEMMA AdmitLone ==
  ASSUME NEW s, Lone(s), NEW t \in Nat, t # s.running
  PROVE  LET a == Admit(s, t, "Interactive", MaxPriority) IN
         /\ Lone(a) /\ a.running = s.running /\ Admitted(a) = Admitted(s) \union {t}
         /\ \A u \in Admitted(s) \ {t} : a.ent[u] = s.ent[u]
<1>1. PICK E, G, R : E = s.ent /\ G = s.grp /\ R = s.running /\ Made(s, E, G, R) /\ DOMAIN G = {}
  BY DEF Lone, Sane
<1>2. PICK e : e = SchedEntity("Interactive", MaxPriority)
  OBVIOUS
<1>3. e \in Entity /\ e.st = "Blocked" /\ e.group = None
  BY <1>2 DEF SchedEntity, Entity, RunState, MaxPriority
<1>4. PICK F : F = Entered(E, t, e)
  OBVIOUS
<1>5. /\ DOMAIN F = DOMAIN E \union {t} /\ F[t] = e /\ \A u \in DOMAIN E \ {t} : F[u] = E[u]
      /\ F = [u \in DOMAIN F |-> F[u]]
  BY <1>4 DEF Entered
<1>6. PICK a : a = [ent |-> F, grp |-> G, running |-> R]
  OBVIOUS
<1>7. Admit(s, t, "Interactive", MaxPriority) = a
  BY <1>1, <1>2, <1>4, <1>6 DEF Admit, Made
<1>8. Made(a, F, G, R)
  <2>1. F \in [DOMAIN F -> Entity] /\ DOMAIN F \subseteq Nat
    BY <1>1, <1>3, <1>5 DEF Made
  <2>2. \A u \in DOMAIN F : F[u].st = "Running" <=> u = R
    BY <1>1, <1>3, <1>5 DEF Made
  <2>3. \A u \in DOMAIN F, g \in Group : F[u].group = g <=> InGroup(G, u, g)
    BY <1>1, <1>3, <1>5, SchedAssumption DEF Made, InGroup
  <2> QED BY <1>1, <1>5, <1>6, <2>1, <2>2, <2>3 DEF Made
<1> QED BY <1>1, <1>5, <1>7, <1>8, MadeIsSane DEF Lone, Admitted

LEMMA InitUserThreadLone ==
  ASSUME NEW s, Lone(s), NEW t \in Nat, t # s.running
  PROVE  /\ Lone(InitUserThread(s, t)) /\ InitUserThread(s, t).running = s.running
         /\ Admitted(InitUserThread(s, t)) = Admitted(s) \union {t}
         /\ \A u \in Admitted(s) \ {t} : InitUserThread(s, t).ent[u] = s.ent[u]
<1>1. PICK a : a = Admit(s, t, "Interactive", MaxPriority)
  OBVIOUS
<1>2. /\ Lone(a) /\ a.running = s.running /\ Admitted(a) = Admitted(s) \union {t}
      /\ \A u \in Admitted(s) \ {t} : a.ent[u] = s.ent[u]
  BY <1>1, AdmitLone
<1>3. InitUserThread(s, t) = NoteReady(a, t)
  BY <1>1 DEF InitUserThread
<1>4. \A u \in Admitted(a) \ {t} : NoteReady(a, t).ent[u] = a.ent[u]
  BY <1>2, LoneShape DEF NoteReady
<1> QED BY <1>2, <1>3, <1>4, NoteReadyLone DEF SameBut

LEMMA PickNextLone ==
  ASSUME NEW s, Lone(s)
  PROVE  /\ PickNext(s) # None => PickNext(s) \in Admitted(s) /\ s.ent[PickNext(s)].st = "Ready"
         /\ PickNext(s) = None => \A t \in Admitted(s) : s.ent[t].st # "Ready"
<1>1. ReadySet(s) \subseteq Nat
  BY LoneShape DEF ReadySet
<1> QED BY <1>1, PickNextReady, IdAssumption DEF Lone, ReadySet

\* What a decision leaves: A is who is admitted, and whoever slept sleeps on;
\* nobody but the thread that ran is put to sleep.
Settled(d, s, A) ==
  /\ Lone(d.s) /\ Admitted(d.s) = A
  /\ \A u \in A : u # s.running /\ s.ent[u].st = "Blocked" => d.s.ent[u].st = "Blocked" /\ d.s.running # u
Awake(d, s, A) == \A u \in A : s.ent[u].st # "Blocked" => d.s.ent[u].st # "Blocked"

\* Dispatching a thread that does not sleep settles the scheduler.
LEMMA DispatchSettles ==
  ASSUME NEW s, NEW a, Lone(a), a.running = None, NEW n \in Admitted(a), NEW to,
         \A u \in Admitted(a) : u # s.running /\ s.ent[u].st = "Blocked" => a.ent[u].st = "Blocked" /\ u # n,
         \A u \in Admitted(a) : s.ent[u].st # "Blocked" => a.ent[u].st # "Blocked",
         NEW d, d = Decision(Dispatch(a, n), to)
  PROVE  Settled(d, s, Admitted(a)) /\ Awake(d, s, Admitted(a)) /\ d.core = to /\ d.s.running = n
<1>1. PICK r : r = Dispatch(a, n)
  OBVIOUS
<1>2. Lone(r) /\ r.running = n /\ Admitted(r) = Admitted(a) /\ \A u \in Admitted(a) \ {n} : r.ent[u].st = a.ent[u].st
  BY <1>1, DispatchLone DEF SameBut
<1>3. r.ent[n].st = "Running"
  BY <1>2, LoneShape
<1>5. d.s = r /\ d.core = to
  BY <1>1 DEF Decision
<1>6. Settled(d, s, Admitted(a)) /\ Awake(d, s, Admitted(a))
  BY <1>2, <1>3, <1>5 DEF Settled, Awake
<1> QED BY <1>2, <1>5, <1>6

\* A tick; with nobody running it leaves the core alone.
LEMMA PreemptTickSettles ==
  ASSUME NEW s, Lone(s), NEW x \in Nat, NEW w \in Admitted(s), s.ent[w].st # "Blocked"
  PROVE  LET d == PreemptTick(s, s.running, x) IN
         /\ Settled(d, s, Admitted(s)) /\ Awake(d, s, Admitted(s))
         /\ d.s.running # None
         /\ d.core = IF s.running = None THEN None ELSE d.s.running
<1>1. PICK o, a, n : o = s.running /\ a = Account(s, x) /\ n = PickNext(a)
  OBVIOUS
<1>2. /\ Lone(a) /\ a.running = None /\ Admitted(a) = Admitted(s) /\ (o # None => a.ent[o].st = "Ready")
      /\ \A u \in Admitted(s) \ {o} : a.ent[u].st = s.ent[u].st
  BY <1>1, AccountLone DEF SameBut
<1>3. a.ent[w].st = "Ready"
  <2>1. CASE w = o
    BY <1>2, <2>1, LoneShape, IdAssumption
  <2>2. CASE w # o
    <3>1. s.ent[w].st # "Running" /\ s.ent[w] \in Entity
      BY <1>1, <2>2, LoneShape
    <3> QED BY <1>2, <2>2, <3>1 DEF Entity, RunState
  <2> QED BY <2>1, <2>2
<1>4. n \in Admitted(a) /\ a.ent[n].st = "Ready" /\ n # None
  <2>1. w \in Admitted(a)
    BY <1>2
  <2> QED BY <1>1, <1>2, <1>3, <2>1, PickNextLone
<1>5. PICK to : to = IF o = None THEN None ELSE n
  OBVIOUS
<1>6. PreemptTick(s, s.running, x) = Decision(Dispatch(a, n), to)
  <2>1. CASE o # None
    BY <1>1, <1>4, <1>5, <2>1 DEF PreemptTick
  <2>2. CASE o = None
    BY <1>1, <1>4, <1>5, <2>2 DEF PreemptTick
  <2> QED BY <2>1, <2>2
<1>7. \A u \in Admitted(a) : u # s.running /\ s.ent[u].st = "Blocked" => a.ent[u].st = "Blocked" /\ u # n
  BY <1>1, <1>2, <1>4
<1>8. \A u \in Admitted(a) : s.ent[u].st # "Blocked" => a.ent[u].st # "Blocked"
  <2> SUFFICES ASSUME NEW u \in Admitted(a), s.ent[u].st # "Blocked" PROVE a.ent[u].st # "Blocked"
    OBVIOUS
  <2>1. CASE u = o
    <3>1. o # None
      BY <1>2, <2>1, LoneShape, IdAssumption
    <3> QED BY <1>2, <2>1, <3>1
  <2>2. CASE u # o
    BY <1>2, <2>2
  <2> QED BY <2>1, <2>2
<1>9. PICK d : d = Decision(Dispatch(a, n), to)
  OBVIOUS
<1>10. Settled(d, s, Admitted(a)) /\ Awake(d, s, Admitted(a)) /\ d.core = to /\ d.s.running = n
  BY <1>2, <1>4, <1>7, <1>8, <1>9, DispatchSettles
<1> QED BY <1>1, <1>2, <1>4, <1>5, <1>6, <1>9, <1>10

\* With another thread w awake the block is not undone.
LEMMA BlockThreadSettles ==
  ASSUME NEW s, Lone(s), s.running # None, NEW x \in Nat,
         NEW w \in Admitted(s), w # s.running, s.ent[w].st # "Blocked"
  PROVE  LET d == BlockThread(s, s.running, s.running, x) IN
         /\ Lone(d.s) /\ d.core = d.s.running /\ Admitted(d.s) = Admitted(s) /\ d.core # None
         /\ d.core # s.running /\ d.s.ent[s.running].st = "Blocked"
         /\ d.s.ent[w].st # "Blocked"
<1>1. PICK o, a : o = s.running /\ a = Account(s, x)
  OBVIOUS
<1>2. o \in Nat /\ o \in Admitted(s)
  BY <1>1, LoneShape
<1>3. Lone(a) /\ a.running = None /\ Admitted(a) = Admitted(s) /\ a.ent[w].st = s.ent[w].st
  BY <1>1, AccountLone DEF SameBut
<1>4. PICK b, n : b = NoteBlocked(a, o) /\ n = PickNext(b)
  OBVIOUS
<1>5. /\ Lone(b) /\ b.running = None /\ Admitted(b) = Admitted(s) /\ b.ent[o].st = "Blocked"
      /\ b.ent[w].st = s.ent[w].st
  BY <1>1, <1>2, <1>3, <1>4, NoteBlockedLone DEF SameBut
<1>6. b.ent[w].st = "Ready"
  <2>1. s.ent[w].st # "Running" /\ s.ent[w] \in Entity
    BY LoneShape
  <2> QED BY <1>5, <2>1 DEF Entity, RunState
<1>7. n # None /\ n \in Admitted(b) /\ b.ent[n].st = "Ready"
  <2>1. w \in Admitted(b)
    BY <1>5
  <2> QED BY <1>4, <1>5, <1>6, <2>1, PickNextLone
<1>8. PICK r : r = Dispatch(b, n)
  OBVIOUS
<1>9. BlockThread(s, s.running, s.running, x) = Decision(r, n)
  BY <1>1, <1>4, <1>7, <1>8 DEF BlockThread
<1>10. /\ Lone(r) /\ r.running = n /\ Admitted(r) = Admitted(s)
       /\ \A u \in Admitted(s) \ {n} : r.ent[u].st = b.ent[u].st
  BY <1>5, <1>7, <1>8, DispatchLone DEF SameBut
<1>11. r.ent[w].st # "Blocked"
  BY <1>5, <1>6, <1>10, LoneShape
<1> QED BY <1>1, <1>2, <1>5, <1>7, <1>9, <1>10, <1>11 DEF Decision

\* The dying thread is charged and removed, and nobody runs.
LEMMA RetiredLone ==
  ASSUME NEW s, Lone(s), s.running # None, NEW x \in Nat
  PROVE  LET r == Retired(s, s.running, x) IN
         /\ Lone(r) /\ r.running = None /\ Admitted(r) = Admitted(s) \ {s.running}
         /\ \A u \in Admitted(r) : r.ent[u].st = s.ent[u].st
<1>1. PICK o, a : o = s.running /\ a = Account(s, x)
  OBVIOUS
<1>2. o \in Nat /\ o \in Admitted(s)
  BY <1>1, LoneShape
<1>3. /\ Lone(a) /\ a.running = None /\ Admitted(a) = Admitted(s)
      /\ \A u \in Admitted(s) \ {o} : a.ent[u].st = s.ent[u].st
  BY <1>1, AccountLone DEF SameBut
<1>4. PICK r : r = Remove(a, o)
  OBVIOUS
<1>5. /\ Lone(r) /\ r.running = None /\ Admitted(r) = Admitted(s) \ {o}
      /\ \A u \in Admitted(s) \ {o} : r.ent[u].st = a.ent[u].st
  BY <1>2, <1>3, <1>4, RemoveLone
<1>6. Retired(s, s.running, x) = r
  BY <1>1, <1>4 DEF Retired
<1> QED BY <1>1, <1>3, <1>5, <1>6

LEMMA TerminateSettles ==
  ASSUME NEW s, Lone(s), s.running # None, NEW x \in Nat
  PROVE  LET d == TerminateThread(s, s.running, x) A == Admitted(s) \ {s.running} IN
         Settled(d, s, A) /\ Awake(d, s, A) /\ d.core = d.s.running
<1>1. PICK r, n : r = Retired(s, s.running, x) /\ n = PickNext(r)
  OBVIOUS
<1>2. /\ Lone(r) /\ r.running = None /\ Admitted(r) = Admitted(s) \ {s.running}
      /\ \A u \in Admitted(r) : r.ent[u].st = s.ent[u].st
  BY <1>1, RetiredLone
<1>3. PICK d, A : d = TerminateThread(s, s.running, x) /\ A = Admitted(s) \ {s.running}
  OBVIOUS
<1>4. CASE n = None
  <2>1. d.s = r /\ d.core = None
    BY <1>1, <1>3, <1>4 DEF TerminateThread, Decision
  <2>2. None \notin Admitted(s)
    BY LoneShape, IdAssumption
  <2>3. Settled(d, s, A) /\ Awake(d, s, A)
    BY <1>2, <1>3, <2>1, <2>2 DEF Settled, Awake
  <2> QED BY <1>2, <1>3, <2>1, <2>3
<1>5. CASE n # None
  <2>1. n \in Admitted(r) /\ r.ent[n].st = "Ready"
    BY <1>1, <1>2, <1>5, PickNextLone
  <2>2. d = Decision(Dispatch(r, n), n)
    BY <1>1, <1>3, <1>5 DEF TerminateThread
  <2>3. \A u \in Admitted(r) : u # s.running /\ s.ent[u].st = "Blocked" => r.ent[u].st = "Blocked" /\ u # n
    BY <1>2, <2>1
  <2>5. \A u \in Admitted(r) : s.ent[u].st # "Blocked" => r.ent[u].st # "Blocked"
    BY <1>2
  <2>6. Lone(r) /\ r.running = None /\ n \in Admitted(r)
    BY <1>2, <2>1
  <2>4. Settled(d, s, Admitted(r)) /\ Awake(d, s, Admitted(r)) /\ d.core = n /\ d.s.running = n
    BY <2>2, <2>3, <2>5, <2>6, DispatchSettles, SMTT(60)
  <2> QED BY <1>2, <1>3, <2>4
<1> QED BY <1>4, <1>5

LEMMA HandoffSettles ==
  ASSUME NEW s, Lone(s), s.running # None, NEW x \in Nat, NEW to \in Admitted(s), to # s.running
  PROVE  LET d == TerminateAndHandoff(NoteReady(s, to), s.running, to, x) IN
         /\ Lone(d.s) /\ d.core = to /\ d.s.running = to /\ Admitted(d.s) = Admitted(s) \ {s.running}
         /\ Awake(d, s, Admitted(s) \ {s.running})
<1>1. PICK q : q = NoteReady(s, to)
  OBVIOUS
<1>2. to \in Nat
  BY LoneShape
<1>3. /\ Lone(q) /\ q.running = s.running /\ Admitted(q) = Admitted(s)
      /\ \A u \in Admitted(s) \ {to} : q.ent[u].st = s.ent[u].st
  BY <1>1, <1>2, NoteReadyLone DEF SameBut
<1>4. PICK r : r = Retired(q, q.running, x)
  OBVIOUS
<1>5. /\ Lone(r) /\ r.running = None /\ Admitted(r) = Admitted(s) \ {s.running}
      /\ \A u \in Admitted(r) : r.ent[u].st = q.ent[u].st
  BY <1>3, <1>4, RetiredLone
<1>6. TerminateAndHandoff(NoteReady(s, to), s.running, to, x) = Decision(Dispatch(r, to), to)
  BY <1>1, <1>3, <1>4 DEF TerminateAndHandoff
<1>7. PICK f : f = Dispatch(r, to)
  OBVIOUS
<1>8. Lone(f) /\ f.running = to /\ Admitted(f) = Admitted(r) /\ \A u \in Admitted(r) \ {to} : f.ent[u].st = r.ent[u].st
  BY <1>5, <1>7, DispatchLone DEF SameBut
<1>9. f.ent[to].st = "Running"
  BY <1>5, <1>8, LoneShape
<1>10. \A u \in Admitted(r) : s.ent[u].st # "Blocked" => f.ent[u].st # "Blocked"
  BY <1>3, <1>5, <1>8, <1>9
<1> QED BY <1>5, <1>6, <1>7, <1>8, <1>10 DEF Decision, Awake

LEMMA YieldToNewSettles ==
  ASSUME NEW s, Lone(s), s.running # None, NEW x \in Nat, NEW to \in Nat, to \notin Admitted(s),
         NEW w \in Admitted(s), w # s.running, s.ent[w].st # "Blocked"
  PROVE  LET d == YieldToThread(InitUserThread(s, to), s.running, to, x) IN
         /\ Lone(d.s) /\ d.core = to /\ d.s.running = to /\ Admitted(d.s) = Admitted(s) \union {to}
         /\ d.s.ent[s.running].st = "Blocked" /\ d.s.ent[w].st # "Blocked"
<1>1. PICK o, i : o = s.running /\ i = InitUserThread(s, to)
  OBVIOUS
<1>2. o \in Nat /\ o \in Admitted(s) /\ o # to
  BY <1>1, LoneShape
<1>3. Lone(i) /\ i.running = o /\ Admitted(i) = Admitted(s) \union {to} /\ i.ent[w] = s.ent[w]
  BY <1>1, <1>2, InitUserThreadLone
<1>4. PICK a : a = Account(i, x)
  OBVIOUS
<1>5. Lone(a) /\ a.running = None /\ Admitted(a) = Admitted(i) /\ a.ent[w].st = s.ent[w].st
  <2>1. w \in Admitted(i) \ {i.running} /\ i.running = o
    BY <1>1, <1>3
  <2>2. Lone(a) /\ a.running = None /\ Admitted(a) = Admitted(i) /\ \A u \in Admitted(i) \ {i.running} : a.ent[u].st = i.ent[u].st
    BY <1>3, <1>4, AccountLone DEF SameBut
  <2> QED BY <1>3, <2>1, <2>2
<1>6. PICK b : b = NoteBlocked(a, o)
  OBVIOUS
<1>7. /\ Lone(b) /\ b.running = None /\ Admitted(b) = Admitted(i) /\ b.ent[o].st = "Blocked"
      /\ b.ent[w].st = s.ent[w].st
  <2>1. w \in Admitted(a) \ {o} /\ o \in Admitted(a)
    BY <1>1, <1>2, <1>3, <1>5
  <2>2. /\ Lone(b) /\ b.running = None /\ Admitted(b) = Admitted(a) /\ b.ent[o].st = "Blocked"
        /\ \A u \in Admitted(a) \ {o} : b.ent[u].st = a.ent[u].st
    BY <1>2, <1>5, <1>6, <2>1, NoteBlockedLone DEF SameBut
  <2> QED BY <1>3, <1>5, <2>1, <2>2
<1>8. PICK f : f = Dispatch(b, to)
  OBVIOUS
<1>9. Lone(f) /\ f.running = to /\ Admitted(f) = Admitted(b) /\ \A u \in Admitted(b) \ {to} : f.ent[u].st = b.ent[u].st
  BY <1>3, <1>7, <1>8, DispatchLone DEF SameBut
<1>10. YieldToThread(InitUserThread(s, to), s.running, to, x) = Decision(f, to)
  BY <1>1, <1>4, <1>6, <1>8 DEF YieldToThread
<1>11. w \in Admitted(b) /\ w # to /\ o \in Admitted(b)
  BY <1>2, <1>3, <1>7
<1> QED BY <1>1, <1>2, <1>3, <1>7, <1>9, <1>10, <1>11 DEF Decision
-----------------------------------------------------------------------------
LEMMA SpawnedLone ==
  ASSUME NEW s, Lone(s), NEW t \in Nat, t # s.running, NEW ok \in BOOLEAN
  PROVE  /\ Lone(Spawned(s, t, ok)) /\ Spawned(s, t, ok).running = s.running
         /\ Admitted(Spawned(s, t, ok)) = Admitted(s) \union (IF ok THEN {t} ELSE {})
<1>1. CASE ok
  <2>1. Spawned(s, t, ok) = InitUserThread(s, t)
    BY <1>1 DEF Spawned
  <2> QED BY <1>1, <2>1, InitUserThreadLone
<1>2. CASE ~ok
  BY <1>2 DEF Spawned
<1> QED BY <1>1, <1>2

LEMMA StartThreadALone ==
  ASSUME NEW s, Lone(s), s.running = RootTask, NEW a \in Nat, a >= FirstFree
  PROVE  /\ Lone(StartThreadA(s, a)) /\ StartThreadA(s, a).running = a
         /\ Admitted(StartThreadA(s, a)) = (Admitted(s) \union {a}) \ {RootTask, IpcServer}
<1>0. RootTask \in Nat /\ IpcServer \in Nat /\ Fs \in Nat /\ a # RootTask /\ a # IpcServer
  BY BudgetAssumption DEF RootTask, IpcServer, Fs, FirstFree
<1>1. PICK i : i = InitUserThread(s, a)
  OBVIOUS
<1>2. Lone(i) /\ i.running = RootTask /\ Admitted(i) = Admitted(s) \union {a}
  BY <1>0, <1>1, InitUserThreadLone
<1>3. PICK p : p = Remove(i, RootTask)
  OBVIOUS
<1>4. Lone(p) /\ p.running = None /\ Admitted(p) = Admitted(i) \ {RootTask}
  BY <1>0, <1>2, <1>3, RemoveLone
<1>5. PICK q : q = Remove(p, IpcServer)
  OBVIOUS
<1>6. Lone(q) /\ q.running = None /\ Admitted(q) = Admitted(p) \ {IpcServer}
  BY <1>0, <1>4, <1>5, RemoveLone
<1>7. PICK b : b = NoteBlocked(q, Fs)
  OBVIOUS
<1>8. Lone(b) /\ b.running = None /\ Admitted(b) = Admitted(q)
  BY <1>0, <1>6, <1>7, NoteBlockedLone DEF SameBut
<1>9. a \in Admitted(b)
  BY <1>0, <1>2, <1>4, <1>6, <1>8
<1>10. Lone(Dispatch(b, a)) /\ Dispatch(b, a).running = a /\ Admitted(Dispatch(b, a)) = Admitted(b)
  BY <1>8, <1>9, DispatchLone DEF SameBut
<1>11. StartThreadA(s, a) = Dispatch(b, a)
  BY <1>1, <1>3, <1>5, <1>7 DEF StartThreadA, Retire
<1> QED BY <1>2, <1>4, <1>6, <1>8, <1>10, <1>11

\* Everybody who is admitted, and every program there is, has an id within
\* the budget.
LEMMA AdmittedIds ==
  ASSUME CoreKept, PhaseKept
  PROVE  /\ Admitted(pSched) \subseteq Tid /\ pCore \in Tid \union {None} /\ pSched.running \in Tid \union {None}
         /\ pSched.running # None => pSched.running \in Admitted(pSched)
         /\ next \in Nat /\ next \notin Admitted(pSched) /\ FirstFree \in Nat /\ LastTid \in Nat
         /\ Tid \subseteq Nat /\ RootTask \in Tid /\ FirstFree \in Tid /\ FirstFree # RootTask /\ None \notin Tid
<1>1. FirstFree \in Nat /\ LastTid \in Nat /\ next \in Nat /\ next <= LastTid + 1 /\ FirstFree <= LastTid /\ FirstFree >= 4
  BY BudgetAssumption DEF FirstFree, LastTid, PhaseKept
<1>2. Admitted(pSched) \subseteq Tid /\ next \notin Admitted(pSched) /\ Tid \subseteq Nat /\ FirstFree \in Tid
  BY <1>1 DEF CoreKept, Tid
<1>3. pSched.running # None => pSched.running \in Admitted(pSched)
  BY LoneShape DEF CoreKept
<1>4. RootTask \in Tid /\ FirstFree # RootTask
  BY <1>1 DEF RootTask, Tid
<1>5. None \notin Tid
  BY <1>2, IdAssumption
<1> QED BY <1>1, <1>2, <1>3, <1>4, <1>5 DEF CoreKept, StandsFor

\* Loading the context of t, after the core's program went to that of the
\* running thread or was thrown away.
LEMMA LoadKept ==
  ASSUME CoreKept, PhaseKept, hist'.strayed = hist.strayed \/ hist'.strayed = TRUE, NEW t \in Tid \union {None},
         pCore' = Loaded(t), saved' = saved \/ (pSched.running \in Tid /\ pCore \in Tid /\ saved' = [saved EXCEPT ![pSched.running] = pCore])
  PROVE  /\ StandsFor(pCore', t, hist'.strayed) /\ StandsFor(pCore', t, hist.strayed) /\ pCore' \in Tid \union {None}
         /\ saved' \in [Tid -> Tid] /\ \A u \in Tid : StandsFor(saved'[u], u, hist'.strayed)
         /\ \A u \in Tid : u # pSched.running => saved'[u] = saved[u]
<1>1. PICK h, g : h = hist.strayed /\ g = hist'.strayed /\ (h => g)
  OBVIOUS
<1>2. RootTask \in Tid /\ None \notin Tid
  BY AdmittedIds
<1>3. saved \in [Tid -> Tid] /\ \A u \in Tid : StandsFor(saved[u], u, h)
  BY <1>1 DEF CoreKept
<1>4. StandsFor(pCore, pSched.running, h)
  BY <1>1 DEF CoreKept
<1>5. StandsFor(pCore', t, h) /\ pCore' \in Tid \union {None}
  BY <1>2, <1>3 DEF StandsFor, Loaded
<1>6. /\ saved' \in [Tid -> Tid] /\ \A u \in Tid : StandsFor(saved'[u], u, h)
      /\ \A u \in Tid : u # pSched.running => saved'[u] = saved[u]
  BY <1>2, <1>3, <1>4 DEF StandsFor
<1> QED BY <1>1, <1>5, <1>6 DEF StandsFor

\* A step that leaves the requests alone and removes no service.
LEMMA CallsStay ==
  ASSUME SupInv, UNCHANGED calls, NetStack \in Admitted(pSched) => NetStack \in Admitted(pSched')
  PROVE  CallsKept'
  BY DEF SupInv, CallsKept, calls

\* A trap that is not the Root Task's is taken under its own name.
LEMMA OwnName ==
  ASSUME CoreKept, pCore # RootTask
  PROVE  pSched.running = pCore
  BY DEF CoreKept, StandsFor

LEMMA SupInvInit == SupInit => SupInv
<1> SUFFICES ASSUME SupInit PROVE SupInv
  OBVIOUS
<1>0. FirstFree \in Nat /\ FirstFree >= 4 /\ LastTid \in Nat /\ FirstFree <= LastTid
  BY BudgetAssumption DEF FirstFree, LastTid
<1>1. PICK net \in BOOLEAN, rest \in [{Fs} \union Service -> {"Ready", "Blocked"}],
           v \in [{B} \union Service -> 0 .. MaxRunSlice] :
       /\ pSched = [ent |-> [t \in (0 .. FirstFree - 1) \ RetiredByNet(net) |-> LeftByDemos(t, rest, v)],
                    grp |-> <<>>, running |-> RootTask]
       /\ exited = RetiredByNet(net)
       /\ asked \in IF net /\ rest[NetDriver] = "Ready" THEN 0 .. MaxAsked ELSE {0}
       /\ owed = (asked > 0 /\ rest[NetStack] = "Blocked")
  BY DEF SupInit
<1>2. PICK E : E = pSched.ent
  OBVIOUS
<1>3. PICK T : T = (0 .. FirstFree - 1) \ RetiredByNet(net)
  OBVIOUS
<1>4. T \subseteq 0 .. FirstFree - 1 /\ T \subseteq Nat /\ RootTask \in T /\ exited \subseteq Tid
  <2>1. RetiredByNet(net) \subseteq {1, 2}
    BY DEF RetiredByNet, B, IpcServer
  <2>2. 1 \in Tid /\ 2 \in Tid
    BY <1>0 DEF Tid
  <2>3. RootTask = 0 /\ 0 \in 0 .. FirstFree - 1
    BY <1>0 DEF RootTask
  <2>4. RootTask \notin RetiredByNet(net)
    BY <2>1, <2>3
  <2> QED BY <1>0, <1>1, <1>3, <2>1, <2>2, <2>3, <2>4
<1>5. PICK e : e = SchedEntity("Interactive", MaxPriority)
  OBVIOUS
<1>6. e = [mode |-> "Interactive", base |-> 2, eff |-> 2, st |-> "Blocked", vruntime |-> 0, group |-> None]
  BY <1>5 DEF SchedEntity, MaxPriority
<1>7. ASSUME NEW t \in T
      PROVE  E[t] \in Entity /\ E[t].group = None /\ (E[t].st = "Running" <=> t = RootTask)
  <2>1. PICK w : w = CASE t = RootTask -> "Running"
                       [] t \in {Fs} \union Service -> rest[t]
                       [] OTHER -> "Ready"
    OBVIOUS
  <2>2. PICK y : y = IF t \in {B} \union Service THEN v[t] ELSE MaxRunSlice
    OBVIOUS
  <2>3. y \in Nat
    BY <2>2, BudgetAssumption
  <2>0. RootTask \notin {Fs} \union Service
    BY <1>0 DEF RootTask, Fs, Service
  <2>4. w \in RunState /\ (w = "Running" <=> t = RootTask)
    <3>1. CASE t = RootTask
      BY <2>0, <2>1, <3>1 DEF RunState
    <3>2. CASE t \in {Fs} \union Service
      <4>1. t # RootTask /\ rest[t] \in {"Ready", "Blocked"}
        BY <2>0, <3>2
      <4> QED BY <2>1, <3>2, <4>1 DEF RunState
    <3>3. CASE t \notin {Fs} \union Service /\ t # RootTask
      BY <2>1, <3>3 DEF RunState
    <3> QED BY <3>1, <3>2, <3>3
  <2>5. E[t] = [e EXCEPT !.st = w, !.vruntime = y]
    BY <1>1, <1>2, <1>3, <1>5, <2>1, <2>2 DEF LeftByDemos
  <2>6. E[t] = [mode |-> "Interactive", base |-> 2, eff |-> 2, st |-> w, vruntime |-> y, group |-> None]
    BY <1>6, <2>5
  <2> QED BY <2>3, <2>4, <2>6 DEF Entity, MaxPriority
<1>8. DOMAIN E = T /\ E = [t \in T |-> E[t]] /\ pSched = [ent |-> E, grp |-> <<>>, running |-> RootTask]
  BY <1>1, <1>2, <1>3
<1>9. DOMAIN <<>> = {}
  OBVIOUS
<1>10. Made(pSched, E, <<>>, RootTask)
  <2>1. E \in [DOMAIN E -> Entity]
    BY <1>7, <1>8
  <2>2. <<>> \in [DOMAIN <<>> -> ChainGroup]
    BY <1>9
  <2>3. \A t \in DOMAIN E, g \in Group : E[t].group = g <=> InGroup(<<>>, t, g)
    BY <1>7, <1>8, <1>9, SchedAssumption DEF InGroup
  <2>4. \A t \in DOMAIN E : E[t].st = "Running" <=> t = RootTask
    BY <1>7, <1>8
  <2> QED BY <1>4, <1>8, <1>9, <2>1, <2>2, <2>3, <2>4 DEF Made
<1>11. CoreKept
  <2>1. Lone(pSched) /\ pSched.running = RootTask /\ Admitted(pSched) = T
    BY <1>2, <1>8, <1>9, <1>10, MadeIsSane DEF Lone, Admitted
  <2>2. pCore = RootTask /\ next = FirstFree /\ saved = [t \in Tid |-> t]
    BY DEF SupInit
  <2> QED BY <1>4, <2>1, <2>2 DEF CoreKept, StandsFor
<1>12. PhaseKept
  <2>1. FirstFree \in FirstFree .. LastTid + 1 /\ 0 \in 0 .. TickBudget /\ 0 <= RestartBudget + 0
    BY <1>0, BudgetAssumption
  <2>2. policy = [state |-> "Starting", restarts |-> 0, lifetime |-> 0]
        /\ hist = [crashes |-> 0, faults |-> 0, refused |-> FALSE, strayed |-> FALSE, ran |-> {}]
    BY DEF SupInit, NewSupervised
  <2>3. /\ pCore = RootTask /\ next = FirstFree /\ phase = "cooperative" /\ ticks = 0
        /\ pending = FALSE /\ dmPc = "unborn"
    BY DEF SupInit
  <2>4. policy \in [state : {"Starting", "Running", "Restarting", "Failed"}, restarts : Nat, lifetime : Nat]
        /\ policy.restarts = 0 /\ policy.lifetime = 0
    BY <2>2
  <2>5. hist \in History /\ hist.crashes = 0 /\ ~hist.strayed
    BY <2>2 DEF History
  <2>6. RestartBudget + (IF dmPc = "spinning" THEN 1 ELSE 0) = RestartBudget
    BY <2>3, BudgetAssumption
  <2>7. pSched.running = RootTask
    BY <1>1
  <2> QED BY <1>4, <2>1, <2>3, <2>4, <2>5, <2>6, <2>7, BudgetAssumption DEF PhaseKept, DmPlace
<1>13. ManagerKept /\ CrashKept /\ ProcsKept
  BY DEF ManagerKept, CrashKept, ProcsKept, Watching, SupInit
<1>14. CallsKept
  <2>1. asked \in 0 .. MaxAsked /\ owed \in BOOLEAN
    BY <1>1, BudgetAssumption
  <2>2. 5 \in 0 .. FirstFree - 1 /\ NetStack = 5 /\ 5 \notin {1, 2}
    BY BudgetAssumption DEF FirstFree, NetStack
  <2>3. RetiredByNet(net) \subseteq {1, 2}
    BY DEF RetiredByNet, B, IpcServer
  <2>4. NetStack \in T
    BY <1>3, <2>2, <2>3
  <2> QED BY <1>2, <1>8, <2>1, <2>4 DEF CallsKept, Admitted
<1> QED BY <1>11, <1>12, <1>13, <1>14 DEF SupInv

LEMMA PreemptStartKeeps ==
  ASSUME SupInv, PreemptStart
  PROVE  SupInv'
<1>0. /\ next = FirstFree /\ pCore = RootTask /\ dmPc = "unborn" /\ ~pending /\ phase = "cooperative"
      /\ hist.crashes = 0 /\ policy.lifetime = 0 /\ hist.strayed = FALSE /\ pSched.running = RootTask
      /\ CoreKept /\ PhaseKept
  BY DEF SupInv, PhaseKept, PreemptStart, History
<1>1. Lone(pSched) /\ Admitted(pSched) \subseteq 0 .. FirstFree - 1
      /\ saved \in [Tid -> Tid] /\ \A t \in Tid : saved[t] = t
  BY <1>0 DEF CoreKept, StandsFor
<1>2. PICK ok \in [{"dm", "driver", "c", "a"} -> BOOLEAN] :
       LET one(x)  == IF ok[x] THEN 1 ELSE 0
           driver  == next + one("dm")
           c       == driver + one("driver")
           a       == c + one("c")
           spawned == Spawned(Spawned(Spawned(pSched, next, ok["dm"]), driver, ok["driver"]), c, ok["c"])
       IN  /\ next' = a + one("a")
           /\ dmTid'   = (IF ok["dm"] THEN next ELSE None)
           /\ watched' = (IF ok["driver"] THEN driver ELSE None)
           /\ procC'   = (IF ok["c"] THEN c ELSE None)
           /\ procA'   = (IF ok["a"] THEN a ELSE None)
           /\ dmPc' = (IF ok["dm"] THEN "starting" ELSE dmPc)
           /\ pSched' = (IF ok["a"] THEN StartThreadA(spawned, a) ELSE spawned)
           /\ pCore' = (IF ok["a"] THEN saved[a] ELSE pCore)
           /\ saved' = (IF ok["a"] THEN [saved EXCEPT ![RootTask] = pCore] ELSE saved)
           /\ exited' = (IF ok["a"] THEN exited \union {RootTask, IpcServer} ELSE exited)
           /\ phase' = (IF ok["a"] THEN "preemptive" ELSE "skipped")
           /\ hist' = [hist EXCEPT !.refused = \E k \in DOMAIN ok : ~ok[k], !.ran = Ran(pCore')]
           /\ UNCHANGED <<ticks, pending, policy, calls>>
  BY DEF PreemptStart
<1>3. PICK w, x, y, z \in {0, 1} :
        /\ w = (IF ok["dm"] THEN 1 ELSE 0) /\ x = (IF ok["driver"] THEN 1 ELSE 0)
        /\ y = (IF ok["c"] THEN 1 ELSE 0) /\ z = (IF ok["a"] THEN 1 ELSE 0)
  <2>1. (IF ok["dm"] THEN 1 ELSE 0) \in {0, 1} /\ (IF ok["driver"] THEN 1 ELSE 0) \in {0, 1}
        /\ (IF ok["c"] THEN 1 ELSE 0) \in {0, 1} /\ (IF ok["a"] THEN 1 ELSE 0) \in {0, 1}
    OBVIOUS
  <2> QED BY <2>1
<1>F. FirstFree \in Nat /\ FirstFree >= 4 /\ LastTid = FirstFree + 3 + RestartBudget /\ RestartBudget \in Nat
  BY BudgetAssumption DEF FirstFree, LastTid
<1>4. PICK d, c, a \in Nat : d = FirstFree + w /\ c = FirstFree + w + x /\ a = FirstFree + w + x + y
  BY <1>F
<1>5. PICK s1, s2, s3 : s1 = Spawned(pSched, FirstFree, ok["dm"]) /\ s2 = Spawned(s1, d, ok["driver"])
                        /\ s3 = Spawned(s2, c, ok["c"])
  OBVIOUS
<1>6. /\ next' = a + z
      /\ dmTid'   = (IF ok["dm"] THEN FirstFree ELSE None)
      /\ watched' = (IF ok["driver"] THEN d ELSE None)
      /\ procC'   = (IF ok["c"] THEN c ELSE None)
      /\ procA'   = (IF ok["a"] THEN a ELSE None)
      /\ dmPc' = (IF ok["dm"] THEN "starting" ELSE "unborn")
      /\ pSched' = (IF ok["a"] THEN StartThreadA(s3, a) ELSE s3)
      /\ pCore' = (IF ok["a"] THEN saved[a] ELSE RootTask)
      /\ saved' = (IF ok["a"] THEN [saved EXCEPT ![RootTask] = RootTask] ELSE saved)
  BY <1>0, <1>2, <1>3, <1>4, <1>5
<1>7. /\ exited' = (IF ok["a"] THEN exited \union {RootTask, IpcServer} ELSE exited)
      /\ phase' = (IF ok["a"] THEN "preemptive" ELSE "skipped")
      /\ hist' = [hist EXCEPT !.refused = \E k \in DOMAIN ok : ~ok[k], !.ran = Ran(pCore')]
      /\ UNCHANGED <<ticks, pending, policy>> /\ UNCHANGED calls
  BY <1>2
<1>8. /\ FirstFree # RootTask /\ RootTask \in Nat /\ d # RootTask /\ c # RootTask
      /\ FirstFree <= d /\ FirstFree <= c /\ FirstFree <= a /\ a >= FirstFree
      /\ a <= FirstFree + 3 /\ a \in Tid /\ RootTask \in Tid /\ IpcServer \in Tid
  BY <1>3, <1>4, <1>F DEF RootTask, Tid, IpcServer
<1>9. ok["dm"] \in BOOLEAN /\ ok["driver"] \in BOOLEAN /\ ok["c"] \in BOOLEAN /\ ok["a"] \in BOOLEAN
  OBVIOUS
<1>10. Lone(s1) /\ s1.running = RootTask /\ Admitted(s1) = Admitted(pSched) \union (IF ok["dm"] THEN {FirstFree} ELSE {})
  BY <1>0, <1>1, <1>5, <1>8, <1>9, <1>F, SpawnedLone
<1>11. Lone(s2) /\ s2.running = RootTask /\ Admitted(s2) = Admitted(s1) \union (IF ok["driver"] THEN {d} ELSE {})
  BY <1>5, <1>8, <1>9, <1>10, SpawnedLone
<1>12. Lone(s3) /\ s3.running = RootTask /\ Admitted(s3) = Admitted(s2) \union (IF ok["c"] THEN {c} ELSE {})
  BY <1>5, <1>8, <1>9, <1>11, SpawnedLone
<1>13. /\ Lone(pSched') /\ pCore' = pSched'.running
       /\ Admitted(pSched') \subseteq Admitted(s3) \union (IF ok["a"] THEN {a} ELSE {})
       /\ Admitted(s3) \ {RootTask, IpcServer} \subseteq Admitted(pSched')
       /\ ok["a"] => pSched'.running = a /\ RootTask \notin Admitted(pSched')
       /\ ~ok["a"] => pSched'.running = RootTask
  <2>1. CASE ok["a"]
    <3>1. /\ Lone(StartThreadA(s3, a)) /\ StartThreadA(s3, a).running = a
          /\ Admitted(StartThreadA(s3, a)) = (Admitted(s3) \union {a}) \ {RootTask, IpcServer}
      BY <1>8, <1>12, StartThreadALone
    <3>2. saved[a] = a
      BY <1>1, <1>8
    <3> QED BY <1>6, <2>1, <3>1, <3>2
  <2>2. CASE ~ok["a"]
    BY <1>6, <1>12, <2>2
  <2> QED BY <2>1, <2>2
<1>S. saved' \in [Tid -> Tid] /\ \A t \in Tid : saved'[t] = t
  BY <1>1, <1>6, <1>8
<1>14. CoreKept'
  <2>1. Admitted(pSched') \subseteq 0 .. next' - 1
    <3>1. Admitted(pSched) \subseteq 0 .. a + z - 1
      BY <1>1, <1>3, <1>4, <1>8, <1>F
    <3>2. (IF ok["dm"] THEN {FirstFree} ELSE {}) \subseteq 0 .. a + z - 1
      BY <1>3, <1>4, <1>8, <1>F
    <3>3. (IF ok["driver"] THEN {d} ELSE {}) \subseteq 0 .. a + z - 1
      BY <1>3, <1>4, <1>8, <1>F
    <3>4. (IF ok["c"] THEN {c} ELSE {}) \subseteq 0 .. a + z - 1
      BY <1>3, <1>4, <1>8, <1>F
    <3>5. (IF ok["a"] THEN {a} ELSE {}) \subseteq 0 .. a + z - 1
      BY <1>3, <1>4, <1>8, <1>F
    <3> QED BY <1>6, <1>10, <1>11, <1>12, <1>13, <3>1, <3>2, <3>3, <3>4, <3>5
  <2> QED BY <1>13, <1>S, <2>1 DEF CoreKept, StandsFor
<1>15. PhaseKept'
  <2>1. next' \in FirstFree .. LastTid + 1
    BY <1>3, <1>4, <1>6, <1>8, <1>F
  <2>2. exited' \subseteq Tid /\ pCore' \in Tid
    BY <1>0, <1>1, <1>6, <1>7, <1>8 DEF PhaseKept
  <2>3. hist' \in History /\ hist'.strayed = FALSE
    <3>1. Ran(pCore') \subseteq Tid
      BY <1>0, <2>2 DEF Ran, PhaseKept, History
    <3>2. PICK q, R : q = (\E k \in DOMAIN ok : ~ok[k]) /\ R = Ran(pCore')
      OBVIOUS
    <3>3. hist' = [hist EXCEPT !.refused = q, !.ran = R] /\ q \in BOOLEAN
      BY <1>7, <3>2
    <3> QED BY <1>0, <3>1, <3>2, <3>3 DEF PhaseKept, History
  <2>4. phase' \in {"preemptive", "skipped"} /\ dmPc' \in DmPlace /\ dmPc' # "spinning" /\ dmPc # "spinning"
        /\ (phase' = "skipped" => pCore' = RootTask /\ pSched'.running = RootTask)
    BY <1>0, <1>6, <1>7, <1>9, <1>13 DEF DmPlace
  <2> QED BY <1>0, <1>7, <2>1, <2>2, <2>3, <2>4 DEF PhaseKept
<1>P. ProcsKept'
  <2>1. watched' \in {None} \union FirstFree .. next' - 1 /\ procC' \in {None} \union FirstFree .. next' - 1
    BY <1>3, <1>4, <1>6, <1>8, <1>F
  <2>2. ok["a"] => /\ a \in Admitted(pSched') /\ a \notin {watched', procC'} /\ (ok["dm"] => a # FirstFree)
                   /\ pSched'.ent[a].st = "Running"
    <3>1. a # None
      BY <1>4, IdAssumption
    <3>2. (ok["driver"] => a # d) /\ (ok["c"] => a # c) /\ (ok["dm"] => a # FirstFree)
      BY <1>3, <1>4, <1>F
    <3>3. ok["a"] => a \in Admitted(pSched') /\ pSched'.ent[a].st = "Running"
      BY <1>13, <3>1, LoneShape
    <3> QED BY <1>6, <3>1, <3>2, <3>3
  <2>3. phase' \in {"preemptive", "over"} => ok["a"]
    BY <1>7
  <2>4. watched' # None => watched' # procC'
    BY <1>3, <1>4, <1>6, <1>8, <1>F, IdAssumption
  <2>5. ok["a"] => /\ procA' \in Admitted(pSched') /\ procA' \notin {watched', procC'} /\ procA' >= FirstFree
                   /\ pSched'.ent[procA'].st # "Blocked" /\ RootTask \notin Admitted(pSched')
                   /\ dmPc' # "unborn" => procA' # FirstFree
    <3>1. ok["a"] => procA' = a
      BY <1>6
    <3> QED BY <1>6, <1>8, <1>13, <2>2, <3>1
  <2> QED BY <2>1, <2>3, <2>4, <2>5 DEF ProcsKept
<1>16. ManagerKept'
  <2>1. ok["dm"] => d # FirstFree /\ c # FirstFree /\ FirstFree \in Admitted(pSched')
    <3>1. ok["dm"] => d # FirstFree /\ c # FirstFree
      BY <1>3, <1>4, <1>8, <1>F
    <3>2. FirstFree \notin {RootTask, IpcServer}
      BY <1>F DEF RootTask, IpcServer
    <3> QED BY <1>10, <1>11, <1>12, <1>13, <3>1, <3>2
  <2>2. None # FirstFree
    BY <1>F, IdAssumption
  <2>3. saved'[FirstFree] = FirstFree
    <3>1. FirstFree \in Tid
      BY <1>F DEF Tid
    <3> QED BY <1>S, <3>1
  <2> QED BY <1>6, <2>1, <2>2, <2>3 DEF ManagerKept, Watching
<1>17. CrashKept'
  <2>1. hist'.crashes = 0 /\ policy' = policy /\ pending' = pending
    BY <1>0, <1>7 DEF PhaseKept, History
  <2> QED BY <1>0, <1>6, <2>1 DEF CrashKept
<1>18. CallsKept'
  <2>1. NetStack \notin {RootTask, IpcServer}
    BY DEF NetStack, RootTask, IpcServer
  <2>2. NetStack \in Admitted(pSched) => NetStack \in Admitted(pSched')
    BY <1>10, <1>11, <1>12, <1>13, <2>1
  <2> QED BY <1>7, <2>2, CallsStay
<1> QED BY <1>14, <1>15, <1>16, <1>17, <1>18, <1>P DEF SupInv

LEMMA TickEndsKeeps ==
  ASSUME SupInv, TickEnds
  PROVE  SupInv'
<1>1. /\ UNCHANGED <<pSched, pCore, saved, next, exited, kernel, dm, hist>> /\ ticks' = TickBudget /\ phase' = "over"
      /\ phase = "preemptive" /\ UNCHANGED calls
  BY DEF TickEnds
<1>2. CoreKept' /\ ManagerKept' /\ CrashKept' /\ ProcsKept'
  BY <1>1 DEF SupInv, CoreKept, ManagerKept, CrashKept, ProcsKept, StandsFor, Watching, kernel, dm
<1>3. PhaseKept'
  BY <1>1, BudgetAssumption DEF SupInv, PhaseKept, kernel, dm
<1>4. CallsKept'
  BY <1>1, CallsStay
<1> QED BY <1>2, <1>3, <1>4 DEF SupInv

\* hist with the core's new program in ran.
LEMMA RanKept ==
  ASSUME PhaseKept, None \notin Tid, NEW k \in Tid \union {None},
         hist' = [hist EXCEPT !.ran = Ran(k)]
  PROVE  hist' \in History /\ hist'.crashes = hist.crashes /\ hist'.strayed = hist.strayed
<1>1. PICK R : R = Ran(k)
  OBVIOUS
<1>2. R \subseteq Tid
  BY <1>1 DEF PhaseKept, History, Ran
<1> QED BY <1>1, <1>2 DEF PhaseKept, History

\* The same for a fault: one of the counts goes up by one.
LEMMA CrashRanKept ==
  ASSUME PhaseKept, None \notin Tid, NEW k \in Tid \union {None},
         hist' = [hist EXCEPT !.crashes = @ + 1, !.ran = Ran(k)]
  PROVE  hist' \in History /\ hist'.crashes = hist.crashes + 1 /\ hist'.strayed = hist.strayed
<1>1. PICK R : R = Ran(k)
  OBVIOUS
<1>2. PICK n : n = hist.crashes + 1
  OBVIOUS
<1>3. hist \in History /\ R \subseteq Tid /\ n \in Nat
  BY <1>1, <1>2 DEF PhaseKept, History, Ran
<1>4. hist' = [crashes |-> n, faults |-> hist.faults, refused |-> hist.refused, strayed |-> hist.strayed, ran |-> R]
  BY <1>1, <1>2, <1>3 DEF History
<1> QED BY <1>2, <1>3, <1>4 DEF History

LEMMA FaultRanKept ==
  ASSUME PhaseKept, None \notin Tid, NEW k \in Tid \union {None},
         hist' = [hist EXCEPT !.faults = @ + 1, !.ran = Ran(k)]
  PROVE  hist' \in History /\ hist'.crashes = hist.crashes /\ hist'.strayed = hist.strayed
<1>1. PICK R : R = Ran(k)
  OBVIOUS
<1>2. PICK n : n = hist.faults + 1
  OBVIOUS
<1>3. hist \in History /\ R \subseteq Tid /\ n \in Nat
  BY <1>1, <1>2 DEF PhaseKept, History, Ran
<1>4. hist' = [crashes |-> hist.crashes, faults |-> n, refused |-> hist.refused, strayed |-> hist.strayed, ran |-> R]
  BY <1>1, <1>2, <1>3 DEF History
<1> QED BY <1>3, <1>4 DEF History

LEMMA TickSwitchesKeeps ==
  ASSUME SupInv, TickSwitches
  PROVE  SupInv'
<1>0. CoreKept /\ PhaseKept /\ ProcsKept /\ ManagerKept /\ CrashKept
  BY DEF SupInv
<1>1. PICK x \in RunSlice : Switch(PreemptTick(pSched, pSched.running, x))
  BY DEF TickSwitches
<1>2. x \in Nat
  BY BudgetAssumption DEF RunSlice
<1>3. /\ Lone(pSched) /\ phase = "preemptive" /\ pCore # None
      /\ procA \in Admitted(pSched) /\ pSched.ent[procA].st # "Blocked" /\ RootTask \notin Admitted(pSched)
  BY <1>0 DEF CoreKept, TickSwitches, ProcsKept
<1>I. /\ Admitted(pSched) \subseteq Tid /\ pCore \in Tid /\ pSched.running \in Tid \union {None}
      /\ pSched.running # None => pSched.running \in Admitted(pSched)
      /\ FirstFree \in Tid /\ FirstFree # RootTask /\ None \notin Tid
  BY <1>0, <1>3, AdmittedIds
<1>4. PICK d : d = PreemptTick(pSched, pSched.running, x)
  OBVIOUS
<1>5. /\ Settled(d, pSched, Admitted(pSched)) /\ Awake(d, pSched, Admitted(pSched)) /\ d.s.running # None
      /\ d.core = IF pSched.running = None THEN None ELSE d.s.running
  BY <1>2, <1>3, <1>4, PreemptTickSettles
<1>6. Switch(d) /\ hist' = [hist EXCEPT !.ran = Ran(pCore')]
  BY <1>1, <1>4 DEF TickSwitches
<1>7. UNCHANGED <<next, exited, phase, kernel, dm>> /\ UNCHANGED calls /\ ticks' = ticks + 1 /\ ticks + 1 < TickBudget /\ ~TickSpares
  BY DEF TickSwitches
<1>H. hist'.strayed = hist.strayed
  BY <1>0, <1>6 DEF PhaseKept, History
<1>R. Lone(d.s) /\ Admitted(d.s) = Admitted(pSched) /\ d.s.running \in Admitted(pSched)
  BY <1>5, LoneShape DEF Settled
<1>C. /\ pSched' = d.s /\ pCore' \in Tid /\ StandsFor(pCore', d.s.running, hist'.strayed)
      /\ saved' \in [Tid -> Tid] /\ \A u \in Tid : StandsFor(saved'[u], u, hist'.strayed)
      /\ \A u \in Tid : u # pSched.running => saved'[u] = saved[u]
      /\ pCore' \in {pCore, d.s.running, RootTask}
  <2>1. CASE d.core = pSched.running /\ UNCHANGED <<pCore, saved>>
    <3>1. StandsFor(pCore', d.s.running, hist'.strayed)
      <4>1. CASE pSched.running = None
        BY <1>0, <1>3, <1>H, <2>1, <4>1 DEF CoreKept, StandsFor
      <4>2. CASE pSched.running # None
        BY <1>0, <1>5, <1>6, <1>H, <2>1, <4>2 DEF CoreKept, StandsFor, Switch
      <4> QED BY <4>1, <4>2
    <3> QED BY <1>0, <1>6, <1>H, <1>I, <2>1, <3>1 DEF CoreKept, StandsFor, Switch
  <2>2. CASE /\ d.core # pSched.running
             /\ pCore' = Loaded(d.core) /\ saved' = [saved EXCEPT ![pSched.running] = pCore]
    <3>1. pSched.running # None /\ d.core = d.s.running /\ d.core \in Tid
      BY <1>5, <1>I, <1>R, <2>2
    <3>2. PICK t \in Tid \union {None} : t = d.core
      BY <3>1
    <3>3. /\ StandsFor(pCore', t, hist'.strayed) /\ StandsFor(pCore', t, hist.strayed) /\ pCore' \in Tid \union {None}
          /\ saved' \in [Tid -> Tid] /\ \A u \in Tid : StandsFor(saved'[u], u, hist'.strayed)
          /\ \A u \in Tid : u # pSched.running => saved'[u] = saved[u]
      BY <1>0, <1>H, <1>I, <2>2, <3>1, <3>2, LoadKept
    <3>4. pSched' = d.s /\ t = d.s.running
      BY <1>6, <3>1, <3>2 DEF Switch
    <3>5. pCore' # None /\ pCore' \in {d.s.running, RootTask}
      BY <1>I, <3>1, <3>2, <3>3, <3>4, AdmittedIds, <1>0 DEF StandsFor
    <3> QED BY <3>3, <3>4, <3>5
  <2> QED BY <1>6, <2>1, <2>2 DEF Switch
<1>8. CoreKept'
  <2>1. next' = next /\ StandsFor(pCore', pSched'.running, hist'.strayed)
    BY <1>7, <1>C DEF StandsFor
  <2> QED BY <1>0, <1>C, <1>R, <2>1 DEF CoreKept
<1>10. hist' \in History /\ hist'.crashes = hist.crashes
  BY <1>0, <1>6, <1>C, <1>I, RanKept
<1>11. PhaseKept'
  <2>1. ticks' \in 0 .. TickBudget
    BY <1>0, <1>7, BudgetAssumption DEF PhaseKept
  <2> QED BY <1>0, <1>3, <1>7, <1>10, <2>1 DEF PhaseKept, kernel, dm
<1>P. ProcsKept'
  <2>1. pSched'.ent[procA].st # "Blocked"
    BY <1>3, <1>5, <1>C DEF Awake
  <2> QED BY <1>0, <1>3, <1>7, <1>C, <1>R, <2>1 DEF ProcsKept, kernel, dm
<1>W. Watching => pSched.running # FirstFree
  BY <1>0, <1>7, <1>I DEF TickSpares, ManagerKept
<1>12. ManagerKept'
  BY <1>0, <1>7, <1>C, <1>I, <1>R, <1>W DEF ManagerKept, Watching, kernel, dm
<1>13. CrashKept'
  <2>1. Watching => pCore # FirstFree
    BY <1>0, <1>I, <1>W, OwnName
  <2>2. Admitted(pSched') = Admitted(pSched) /\ dmPc' = dmPc /\ policy' = policy /\ pending' = pending /\ watched' = watched
    BY <1>7, <1>C, <1>R DEF kernel, dm
  <2>3. dmPc \in {"waiting", "woken"} => FirstFree \in Admitted(pSched) /\ pCore # FirstFree /\ pSched.running # FirstFree
    BY <1>0, <1>W, <2>1 DEF ManagerKept, Watching
  <2>4. dmPc \in {"waiting", "woken"} /\ pSched.ent[FirstFree].st = "Blocked" =>
          pSched'.ent[FirstFree].st = "Blocked" /\ pCore' # FirstFree
    BY <1>5, <1>C, <1>I, <2>3 DEF Settled
  <2>5. dmPc # "respawning"
    BY <1>0, <2>1 DEF CrashKept, Watching
  <2>6. ~pending \/ dmPc = "unborn"
    BY <1>0, <2>1 DEF CrashKept, Watching
  <2> QED BY <1>0, <1>10, <2>1, <2>2, <2>3, <2>4, <2>5, <2>6 DEF CrashKept
<1>14. CallsKept'
  BY <1>7, <1>C, <1>R, CallsStay
<1> QED BY <1>8, <1>11, <1>12, <1>13, <1>14, <1>P DEF SupInv

\* IPC_RECV of a service, with process A ready: the core strays.
LEMMA ServiceParksKeeps ==
  ASSUME SupInv, ServiceParks
  PROVE  SupInv'
<1>0. CoreKept /\ PhaseKept /\ ProcsKept /\ ManagerKept /\ CrashKept
  BY DEF SupInv
<1>1. /\ Admitted(pSched) \subseteq Tid /\ pCore \in Tid \union {None} /\ pSched.running \in Tid \union {None}
      /\ pSched.running # None => pSched.running \in Admitted(pSched)
      /\ FirstFree \in Nat /\ Tid \subseteq Nat /\ RootTask \in Tid /\ FirstFree \in Tid /\ FirstFree # RootTask
      /\ None \notin Tid
  BY <1>0, AdmittedIds
<1>2. /\ pCore \in Service /\ pSched.running = pCore /\ UNCHANGED <<next, exited, phase, ticks, kernel, dm>>
      /\ asked' = asked /\ owed' = (owed /\ pCore # NetStack)
  BY DEF ServiceParks, ServiceTraps
<1>3. pCore \in Nat /\ pCore # RootTask /\ pCore # FirstFree /\ pCore < FirstFree
  BY <1>1, <1>2 DEF Service, RootTask
<1>4. phase \in {"preemptive", "over"}
  BY <1>0, <1>3 DEF PhaseKept
<1>5. /\ procA \in Admitted(pSched) /\ pSched.ent[procA].st # "Blocked" /\ procA # pCore /\ RootTask \notin Admitted(pSched)
  <2>1. procA \in Admitted(pSched) /\ procA >= FirstFree
    BY <1>0, <1>4 DEF ProcsKept
  <2>2. procA # pCore
    BY <1>1, <1>3, <2>1
  <2> QED BY <1>0, <1>4, <2>2 DEF ProcsKept
<1>6. PICK b : b = NoteBlocked(pSched, pCore)
  OBVIOUS
<1>7. /\ Lone(b) /\ b.running = None /\ Admitted(b) = Admitted(pSched)
      /\ \A u \in Admitted(pSched) \ {pCore} : b.ent[u].st = pSched.ent[u].st
  BY <1>0, <1>2, <1>3, <1>6, NoteBlockedLone DEF CoreKept, SameBut
<1>8. PickNext(b) # None
  <2>1. procA \in Admitted(b) /\ b.ent[procA] \in Entity /\ b.ent[procA].st # "Running" /\ b.ent[procA].st # "Blocked"
    <3>1. procA # None
      BY <1>1, <1>5
    <3> QED BY <1>5, <1>7, <3>1, LoneShape
  <2>2. b.ent[procA].st = "Ready"
    BY <2>1 DEF Entity, RunState
  <2> QED BY <1>7, <2>1, <2>2, PickNextLone
<1>9. /\ pSched' = Dispatch(b, RootTask) /\ pCore' = Loaded(RootTask)
      /\ saved' = [saved EXCEPT ![pSched.running] = pCore] /\ hist' = [hist EXCEPT !.strayed = TRUE]
  <2>1. IF PickNext(b) = None
        THEN pSched' = b /\ UNCHANGED <<pCore, saved, hist>>
        ELSE /\ pSched' = Dispatch(b, RootTask)
             /\ pCore' = Loaded(RootTask) /\ saved' = [saved EXCEPT ![pSched.running] = pCore]
             /\ hist' = [hist EXCEPT !.strayed = TRUE]
    BY <1>6 DEF ServiceParks
  <2> QED BY <1>8, <2>1
<1>10. pSched' = b
  BY <1>5, <1>7, <1>9 DEF Dispatch
<1>11. hist' \in History /\ hist'.crashes = hist.crashes /\ hist'.strayed = TRUE
  BY <1>0, <1>9 DEF PhaseKept, History
<1>12. /\ StandsFor(pCore', RootTask, hist'.strayed) /\ saved' \in [Tid -> Tid] /\ \A u \in Tid : StandsFor(saved'[u], u, hist'.strayed)
       /\ \A u \in Tid : u # pSched.running => saved'[u] = saved[u]
  <2>1. pSched.running \in Tid /\ pCore \in Tid
    BY <1>1, <1>2, <1>3, IdAssumption
  <2>2. pCore' = Loaded(RootTask) /\ saved' = [saved EXCEPT ![pSched.running] = pCore] /\ hist'.strayed = TRUE
    BY <1>9, <1>11
  <2>3. RootTask \in Tid \union {None}
    BY <1>1
  <2> QED BY <1>0, <2>1, <2>2, <2>3, LoadKept
<1>13. pCore' = RootTask
  BY <1>12 DEF StandsFor
<1>14. CoreKept'
  <2>1. StandsFor(pCore', pSched'.running, hist'.strayed)
    BY <1>11, <1>13 DEF StandsFor
  <2>2. Lone(pSched') /\ Admitted(pSched') \subseteq 0 .. next' - 1
    BY <1>0, <1>2, <1>7, <1>10 DEF CoreKept
  <2> QED BY <1>12, <2>1, <2>2 DEF CoreKept
<1>15. PhaseKept'
  BY <1>0, <1>2, <1>4, <1>11 DEF PhaseKept, kernel, dm
<1>16. ProcsKept'
  <2>1. pSched'.ent[procA].st # "Blocked"
    BY <1>5, <1>7, <1>10
  <2> QED BY <1>0, <1>2, <1>5, <1>7, <1>10, <2>1 DEF ProcsKept, kernel, dm
<1>17. ManagerKept'
  BY <1>0, <1>1, <1>2, <1>3, <1>7, <1>10, <1>12 DEF ManagerKept, Watching, kernel, dm
<1>18. CrashKept'
  <2>1. dmPc \in {"waiting", "woken"} => FirstFree \in Admitted(pSched) \ {pCore} /\ pSched.ent[FirstFree].st = "Blocked"
    BY <1>0, <1>3 DEF ManagerKept, Watching, CrashKept
  <2>2. dmPc \in {"waiting", "woken"} => pSched'.ent[FirstFree].st = "Blocked"
    BY <1>7, <1>10, <2>1
  <2>3. dmPc # "unborn" => ~pending /\ dmPc # "respawning"
    BY <1>0, <1>3 DEF CrashKept
  <2>4. Admitted(pSched') = Admitted(pSched) /\ dmPc' = dmPc /\ policy' = policy /\ pending' = pending /\ watched' = watched
        /\ pCore' # FirstFree
    BY <1>1, <1>2, <1>7, <1>10, <1>13 DEF kernel, dm
  <2> QED BY <1>0, <1>11, <2>2, <2>3, <2>4 DEF CrashKept
<1>19. CallsKept'
  <2>1. CallsKept
    BY DEF SupInv
  <2> QED BY <1>2, <1>7, <1>10, <2>1 DEF CallsKept
<1> QED BY <1>14, <1>15, <1>16, <1>17, <1>18, <1>19 DEF SupInv

\* What holds whenever a service makes a trap.
LEMMA ServiceRuns ==
  ASSUME SupInv, ServiceTraps
  PROVE  /\ CoreKept /\ PhaseKept /\ ProcsKept /\ ManagerKept /\ CrashKept /\ CallsKept
         /\ Lone(pSched) /\ Admitted(pSched) \subseteq Tid /\ None \notin Tid /\ FirstFree \in Tid /\ RootTask \in Tid
         /\ Admitted(pSched) \subseteq Nat
         /\ pSched.running = pCore /\ pCore \in Admitted(pSched) /\ pCore \in Service /\ pCore # RootTask
         /\ pCore # FirstFree /\ FirstFree # RootTask /\ phase \in {"preemptive", "over"}
         /\ procA \in Admitted(pSched) \ Service /\ FirstFree \notin Service /\ pSched.ent[procA].st # "Blocked"
<1>1. CoreKept /\ PhaseKept /\ ProcsKept /\ ManagerKept /\ CrashKept /\ CallsKept
  BY DEF SupInv
<1>2. /\ Admitted(pSched) \subseteq Tid /\ None \notin Tid /\ FirstFree \in Tid /\ RootTask \in Tid /\ FirstFree # RootTask
      /\ pSched.running # None => pSched.running \in Admitted(pSched)
      /\ FirstFree \in Nat /\ Tid \subseteq Nat
  BY <1>1, AdmittedIds
<1>3. \A t \in Service : t \in Nat /\ t # RootTask /\ t < FirstFree
  BY <1>2 DEF Service, RootTask
<1>4. pCore \in Service /\ pSched.running = pCore /\ pCore # None
  BY <1>3, IdAssumption DEF ServiceTraps
<1>5. phase \in {"preemptive", "over"}
  BY <1>1, <1>3, <1>4 DEF PhaseKept
<1>6. procA \in Admitted(pSched) /\ procA >= FirstFree /\ pSched.ent[procA].st # "Blocked"
  BY <1>1, <1>5 DEF ProcsKept
<1>7. procA \notin Service /\ FirstFree \notin Service
  BY <1>2, <1>3, <1>6
<1> QED BY <1>1, <1>2, <1>3, <1>4, <1>5, <1>6, <1>7 DEF CoreKept

\* Whoever is no service sleeps, or does not, as before.
Unmoved(s, r) ==
  /\ Lone(r) /\ Admitted(r) = Admitted(s)
  /\ \A u \in Admitted(s) \ Service : r.ent[u].st = "Blocked" <=> s.ent[u].st = "Blocked"

LEMMA ServiceTakesKeeps ==
  ASSUME SupInv, ServiceTakes
  PROVE  SupInv'
<1>1. /\ ServiceTraps /\ pCore = NetDriver /\ asked > 0 /\ asked' = asked - 1 /\ owed' = owed
      /\ UNCHANGED <<pCore, saved, next, exited, phase, ticks, kernel, dm, hist>>
  BY DEF ServiceTakes
<1>2. /\ CoreKept /\ PhaseKept /\ ProcsKept /\ ManagerKept /\ CrashKept /\ CallsKept
      /\ Lone(pSched) /\ pSched.running = pCore /\ pCore # FirstFree /\ FirstFree \notin Service
      /\ procA \in Admitted(pSched) \ Service
  BY <1>1, ServiceRuns
<1>3. PICK r : r = NoteReady(pSched, NetStack)
  OBVIOUS
<1>4. NetStack \in Nat /\ NetStack # NetDriver /\ NetStack \in Service
  BY BudgetAssumption DEF NetStack, NetDriver, Service, FirstFree
<1>5. /\ Lone(r) /\ r.running = pSched.running /\ Admitted(r) = Admitted(pSched)
      /\ \A u \in Admitted(pSched) \ {NetStack} : r.ent[u].st = pSched.ent[u].st
  BY <1>1, <1>2, <1>3, <1>4, NoteReadyLone DEF SameBut
<1>6. pSched' = r
  BY <1>3 DEF ServiceTakes
<1>7. CoreKept' /\ PhaseKept'
  BY <1>1, <1>2, <1>5, <1>6 DEF CoreKept, PhaseKept, StandsFor, kernel, dm
<1>8. ProcsKept'
  BY <1>1, <1>2, <1>4, <1>5, <1>6 DEF ProcsKept, kernel, dm
<1>9. ManagerKept'
  BY <1>1, <1>2, <1>5, <1>6 DEF ManagerKept, Watching, kernel, dm
<1>10. CrashKept'
  <2>1. dmPc \in {"waiting", "woken"} => FirstFree \in Admitted(pSched) \ {NetStack}
    BY <1>2, <1>4 DEF ManagerKept, Watching
  <2> QED BY <1>1, <1>2, <1>5, <1>6, <2>1 DEF CrashKept, kernel, dm
<1>11. CallsKept'
  <2>1. asked' \in 0 .. MaxAsked
    BY <1>1, <1>2, BudgetAssumption DEF CallsKept
  <2> QED BY <1>1, <1>2, <1>5, <1>6, <2>1 DEF CallsKept
<1> QED BY <1>7, <1>8, <1>9, <1>10, <1>11 DEF SupInv

\* The core goes from a service to another thread.
LEMMA FastSwitchKeeps ==
  ASSUME SupInv, ServiceTraps, NEW d, FastSwitch(d), Unmoved(pSched, d.s), d.core = d.s.running,
         d.core \in Admitted(pSched), d.core # pCore, CallsKept'
  PROVE  SupInv'
<1>1. /\ CoreKept /\ PhaseKept /\ ProcsKept /\ ManagerKept /\ CrashKept
      /\ Admitted(pSched) \subseteq Tid /\ None \notin Tid /\ FirstFree \in Tid /\ RootTask \in Tid
      /\ pSched.running = pCore /\ pCore \in Admitted(pSched) /\ pCore # RootTask
      /\ pCore # FirstFree /\ FirstFree # RootTask /\ phase \in {"preemptive", "over"}
      /\ procA \in Admitted(pSched) \ Service /\ FirstFree \notin Service /\ pSched.ent[procA].st # "Blocked"
  BY ServiceRuns
<1>2. /\ pSched' = d.s /\ pCore' = Loaded(d.core) /\ saved' = [saved EXCEPT ![pSched.running] = pCore]
      /\ hist' = [hist EXCEPT !.ran = Ran(pCore')] /\ UNCHANGED <<next, exited, phase, ticks, kernel, dm>>
  BY <1>1 DEF FastSwitch, Switch
<1>3. hist'.strayed = hist.strayed
  BY <1>1, <1>2 DEF PhaseKept, History
<1>4. PICK t \in Tid : t = d.core
  BY <1>1
<1>5. /\ StandsFor(pCore', t, hist'.strayed) /\ StandsFor(pCore', t, hist.strayed) /\ pCore' \in Tid \union {None}
      /\ saved' \in [Tid -> Tid] /\ \A u \in Tid : StandsFor(saved'[u], u, hist'.strayed)
      /\ \A u \in Tid : u # pSched.running => saved'[u] = saved[u]
  BY <1>1, <1>2, <1>3, <1>4, LoadKept
<1>6. pCore' \in {t, RootTask} /\ pCore' \in Tid
  BY <1>1, <1>5 DEF StandsFor
<1>7. hist' \in History /\ hist'.crashes = hist.crashes
  BY <1>1, <1>2, <1>6, RanKept
<1>8. CoreKept'
  <2>1. StandsFor(pCore', pSched'.running, hist'.strayed) /\ next' = next
    BY <1>2, <1>4, <1>5 DEF StandsFor
  <2> QED BY <1>1, <1>2, <1>5, <2>1 DEF CoreKept, Unmoved
<1>9. PhaseKept'
  BY <1>1, <1>2, <1>7 DEF PhaseKept, kernel, dm
<1>10. ProcsKept'
  BY <1>1, <1>2 DEF ProcsKept, Unmoved, kernel, dm
<1>11. ManagerKept'
  BY <1>1, <1>2, <1>5 DEF ManagerKept, Unmoved, Watching, kernel, dm
<1>12. CrashKept'
  <2>1. dmPc # "unborn" => ~pending /\ dmPc # "respawning"
    BY <1>1 DEF CrashKept
  <2>2. dmPc \in {"waiting", "woken"} => FirstFree \in Admitted(pSched) \ Service /\ pSched.ent[FirstFree].st = "Blocked"
    BY <1>1 DEF ManagerKept, Watching, CrashKept
  <2>3. dmPc \in {"waiting", "woken"} => pSched'.ent[FirstFree].st = "Blocked" /\ t # FirstFree
    <3>1. d.s.ent[d.core].st = "Running"
      BY LoneShape DEF Unmoved
    <3> QED BY <1>2, <1>4, <2>2, <3>1 DEF Unmoved
  <2>4. Admitted(pSched') = Admitted(pSched) /\ dmPc' = dmPc /\ policy' = policy /\ pending' = pending /\ watched' = watched
    BY <1>2 DEF Unmoved, kernel, dm
  <2>5. dmPc \in {"waiting", "woken"} => pCore' # FirstFree
    BY <1>1, <1>6, <2>3
  <2> QED BY <1>1, <1>7, <2>1, <2>3, <2>4, <2>5 DEF CrashKept
<1> QED BY <1>8, <1>9, <1>10, <1>11, <1>12 DEF SupInv

\* What comes of a service that leaves the core to n, once it is off it.
LEMMA SwitchedUnmoved ==
  ASSUME NEW b, Unmoved(pSched, b), b.running = None, NEW n \in Admitted(b), n # None,
         n \in Service \/ b.ent[n].st # "Blocked", NEW d, d = SwitchedTo(b, n)
  PROVE  Unmoved(pSched, d.s) /\ d.core = n /\ d.s.running = n
<1>1. PICK r : r = Dispatch(b, n)
  OBVIOUS
<1>2. d.s = r /\ d.core = n
  BY <1>1 DEF SwitchedTo, Decision
<1>3. /\ Lone(r) /\ r.running = n /\ Admitted(r) = Admitted(b)
      /\ \A u \in Admitted(b) \ {n} : r.ent[u].st = b.ent[u].st
  BY <1>1, DispatchLone DEF Unmoved, SameBut
<1>4. r.ent[n].st = "Running"
  BY <1>3, LoneShape
<1>5. \A u \in Admitted(pSched) \ Service : r.ent[u].st = "Blocked" <=> pSched.ent[u].st = "Blocked"
  BY <1>3, <1>4 DEF Unmoved
<1> QED BY <1>2, <1>3, <1>5 DEF Unmoved

\* A service is put to sleep.
LEMMA AsleepUnmoved ==
  ASSUME NEW s, Unmoved(pSched, s), NEW t \in Service, t \in Nat
  PROVE  /\ Unmoved(pSched, NoteBlocked(s, t))
         /\ NoteBlocked(s, t).running = IF s.running = t THEN None ELSE s.running
  BY NoteBlockedLone DEF Unmoved, SameBut

LEMMA AwakeUnmoved ==
  ASSUME NEW s, Unmoved(pSched, s), NEW t \in Service, t \in Nat, t # s.running
  PROVE  /\ Unmoved(pSched, NoteReady(s, t)) /\ NoteReady(s, t).running = s.running
         /\ t \in Admitted(s) => NoteReady(s, t).ent[t].st = "Ready"
  BY NoteReadyLone DEF Unmoved, SameBut

\* dispatch replaces running(), so a thread that is made ready while it runs
\* is as good as one that was off the core.
LEMMA ReadyAsBlocked ==
  ASSUME NEW s, Lone(s), NEW t \in Nat, t = s.running, NEW n \in Admitted(s)
  PROVE  Dispatch(NoteReady(s, t), n) = Dispatch(NoteReady(NoteBlocked(s, t), t), n)
<1>1. PICK E, G : E = s.ent /\ G = s.grp
  OBVIOUS
<1>2. /\ s = [ent |-> E, grp |-> G, running |-> t] /\ E \in [DOMAIN E -> Entity] /\ Admitted(s) = DOMAIN E
      /\ t \in DOMAIN E
  <2>1. t # None
    BY IdAssumption
  <2> QED BY <1>1, <2>1, LoneShape
<1>3. PICK x, y : x = NoteReady(s, t) /\ y = NoteReady(NoteBlocked(s, t), t)
  OBVIOUS
<1>4. x = [ent |-> [E EXCEPT ![t].st = "Ready"], grp |-> G, running |-> t]
  BY <1>2, <1>3 DEF NoteReady, Admitted
<1>5. PICK F : F = [E EXCEPT ![t].st = "Blocked"]
  OBVIOUS
<1>6. NoteBlocked(s, t) = [ent |-> F, grp |-> G, running |-> None]
  <2>1. s.running = t /\ s.ent = E
    BY <1>2
  <2>2. NoteBlocked(s, t) = [s EXCEPT !.ent[t].st = "Blocked", !.running = None]
    BY <1>2, <2>1 DEF NoteBlocked
  <2>3. [s EXCEPT !.ent[t].st = "Blocked", !.running = None] = [s EXCEPT !.ent = F, !.running = None]
    BY <1>5, <2>1
  <2>4. PICK a : a = [s EXCEPT !.ent = F]
    OBVIOUS
  <2>5. a = [ent |-> F, grp |-> G, running |-> t]
    BY <1>2, <2>4
  <2>6. [a EXCEPT !.running = None] = [ent |-> F, grp |-> G, running |-> None]
    BY <2>5
  <2>7. [s EXCEPT !.ent = F, !.running = None] = [a EXCEPT !.running = None]
    BY <2>4
  <2> QED BY <2>2, <2>3, <2>6, <2>7
<1>7. y = [ent |-> [F EXCEPT ![t].st = "Ready"], grp |-> G, running |-> None]
  <2>1. PICK z : z = NoteBlocked(s, t)
    OBVIOUS
  <2>2. z = [ent |-> F, grp |-> G, running |-> None] /\ z.ent = F /\ t \in DOMAIN F
    BY <1>2, <1>5, <1>6, <2>1
  <2>3. y = [z EXCEPT !.ent[t].st = "Ready"]
    BY <1>3, <2>1, <2>2 DEF NoteReady, Admitted
  <2> QED BY <2>2, <2>3
<1>8. [F EXCEPT ![t].st = "Ready"] = [E EXCEPT ![t].st = "Ready"]
  BY <1>2, <1>5 DEF Entity
<1>9. PICK D : D = [E EXCEPT ![t].st = "Ready"]
  OBVIOUS
<1>10. x = [ent |-> D, grp |-> G, running |-> t] /\ y = [ent |-> D, grp |-> G, running |-> None] /\ DOMAIN D = DOMAIN E
  BY <1>4, <1>7, <1>8, <1>9
<1>11. Dispatch(x, n) = [ent |-> [D EXCEPT ![n].st = "Running"], grp |-> G, running |-> n]
  BY <1>2, <1>10 DEF Dispatch, Admitted
<1>12. Dispatch(y, n) = [ent |-> [D EXCEPT ![n].st = "Running"], grp |-> G, running |-> n]
  BY <1>2, <1>10 DEF Dispatch, Admitted
<1> QED BY <1>3, <1>11, <1>12

LEMMA ServiceRepliesKeeps ==
  ASSUME SupInv, ServiceReplies
  PROVE  SupInv'
<1>1. ServiceTraps /\ pCore = NetDriver /\ owed /\ owed' = FALSE /\ asked' = asked
  BY DEF ServiceReplies
<1>2. /\ CallsKept /\ Lone(pSched) /\ pSched.running = pCore /\ pCore \in Admitted(pSched) /\ pCore \in Service
      /\ Admitted(pSched) \subseteq Nat
  BY <1>1, ServiceRuns
<1>3. NetStack \in Nat /\ NetStack # pCore /\ NetStack \in Service /\ NetStack # None /\ pCore \in Nat
  BY <1>1, BudgetAssumption, IdAssumption DEF NetStack, NetDriver, Service, FirstFree
<1>4. PICK a : a = NoteReady(pSched, NetStack)
  OBVIOUS
<1>5. Unmoved(pSched, pSched)
  BY <1>2 DEF Unmoved
<1>6. Unmoved(pSched, a) /\ a.running = pCore
  BY <1>2, <1>3, <1>4, <1>5, AwakeUnmoved
<1>7. PICK b, c : b = NoteBlocked(a, pCore) /\ c = NoteReady(b, pCore)
  OBVIOUS
<1>8. Unmoved(pSched, b) /\ b.running = None
  BY <1>2, <1>3, <1>6, <1>7, AsleepUnmoved
<1>9. Unmoved(pSched, c) /\ c.running = None
  <2>1. pCore # None
    BY <1>3, IdAssumption
  <2> QED BY <1>2, <1>3, <1>7, <1>8, <2>1, AwakeUnmoved
<1>10. NetStack \in Admitted(a) /\ NetStack \in Admitted(c)
  BY <1>1, <1>2, <1>6, <1>9 DEF CallsKept, Unmoved
<1>11. PICK d : d = SwitchedTo(c, NetStack)
  OBVIOUS
<1>12. d = SwitchedTo(NoteReady(a, pCore), NetStack)
  <2>1. Lone(a)
    BY <1>6 DEF Unmoved
  <2>2. Dispatch(NoteReady(a, pCore), NetStack) = Dispatch(c, NetStack)
    BY <1>3, <1>6, <1>7, <1>10, <2>1, ReadyAsBlocked
  <2> QED BY <1>11, <2>2 DEF SwitchedTo
<1>13. FastSwitch(d)
  <2>1. PICK r \in {NoteReady(NoteReady(pSched, NetStack), pCore)} : FastSwitch(SwitchedTo(r, NetStack))
    BY DEF ServiceReplies
  <2> QED BY <1>4, <1>12, <2>1
<1>14. Unmoved(pSched, d.s) /\ d.core = NetStack /\ d.s.running = NetStack
  BY <1>3, <1>9, <1>10, <1>11, SwitchedUnmoved
<1>15. pSched' = d.s
  BY <1>13 DEF FastSwitch, Switch
<1>16. CallsKept'
  BY <1>1, <1>2 DEF CallsKept
<1>17. NetStack \in Admitted(pSched)
  BY <1>1, <1>2 DEF CallsKept
<1> QED BY <1>1, <1>3, <1>13, <1>14, <1>16, <1>17, FastSwitchKeeps

LEMMA ServiceCallsKeeps ==
  ASSUME SupInv, ServiceCalls
  PROVE  SupInv'
<1>1. ServiceTraps /\ pCore = NetStack /\ owed' = TRUE
  BY DEF ServiceCalls
<1>2. /\ CallsKept /\ Lone(pSched) /\ pSched.running = pCore /\ pCore \in Admitted(pSched) /\ pCore \in Service
      /\ Admitted(pSched) \subseteq Nat /\ None \notin Tid
      /\ procA \in Admitted(pSched) \ Service /\ pSched.ent[procA].st # "Blocked"
  BY <1>1, ServiceRuns
<1>3. NetDriver \in Nat /\ NetDriver # pCore /\ NetDriver \in Service /\ NetDriver # None /\ pCore \in Nat /\ pCore # None
  BY <1>1, BudgetAssumption, IdAssumption DEF NetStack, NetDriver, Service, FirstFree
<1>4. Unmoved(pSched, pSched)
  BY <1>2 DEF Unmoved
<1>5. CASE /\ NetDriver \in Admitted(pSched) /\ asked' = asked
           /\ FastSwitch(SwitchedTo(NoteBlocked(NoteReady(pSched, NetDriver), pCore), NetDriver))
  <2>1. PICK a, b : a = NoteReady(pSched, NetDriver) /\ b = NoteBlocked(a, pCore)
    OBVIOUS
  <2>2. Unmoved(pSched, a) /\ a.running = pCore
    BY <1>2, <1>3, <1>4, <2>1, AwakeUnmoved
  <2>3. Unmoved(pSched, b) /\ b.running = None
    BY <1>2, <1>3, <2>1, <2>2, AsleepUnmoved
  <2>4. PICK d : d = SwitchedTo(b, NetDriver)
    OBVIOUS
  <2>5. NetDriver \in Admitted(b)
    BY <1>5, <2>3 DEF Unmoved
  <2>6. Unmoved(pSched, d.s) /\ d.core = NetDriver /\ d.s.running = NetDriver
    BY <1>3, <2>3, <2>4, <2>5, SwitchedUnmoved
  <2>7. FastSwitch(d)
    BY <1>5, <2>1, <2>4
  <2>8. CallsKept'
    <3>1. pSched' = d.s
      BY <2>7 DEF FastSwitch, Switch
    <3> QED BY <1>1, <1>2, <1>5, <2>6, <3>1 DEF CallsKept, Unmoved
  <2> QED BY <1>1, <1>3, <1>5, <2>6, <2>7, <2>8, FastSwitchKeeps
<1>6. CASE /\ asked < MaxAsked /\ asked' = asked + 1
           /\ \E b \in {NoteBlocked(pSched, pCore)} : FastSwitch(SwitchedTo(b, PickNext(b)))
  <2>1. PICK b : b = NoteBlocked(pSched, pCore)
    OBVIOUS
  <2>2. Unmoved(pSched, b) /\ b.running = None
    BY <1>2, <1>3, <1>4, <2>1, AsleepUnmoved
  <2>3. b.ent[pCore].st = "Blocked"
    BY <1>2, <1>3, <2>1, NoteBlockedLone
  <2>4. Lone(b) /\ Admitted(b) = Admitted(pSched)
    BY <2>2 DEF Unmoved
  <2>5. PickNext(b) # None
    <3>1. procA \in Admitted(b) /\ b.ent[procA].st # "Blocked" /\ procA # None
      BY <1>2, <2>2, <2>4, IdAssumption DEF Unmoved
    <3>2. b.ent[procA] \in Entity /\ b.ent[procA].st # "Running"
      BY <2>2, <2>4, <3>1, LoneShape
    <3>3. b.ent[procA].st = "Ready"
      BY <3>1, <3>2 DEF Entity, RunState
    <3> QED BY <2>4, <3>1, <3>3, PickNextLone
  <2>6. PICK n : n = PickNext(b)
    OBVIOUS
  <2>7. n \in Admitted(b) /\ b.ent[n].st = "Ready" /\ n # None
    BY <2>4, <2>5, <2>6, PickNextLone
  <2>8. n # pCore
    BY <2>3, <2>7
  <2>9. PICK d : d = SwitchedTo(b, n)
    OBVIOUS
  <2>10. Unmoved(pSched, d.s) /\ d.core = n /\ d.s.running = n
    BY <2>2, <2>7, <2>9, SwitchedUnmoved
  <2>11. FastSwitch(d)
    BY <1>6, <2>1, <2>6, <2>9
  <2>12. CallsKept'
    <3>1. pSched' = d.s
      BY <2>11 DEF FastSwitch, Switch
    <3>2. asked' \in 0 .. MaxAsked
      BY <1>2, <1>6, BudgetAssumption DEF CallsKept
    <3> QED BY <1>1, <1>2, <2>10, <3>1, <3>2 DEF CallsKept, Unmoved
  <2> QED BY <1>1, <2>4, <2>7, <2>8, <2>10, <2>11, <2>12, FastSwitchKeeps
<1> QED BY <1>5, <1>6 DEF ServiceCalls

\* A fault of a thread other than the Root Task is taken under its own name.
LEMMA FaultRuns ==
  ASSUME SupInv, P2Fault, pCore # None, pCore # RootTask
  PROVE  /\ CoreKept /\ PhaseKept /\ ProcsKept /\ ManagerKept /\ CrashKept
         /\ Lone(pSched) /\ pSched.running = pCore /\ pCore \in Admitted(pSched) /\ Admitted(pSched) \subseteq Tid
         /\ None \notin Tid /\ FirstFree \in Tid /\ FirstFree # RootTask
         /\ phase \in {"preemptive", "over"}
         /\ exited' = exited \union {pCore} /\ exited' \subseteq Tid
         /\ pending' = (pending \/ pCore = watched)
         /\ UNCHANGED <<next, phase, ticks, dmTid, watched, procC, procA, dm>>
         /\ asked' = asked /\ owed' = (owed /\ pCore # NetStack) /\ CallsKept
         /\ \E x \in Nat : Abandon(FaultOf(pCore, x))
<1>1. CoreKept /\ PhaseKept /\ ProcsKept /\ ManagerKept /\ CrashKept
  BY DEF SupInv
<1>2. pSched.running = pCore
  BY <1>1, OwnName
<1>3. /\ Lone(pSched) /\ pCore \in Admitted(pSched) /\ Admitted(pSched) \subseteq Tid
      /\ None \notin Tid /\ FirstFree \in Tid /\ FirstFree # RootTask
  BY <1>1, <1>2, AdmittedIds DEF CoreKept
<1>4. phase \in {"preemptive", "over"}
  BY <1>1 DEF PhaseKept
<1>5. exited' = exited \union {pCore} /\ pending' = (pending \/ pCore = watched)
      /\ UNCHANGED <<next, phase, ticks, dmTid, watched, procC, procA, dm>>
  BY <1>2 DEF P2Fault
<1>6. exited' \subseteq Tid
  BY <1>1, <1>3, <1>5 DEF PhaseKept
<1>8. asked' = asked /\ owed' = (owed /\ pCore # NetStack) /\ CallsKept
  BY <1>2 DEF P2Fault, SupInv
<1>7. \E x \in Nat : Abandon(FaultOf(pCore, x))
  <2>1. PICK x \in RunSlice : Abandon(FaultOf(pSched.running, x))
    BY DEF P2Fault
  <2>2. x \in Nat
    BY BudgetAssumption DEF RunSlice
  <2> QED BY <1>2, <2>1, <2>2
<1> QED BY <1>1, <1>2, <1>3, <1>4, <1>5, <1>6, <1>7, <1>8

\* What a fault leaves of the core and of process A, for a decision d that
\* took the faulting thread away.
LEMMA AbandonKept ==
  ASSUME SupInv, P2Fault, pCore # None, pCore # RootTask, pCore # procA, NEW d, Abandon(d),
         Lone(d.s), d.core = d.s.running, Admitted(d.s) = Admitted(pSched) \ {pCore},
         Awake(d, pSched, Admitted(pSched) \ {pCore}), hist'.strayed = hist.strayed
  PROVE  /\ CoreKept' /\ ProcsKept' /\ CallsKept' /\ saved' = saved /\ pSched' = d.s
         /\ pCore' \in Tid \union {None} /\ pCore' = Loaded(d.core)
         /\ pCore' \in {d.core, RootTask}
<1>1. /\ CoreKept /\ PhaseKept /\ ProcsKept
      /\ Admitted(pSched) \subseteq Tid /\ phase \in {"preemptive", "over"}
      /\ UNCHANGED <<next, phase, ticks, dmTid, watched, procC, procA, dm>>
  BY FaultRuns
<1>2. pSched' = d.s /\ pCore' = Loaded(d.core) /\ saved' = saved
  BY DEF Abandon
<1>3. PICK t \in Tid \union {None} : t = d.core
  <2>1. d.s.running # None => d.s.running \in Admitted(d.s)
    BY LoneShape
  <2> QED BY <1>1, <2>1
<1>4. /\ StandsFor(pCore', t, hist'.strayed) /\ StandsFor(pCore', t, hist.strayed) /\ pCore' \in Tid \union {None}
      /\ saved' \in [Tid -> Tid] /\ \A u \in Tid : StandsFor(saved'[u], u, hist'.strayed)
  BY <1>1, <1>2, <1>3, LoadKept
<1>5. CoreKept'
  <2>1. StandsFor(pCore', pSched'.running, hist'.strayed)
    BY <1>2, <1>3, <1>4 DEF StandsFor
  <2> QED BY <1>1, <1>2, <1>4, <2>1 DEF CoreKept
<1>6. ProcsKept'
  <2>1. procA \in Admitted(pSched') /\ pSched'.ent[procA].st # "Blocked" /\ RootTask \notin Admitted(pSched')
    BY <1>1, <1>2 DEF ProcsKept, Awake
  <2> QED BY <1>1, <2>1 DEF ProcsKept, dm
<1>7. CallsKept'
  <2>1. asked' = asked /\ owed' = (owed /\ pCore # NetStack) /\ CallsKept
    BY FaultRuns
  <2> QED BY <1>2, <2>1 DEF CallsKept
<1> QED BY <1>2, <1>3, <1>4, <1>5, <1>6, <1>7 DEF StandsFor

LEMMA DriverFaultsKeeps ==
  ASSUME SupInv, DriverFaults
  PROVE  SupInv'
<1>A. P2Fault /\ pCore # None /\ pCore = watched /\ hist' = [hist EXCEPT !.crashes = @ + 1, !.ran = Ran(pCore')]
  BY DEF DriverFaults
<1>B. pCore # RootTask
  <2>1. watched # None => watched >= FirstFree
    BY DEF SupInv, ProcsKept, PhaseKept
  <2>2. FirstFree \in Nat /\ FirstFree >= 4
    BY BudgetAssumption DEF FirstFree
  <2> QED BY <1>A, <2>1, <2>2 DEF RootTask
<1>0. /\ CoreKept /\ PhaseKept /\ ProcsKept /\ ManagerKept /\ CrashKept
      /\ Lone(pSched) /\ pSched.running = pCore /\ pCore \in Admitted(pSched) /\ Admitted(pSched) \subseteq Tid
      /\ None \notin Tid /\ FirstFree \in Tid /\ FirstFree # RootTask
      /\ phase \in {"preemptive", "over"}
      /\ exited' \subseteq Tid /\ pending' = (pending \/ pCore = watched)
      /\ UNCHANGED <<next, phase, ticks, dmTid, watched, procC, procA, dm>>
      /\ \E x \in Nat : Abandon(FaultOf(pCore, x))
  BY <1>A, <1>B, FaultRuns
<1>1. PICK x \in Nat : Abandon(FaultOf(pCore, x))
  BY <1>0
<1>2. PICK d : d = CrashHandoff(pSched, pSched.running, x)
  OBVIOUS
<1>3. Abandon(d)
  <2>1. FaultOf(pCore, x) = d
    BY <1>0, <1>2, <1>A DEF FaultOf
  <2> QED BY <1>1, <2>1
<1>4. /\ Lone(d.s) /\ d.core = d.s.running /\ Admitted(d.s) = Admitted(pSched) \ {pCore}
      /\ Awake(d, pSched, Admitted(pSched) \ {pCore})
      /\ Watching => d.core = FirstFree
  <2>1. CASE Watching
    <3>1. dmTid = FirstFree /\ FirstFree # None /\ FirstFree \in Admitted(pSched) /\ FirstFree # pCore
      <4>1. dmTid = FirstFree /\ FirstFree \in Admitted(pSched) /\ watched # FirstFree
        BY <1>0, <2>1 DEF ManagerKept, Watching
      <4> QED BY <1>0, <1>A, <4>1
    <3>2. d = TerminateAndHandoff(NoteReady(pSched, FirstFree), pSched.running, FirstFree, x)
      BY <1>2, <3>1 DEF CrashHandoff
    <3>3. /\ Lone(d.s) /\ d.core = FirstFree /\ d.s.running = FirstFree
          /\ Admitted(d.s) = Admitted(pSched) \ {pSched.running}
          /\ Awake(d, pSched, Admitted(pSched) \ {pSched.running})
      BY <1>0, <1>A, <3>1, <3>2, HandoffSettles
    <3> QED BY <1>0, <3>3
  <2>2. CASE ~Watching
    <3>1. dmTid = None
      BY <1>0, <2>2 DEF ManagerKept
    <3>2. d = TerminateThread(pSched, pSched.running, x)
      BY <1>2, <3>1 DEF CrashHandoff
    <3>3. /\ Settled(d, pSched, Admitted(pSched) \ {pSched.running})
          /\ Awake(d, pSched, Admitted(pSched) \ {pSched.running}) /\ d.core = d.s.running
      BY <1>0, <1>A, <3>2, TerminateSettles
    <3> QED BY <1>0, <2>2, <3>3 DEF Settled
  <2> QED BY <2>1, <2>2
<1>5. hist'.strayed = hist.strayed
  BY <1>0, <1>A DEF PhaseKept, History
<1>6. pCore # procA
  BY <1>0, <1>A DEF ProcsKept
<1>7. /\ CoreKept' /\ ProcsKept' /\ CallsKept' /\ saved' = saved /\ pSched' = d.s
      /\ pCore' \in Tid \union {None} /\ pCore' = Loaded(d.core)
  BY <1>3, <1>4, <1>5, <1>6, <1>A, <1>B, AbandonKept
<1>8. hist' \in History /\ hist'.crashes = hist.crashes + 1
  BY <1>0, <1>7, <1>A, CrashRanKept
<1>9. PhaseKept'
  <2>1. pending' \in BOOLEAN
    BY <1>0
  <2> QED BY <1>0, <1>8, <2>1 DEF PhaseKept, dm
<1>10. Watching => pCore' = FirstFree
  BY <1>0, <1>4, <1>7 DEF Loaded, ManagerKept
<1>11. dmPc # "unborn" => pCore # FirstFree
  BY <1>0, <1>A DEF ManagerKept
<1>12. ManagerKept'
  BY <1>0, <1>4, <1>7, <1>11 DEF ManagerKept, Watching, dm
<1>13. CrashKept'
  <2> SUFFICES ASSUME dmPc # "unborn"
               PROVE  /\ hist'.crashes = policy'.lifetime + 1 /\ pending' = TRUE
                      /\ pCore' = FirstFree /\ dmPc' \in {"starting", "waiting", "woken"}
                      /\ watched' \notin Admitted(pSched')
    BY <1>0 DEF CrashKept, dm
  <2>1. ~pending /\ dmPc \notin {"respawning", "spinning"}
    BY <1>0, <1>11, <1>A DEF CrashKept
  <2>2. dmPc \in {"starting", "waiting", "woken"} /\ Watching
    BY <1>0, <2>1 DEF PhaseKept, DmPlace, Watching
  <2>3. hist.crashes = policy.lifetime
    <3>1. hist.crashes = policy.lifetime + 0 /\ policy.lifetime \in Nat
      BY <1>0, <2>1 DEF CrashKept, PhaseKept
    <3> QED BY <3>1
  <2>4. pending' = TRUE
    BY <1>0, <1>A
  <2> QED BY <1>0, <1>4, <1>7, <1>8, <1>10, <1>A, <2>2, <2>3, <2>4 DEF dm
<1> QED BY <1>7, <1>9, <1>12, <1>13 DEF SupInv

LEMMA OtherFaultsKeeps ==
  ASSUME SupInv, OtherFaults
  PROVE  SupInv'
<1>A. P2Fault /\ pCore \in ({B, procC} \union Service) \ {None} /\ hist' = [hist EXCEPT !.faults = @ + 1, !.ran = Ran(pCore')]
  BY DEF OtherFaults
<1>F. FirstFree \in Nat /\ FirstFree >= 4 /\ B = 1 /\ RootTask = 0 /\ \A t \in Service : t \in Nat /\ t >= 4 /\ t < FirstFree
  BY BudgetAssumption DEF FirstFree, B, RootTask, Service
<1>B. pCore # None /\ pCore # RootTask
  <2>1. procC # None => procC >= FirstFree
    BY DEF SupInv, ProcsKept, PhaseKept
  <2> QED BY <1>A, <1>F, <2>1
<1>0. /\ CoreKept /\ PhaseKept /\ ProcsKept /\ ManagerKept /\ CrashKept
      /\ Lone(pSched) /\ pSched.running = pCore /\ pCore \in Admitted(pSched) /\ Admitted(pSched) \subseteq Tid
      /\ None \notin Tid /\ FirstFree \in Tid /\ FirstFree # RootTask
      /\ phase \in {"preemptive", "over"}
      /\ exited' \subseteq Tid /\ pending' = (pending \/ pCore = watched)
      /\ UNCHANGED <<next, phase, ticks, dmTid, watched, procC, procA, dm>>
      /\ \E x \in Nat : Abandon(FaultOf(pCore, x))
  BY <1>A, <1>B, FaultRuns
<1>1. PICK x \in Nat : Abandon(FaultOf(pCore, x))
  BY <1>0
<1>2. pCore # watched /\ pCore # procA /\ (dmPc # "unborn" => pCore # FirstFree)
  <2>1. watched # None => watched >= FirstFree /\ watched # procC
    BY <1>0 DEF ProcsKept, PhaseKept
  <2>2. procA >= FirstFree /\ procA # procC
    BY <1>0 DEF ProcsKept
  <2>3. dmPc # "unborn" => procC # FirstFree
    BY <1>0 DEF ManagerKept
  <2> QED BY <1>A, <1>B, <1>F, <2>1, <2>2, <2>3
<1>3. PICK d : d = TerminateThread(pSched, pSched.running, x)
  OBVIOUS
<1>4. Abandon(d)
  <2>1. FaultOf(pCore, x) = d
    BY <1>0, <1>2, <1>3, <1>B DEF FaultOf
  <2> QED BY <1>1, <2>1
<1>5. /\ Settled(d, pSched, Admitted(pSched) \ {pCore})
      /\ Awake(d, pSched, Admitted(pSched) \ {pCore}) /\ d.core = d.s.running
  <2>1. /\ Settled(d, pSched, Admitted(pSched) \ {pSched.running})
        /\ Awake(d, pSched, Admitted(pSched) \ {pSched.running}) /\ d.core = d.s.running
    BY <1>0, <1>3, <1>B, TerminateSettles
  <2> QED BY <1>0, <2>1
<1>6. hist'.strayed = hist.strayed
  BY <1>0, <1>A DEF PhaseKept, History
<1>7. /\ CoreKept' /\ ProcsKept' /\ CallsKept' /\ saved' = saved /\ pSched' = d.s
      /\ pCore' \in Tid \union {None} /\ pCore' \in {d.core, RootTask}
  <2>1. Lone(d.s) /\ Admitted(d.s) = Admitted(pSched) \ {pCore}
    BY <1>5 DEF Settled
  <2> QED BY <1>2, <1>4, <1>5, <1>6, <1>A, <1>B, <2>1, AbandonKept
<1>8. hist' \in History /\ hist'.crashes = hist.crashes
  BY <1>0, <1>7, <1>A, FaultRanKept
<1>9. pending' = pending
  BY <1>0, <1>2 DEF PhaseKept
<1>10. PhaseKept'
  BY <1>0, <1>8, <1>9 DEF PhaseKept, dm
<1>11. Admitted(pSched') = Admitted(pSched) \ {pCore}
  BY <1>5, <1>7 DEF Settled
<1>12. ManagerKept'
  BY <1>0, <1>2, <1>7, <1>11 DEF ManagerKept, Watching, dm
<1>13. CrashKept'
  <2>1. dmPc \in {"waiting", "woken"} => FirstFree \in Admitted(pSched) \ {pCore}
    BY <1>0, <1>2 DEF ManagerKept, Watching
  <2>2. dmPc \in {"waiting", "woken"} /\ pSched.ent[FirstFree].st = "Blocked" =>
          pSched'.ent[FirstFree].st = "Blocked" /\ pCore' # FirstFree
    BY <1>0, <1>5, <1>7, <2>1 DEF Settled
  <2>3. dmPc' = dmPc /\ policy' = policy /\ watched' = watched
    BY <1>0 DEF dm
  <2> QED BY <1>0, <1>2, <1>8, <1>9, <1>11, <2>2, <2>3 DEF CrashKept
<1> QED BY <1>7, <1>10, <1>12, <1>13 DEF SupInv

\* What holds whenever the manager makes a trap.
LEMMA ManagerRuns ==
  ASSUME SupInv, DmRuns, dmPc # "spinning"
  PROVE  /\ CoreKept /\ PhaseKept /\ ProcsKept /\ ManagerKept /\ CrashKept
         /\ Lone(pSched) /\ pCore = FirstFree /\ pSched.running = FirstFree /\ FirstFree # None
         /\ FirstFree \in Tid /\ FirstFree # RootTask /\ None \notin Tid
         /\ FirstFree \in Admitted(pSched) /\ Admitted(pSched) \subseteq Tid
         /\ dmTid = FirstFree /\ phase \in {"preemptive", "over"} /\ Watching
         /\ procA \in Admitted(pSched) /\ procA # FirstFree /\ pSched.ent[procA].st # "Blocked"
<1>1. CoreKept /\ PhaseKept /\ ProcsKept /\ ManagerKept /\ CrashKept
  BY DEF SupInv
<1>2. dmPc # "unborn" /\ pCore = FirstFree
  BY DEF DmRuns
<1>3. FirstFree \in Tid /\ FirstFree # RootTask /\ None \notin Tid /\ Admitted(pSched) \subseteq Tid
  BY <1>1, AdmittedIds
<1>4. Watching /\ phase \in {"preemptive", "over"}
  BY <1>1, <1>2, <1>3 DEF Watching, PhaseKept
<1>5. pSched.running = FirstFree
  BY <1>1, <1>2, <1>3, OwnName
<1> QED BY <1>1, <1>2, <1>3, <1>4, <1>5 DEF CoreKept, ManagerKept, ProcsKept

\* The manager's record with another state.
LEMMA StateKept ==
  ASSUME PhaseKept, NEW v \in {"Starting", "Running", "Restarting", "Failed"},
         policy' = [policy EXCEPT !.state = v]
  PROVE  /\ policy' \in [state : {"Starting", "Running", "Restarting", "Failed"}, restarts : Nat, lifetime : Nat]
         /\ policy'.restarts = policy.restarts /\ policy'.lifetime = policy.lifetime
  BY DEF PhaseKept

LEMMA DmProbeOkKeeps ==
  ASSUME SupInv, DmProbeOk
  PROVE  SupInv'
<1>1. /\ DmRuns /\ dmPc = "starting" /\ dmPc' = "waiting" /\ policy' = [policy EXCEPT !.state = "Running"]
      /\ UNCHANGED <<pSched, pCore, saved, next, exited, phase, ticks, kernel, hist>> /\ UNCHANGED calls
  BY DEF DmProbeOk
<1>2. /\ CoreKept /\ PhaseKept /\ ProcsKept /\ ManagerKept /\ CrashKept /\ pCore = FirstFree
      /\ phase \in {"preemptive", "over"}
  BY <1>1, ManagerRuns
<1>3. /\ policy' \in [state : {"Starting", "Running", "Restarting", "Failed"}, restarts : Nat, lifetime : Nat]
      /\ policy'.restarts = policy.restarts /\ policy'.lifetime = policy.lifetime
  BY <1>1, <1>2, StateKept
<1>4. CoreKept' /\ ProcsKept' /\ ManagerKept' /\ CrashKept'
  BY <1>1, <1>2, <1>3 DEF CoreKept, ProcsKept, ManagerKept, CrashKept, StandsFor, Watching, kernel
<1>5. PhaseKept'
  BY <1>1, <1>2, <1>3 DEF PhaseKept, kernel, DmPlace
<1>6. CallsKept'
  BY <1>1, CallsStay
<1> QED BY <1>4, <1>5, <1>6 DEF SupInv

\* The manager's own switch to another thread.
LEMMA ManagerSwitches ==
  ASSUME SupInv, DmRuns, dmPc # "spinning", NEW d, Switch(d), NEW t \in Tid, d.core = t, d.s.running = t,
         t # FirstFree, hist'.strayed = hist.strayed
  PROVE  /\ pSched' = d.s /\ pCore' \in Tid /\ pCore' \in {t, RootTask} /\ StandsFor(pCore', d.s.running, hist'.strayed)
         /\ saved' \in [Tid -> Tid] /\ (\A u \in Tid : StandsFor(saved'[u], u, hist'.strayed)) /\ saved'[FirstFree] = FirstFree
<1>1. CoreKept /\ PhaseKept /\ pCore = FirstFree /\ pSched.running = FirstFree /\ FirstFree \in Tid /\ None \notin Tid
  BY ManagerRuns
<1>2. pSched' = d.s /\ pCore' = Loaded(t) /\ saved' = [saved EXCEPT ![pSched.running] = pCore]
  BY <1>1 DEF Switch
<1>3. /\ StandsFor(pCore', t, hist'.strayed) /\ StandsFor(pCore', t, hist.strayed) /\ pCore' \in Tid \union {None}
      /\ saved' \in [Tid -> Tid] /\ \A u \in Tid : StandsFor(saved'[u], u, hist'.strayed)
  BY <1>1, <1>2, LoadKept
<1>4. saved'[FirstFree] = FirstFree
  BY <1>1, <1>2 DEF CoreKept
<1>5. pCore' \in {t, RootTask} /\ pCore' # None
  BY <1>1, <1>3, AdmittedIds DEF StandsFor
<1> QED BY <1>2, <1>3, <1>4, <1>5

LEMMA DmWaitCrashKeeps ==
  ASSUME SupInv, DmWaitCrash
  PROVE  SupInv'
<1>1. /\ DmRuns /\ dmPc = "waiting" /\ dmPc' = "woken" /\ policy' = policy
      /\ UNCHANGED <<next, exited, phase, ticks, kernel>> /\ UNCHANGED calls
  BY DEF DmWaitCrash
<1>2. /\ CoreKept /\ PhaseKept /\ ProcsKept /\ ManagerKept /\ CrashKept
      /\ Lone(pSched) /\ pCore = FirstFree /\ pSched.running = FirstFree /\ FirstFree # None
      /\ FirstFree # RootTask /\ None \notin Tid
      /\ Admitted(pSched) \subseteq Tid /\ phase \in {"preemptive", "over"}
      /\ procA \in Admitted(pSched) /\ procA # FirstFree /\ pSched.ent[procA].st # "Blocked"
  BY <1>1, ManagerRuns
<1>3. CASE pending /\ UNCHANGED <<pSched, pCore, saved, hist>>
  <2>1. CoreKept' /\ ProcsKept' /\ ManagerKept' /\ CrashKept'
    BY <1>1, <1>2, <1>3 DEF CoreKept, ProcsKept, ManagerKept, CrashKept, StandsFor, Watching, kernel
  <2>2. PhaseKept'
    BY <1>1, <1>2, <1>3 DEF PhaseKept, kernel, DmPlace
  <2>3. CallsKept'
    BY <1>1, <1>3, CallsStay
  <2> QED BY <2>1, <2>2, <2>3 DEF SupInv
<1>4. CASE /\ ~pending
           /\ \E x \in RunSlice :
                \E d \in {BlockThread(pSched, pSched.running, pSched.running, x)} : Switch(d)
           /\ hist' = [hist EXCEPT !.ran = Ran(pCore')]
  <2>1. PICK x \in RunSlice : Switch(BlockThread(pSched, pSched.running, pSched.running, x))
    BY <1>4
  <2>2. x \in Nat
    BY BudgetAssumption DEF RunSlice
  <2>3. PICK d : d = BlockThread(pSched, pSched.running, pSched.running, x)
    OBVIOUS
  <2>4. Switch(d)
    BY <2>1, <2>3
  <2>5. /\ Lone(d.s) /\ d.core = d.s.running /\ Admitted(d.s) = Admitted(pSched) /\ d.core # None
        /\ d.core # pSched.running /\ d.s.ent[pSched.running].st = "Blocked" /\ d.s.ent[procA].st # "Blocked"
    BY <1>2, <2>2, <2>3, BlockThreadSettles
  <2>6. PICK t \in Tid : t = d.core
    BY <1>2, <2>5, LoneShape
  <2>7. hist'.strayed = hist.strayed
    BY <1>2, <1>4 DEF PhaseKept, History
  <2>8. /\ pSched' = d.s /\ pCore' \in Tid /\ pCore' \in {t, RootTask} /\ StandsFor(pCore', d.s.running, hist'.strayed)
        /\ saved' \in [Tid -> Tid] /\ (\A u \in Tid : StandsFor(saved'[u], u, hist'.strayed)) /\ saved'[FirstFree] = FirstFree
    BY <1>1, <1>2, <2>4, <2>5, <2>6, <2>7, ManagerSwitches
  <2>9. CoreKept'
    <3>1. StandsFor(pCore', pSched'.running, hist'.strayed) /\ next' = next
      BY <1>1, <2>8 DEF StandsFor
    <3> QED BY <1>2, <2>5, <2>8, <3>1 DEF CoreKept
  <2>10. hist' \in History /\ hist'.crashes = hist.crashes
    BY <1>2, <1>4, <2>8, RanKept
  <2>11. PhaseKept'
    BY <1>1, <1>2, <2>10 DEF PhaseKept, kernel, DmPlace
  <2>12. ManagerKept' /\ ProcsKept'
    BY <1>1, <1>2, <2>5, <2>8 DEF ManagerKept, ProcsKept, Watching, kernel
  <2>13. CrashKept'
    <3>1. pending' = FALSE /\ pending = FALSE
      BY <1>1, <1>2, <1>4 DEF kernel, PhaseKept
    <3>2. hist'.crashes = policy'.lifetime + 0 /\ pCore' # FirstFree /\ pSched'.ent[FirstFree].st = "Blocked"
      BY <1>1, <1>2, <2>5, <2>6, <2>8, <2>10, <3>1 DEF CrashKept
    <3> QED BY <1>1, <3>1, <3>2 DEF CrashKept
  <2>14. CallsKept'
    BY <1>1, <2>5, <2>8, CallsStay
  <2> QED BY <2>9, <2>11, <2>12, <2>13, <2>14 DEF SupInv
<1> QED BY <1>3, <1>4 DEF DmWaitCrash

LEMMA DmPollCrashKeeps ==
  ASSUME SupInv, DmPollCrash
  PROVE  SupInv'
<1>1. /\ DmRuns /\ dmPc = "woken" /\ pending' = FALSE
      /\ policy' = OnCrashInWindow(policy)
      /\ dmPc' = (IF policy'.state = "Failed" THEN "spinning" ELSE "respawning")
      /\ dmTid' = (IF policy'.state = "Failed" THEN None ELSE dmTid)
      /\ UNCHANGED <<pSched, pCore, saved, next, exited, phase, ticks, watched, procC, procA, hist>>
      /\ UNCHANGED calls
  BY DEF DmPollCrash
<1>2. /\ CoreKept /\ PhaseKept /\ ProcsKept /\ ManagerKept /\ CrashKept
      /\ pCore = FirstFree /\ FirstFree \in Admitted(pSched) /\ dmTid = FirstFree /\ phase \in {"preemptive", "over"}
      /\ Watching
  BY <1>1, ManagerRuns
<1>3. policy.restarts \in Nat /\ policy.lifetime \in Nat /\ policy.restarts <= RestartBudget + 0
  BY <1>1, <1>2 DEF PhaseKept
<1>4. /\ policy'.restarts = policy.restarts + 1 /\ policy'.lifetime = policy.lifetime + 1
      /\ policy'.state = (IF policy.restarts + 1 > RestartBudget THEN "Failed" ELSE "Restarting")
      /\ policy' \in [state : {"Starting", "Running", "Restarting", "Failed"}, restarts : Nat, lifetime : Nat]
  BY <1>1, <1>3 DEF OnCrashInWindow
<1>5. policy'.restarts <= RestartBudget + (IF dmPc' = "spinning" THEN 1 ELSE 0)
  BY <1>1, <1>3, <1>4, BudgetAssumption
<1>6. CoreKept'
  BY <1>1, <1>2 DEF CoreKept, StandsFor
<1>7. PhaseKept'
  <2>1. dmPc' \in DmPlace /\ pending' \in BOOLEAN
    BY <1>1 DEF DmPlace
  <2> QED BY <1>1, <1>2, <1>4, <1>5, <2>1 DEF PhaseKept
<1>8. ManagerKept' /\ ProcsKept'
  BY <1>1, <1>2 DEF ManagerKept, ProcsKept, Watching
<1>9. CrashKept'
  <2>1. hist'.crashes = policy'.lifetime + 0 /\ watched' \notin Admitted(pSched')
    <3>1. pending /\ hist.crashes = policy.lifetime + 1 /\ watched \notin Admitted(pSched)
      BY <1>1, <1>2 DEF CrashKept
    <3> QED BY <1>1, <1>3, <1>4, <3>1
  <2> QED BY <1>1, <1>2, <2>1 DEF CrashKept
<1>10. CallsKept'
  BY <1>1, CallsStay
<1> QED BY <1>6, <1>7, <1>8, <1>9, <1>10 DEF SupInv

LEMMA DmRespawnKeeps ==
  ASSUME SupInv, DmRespawn
  PROVE  SupInv'
<1>1. /\ DmRuns /\ dmPc = "respawning" /\ dmPc' = "waiting" /\ policy' = [policy EXCEPT !.state = "Starting"]
      /\ UNCHANGED <<exited, phase, ticks, dmTid, pending, procC, procA>> /\ UNCHANGED calls
  BY DEF DmRespawn
<1>2. /\ CoreKept /\ PhaseKept /\ ProcsKept /\ ManagerKept /\ CrashKept
      /\ Lone(pSched) /\ pCore = FirstFree /\ pSched.running = FirstFree /\ FirstFree # None /\ None \notin Tid
      /\ FirstFree \in Admitted(pSched) /\ dmTid = FirstFree /\ phase \in {"preemptive", "over"} /\ Watching
      /\ procA \in Admitted(pSched) /\ procA # FirstFree /\ pSched.ent[procA].st # "Blocked"
  BY <1>1, ManagerRuns
<1>3. /\ policy' \in [state : {"Starting", "Running", "Restarting", "Failed"}, restarts : Nat, lifetime : Nat]
      /\ policy'.restarts = policy.restarts /\ policy'.lifetime = policy.lifetime
  BY <1>1, <1>2, StateKept
<1>4. pending = FALSE /\ hist.crashes = policy.lifetime + 0
  BY <1>1, <1>2 DEF CrashKept, PhaseKept
<1>5. CASE /\ next <= LastTid
           /\ next' = next + 1 /\ watched' = next
           /\ \E x \in RunSlice :
                \E d \in {YieldToThread(InitUserThread(pSched, next), pSched.running, next, x)} : Switch(d)
           /\ hist' = [hist EXCEPT !.ran = Ran(pCore')]
  <2>1. PICK x \in RunSlice : Switch(YieldToThread(InitUserThread(pSched, next), pSched.running, next, x))
    BY <1>5
  <2>2. x \in Nat
    BY BudgetAssumption DEF RunSlice
  <2>3. PICK d : d = YieldToThread(InitUserThread(pSched, next), pSched.running, next, x)
    OBVIOUS
  <2>4. Switch(d)
    BY <2>1, <2>3
  <2>5. next \in Nat /\ next \notin Admitted(pSched) /\ LastTid \in Nat /\ FirstFree \in Nat
    BY <1>2, AdmittedIds
  <2>6. /\ Lone(d.s) /\ d.core = next /\ d.s.running = next /\ Admitted(d.s) = Admitted(pSched) \union {next}
        /\ d.s.ent[pSched.running].st = "Blocked" /\ d.s.ent[procA].st # "Blocked"
    <3>1. /\ Lone(pSched) /\ pSched.running # None /\ procA \in Admitted(pSched) /\ procA # pSched.running
          /\ pSched.ent[procA].st # "Blocked" /\ next \in Nat /\ next \notin Admitted(pSched)
      BY <1>2, <2>5
    <3> QED BY <2>2, <2>3, <3>1, YieldToNewSettles, SMTT(60)
  <2>7. next # FirstFree /\ next \in Tid /\ next >= FirstFree /\ next > 0
    BY <1>2, <1>5, <2>5, BudgetAssumption DEF Tid, PhaseKept, FirstFree
  <2>8. hist'.strayed = hist.strayed
    BY <1>2, <1>5 DEF PhaseKept, History
  <2>9. /\ pSched' = d.s /\ pCore' \in Tid /\ pCore' \in {next, RootTask} /\ StandsFor(pCore', d.s.running, hist'.strayed)
        /\ saved' \in [Tid -> Tid] /\ (\A u \in Tid : StandsFor(saved'[u], u, hist'.strayed)) /\ saved'[FirstFree] = FirstFree
    BY <1>1, <2>4, <2>6, <2>7, <2>8, ManagerSwitches
  <2>10. CoreKept'
    <3>1. Admitted(pSched) \union {next} \subseteq 0 .. next' - 1
      BY <1>2, <1>5, <2>5 DEF CoreKept
    <3>2. StandsFor(pCore', pSched'.running, hist'.strayed)
      BY <2>9 DEF StandsFor
    <3> QED BY <2>6, <2>9, <3>1, <3>2 DEF CoreKept
  <2>11. hist' \in History /\ hist'.crashes = hist.crashes
    BY <1>2, <1>5, <2>9, RanKept
  <2>12. PhaseKept'
    <3>1. next' \in FirstFree .. LastTid + 1
      BY <1>2, <1>5, <2>5 DEF PhaseKept
    <3> QED BY <1>1, <1>2, <1>3, <2>11, <3>1 DEF PhaseKept, DmPlace
  <2>13. ManagerKept'
    BY <1>1, <1>2, <1>5, <2>6, <2>7, <2>9 DEF ManagerKept, Watching
  <2>14. ProcsKept'
    <3>1. next \in FirstFree .. next' - 1 /\ FirstFree .. next - 1 \subseteq FirstFree .. next' - 1
      BY <1>5, <2>5, <2>7
    <3>2. procC \in {None} \union FirstFree .. next' - 1 /\ procC # next
      BY <1>2, <2>5, <3>1, IdAssumption DEF ProcsKept
    <3>3. procA # next /\ RootTask # next
      BY <1>2, <2>5, <2>7 DEF RootTask
    <3>4. procA \in Admitted(pSched') /\ RootTask \notin Admitted(pSched')
      BY <1>2, <2>6, <2>9, <3>3 DEF ProcsKept
    <3> QED BY <1>1, <1>2, <1>5, <2>6, <2>9, <3>1, <3>2, <3>3, <3>4 DEF ProcsKept
  <2>15. CrashKept'
    BY <1>1, <1>2, <1>3, <1>4, <2>6, <2>9, <2>11 DEF CrashKept
  <2>16. CallsKept'
    BY <1>1, <2>6, <2>9, CallsStay
  <2> QED BY <2>10, <2>12, <2>13, <2>14, <2>15, <2>16 DEF SupInv
<1>6. CASE hist' = [hist EXCEPT !.refused = TRUE] /\ UNCHANGED <<pSched, pCore, saved, next, watched>>
  <2>1. hist' \in History /\ hist'.crashes = hist.crashes /\ hist'.strayed = hist.strayed
    BY <1>2, <1>6 DEF PhaseKept, History
  <2>2. CoreKept' /\ ManagerKept' /\ ProcsKept'
    BY <1>1, <1>2, <1>6, <2>1 DEF CoreKept, ManagerKept, ProcsKept, StandsFor, Watching
  <2>3. PhaseKept'
    BY <1>1, <1>2, <1>3, <1>6, <2>1 DEF PhaseKept, DmPlace
  <2>4. CrashKept'
    BY <1>1, <1>2, <1>3, <1>4, <1>6, <2>1 DEF CrashKept
  <2>5. CallsKept'
    BY <1>1, <1>6, CallsStay
  <2> QED BY <2>2, <2>3, <2>4, <2>5 DEF SupInv
<1> QED BY <1>5, <1>6 DEF DmRespawn

LEMMA SupInvNext == SupInv /\ [SupNext]_supervision => SupInv'
<1> SUFFICES ASSUME SupInv, [SupNext]_supervision PROVE SupInv'
  OBVIOUS
<1>1. CASE PreemptStart
  BY <1>1, PreemptStartKeeps
<1>2. CASE TickEnds
  BY <1>2, TickEndsKeeps
<1>3. CASE TickSwitches
  BY <1>3, TickSwitchesKeeps
<1>4. CASE ServiceParks
  BY <1>4, ServiceParksKeeps
<1>4a. CASE ServiceTakes
  BY <1>4a, ServiceTakesKeeps
<1>4b. CASE ServiceReplies
  BY <1>4b, ServiceRepliesKeeps
<1>4c. CASE ServiceCalls
  BY <1>4c, ServiceCallsKeeps
<1>5. CASE DriverFaults
  BY <1>5, DriverFaultsKeeps
<1>6. CASE OtherFaults
  BY <1>6, OtherFaultsKeeps
<1>7. CASE DmProbeOk
  BY <1>7, DmProbeOkKeeps
<1>8. CASE DmWaitCrash
  BY <1>8, DmWaitCrashKeeps
<1>9. CASE DmPollCrash
  BY <1>9, DmPollCrashKeeps
<1>10. CASE DmRespawn
  BY <1>10, DmRespawnKeeps
<1>11. CASE UNCHANGED supervision
  <2>1. CoreKept' /\ PhaseKept' /\ ProcsKept' /\ ManagerKept' /\ CrashKept' /\ CallsKept'
    BY <1>11 DEF SupInv, CoreKept, PhaseKept, ProcsKept, ManagerKept, CrashKept, CallsKept, StandsFor, Watching,
                 supervision, kernel, dm, calls
  <2> QED BY <2>1 DEF SupInv
<1> QED BY <1>1, <1>2, <1>3, <1>4, <1>4a, <1>4b, <1>4c, <1>5, <1>6, <1>7, <1>8, <1>9, <1>10, <1>11
        DEF SupNext, ServiceStep, Manager

LEMMA SupInvHolds == SupSpec => []SupInv
  BY SupInvInit, SupInvNext, PTL DEF SupSpec

LEMMA SupInvCore == SupInv => CoreIsRunning
<1> SUFFICES ASSUME SupInv PROVE CoreIsRunning
  OBVIOUS
<1>1. CoreKept /\ PhaseKept
  BY DEF SupInv
<1>2. Admitted(pSched) \subseteq Tid /\ pCore \in Tid \union {None} /\ pSched.running \in Tid \union {None}
  BY <1>1, AdmittedIds
<1>3. policy.restarts \in 0 .. RestartBudget + 1
  <2>1. policy.restarts \in Nat /\ policy.restarts <= RestartBudget + (IF dmPc = "spinning" THEN 1 ELSE 0)
    BY <1>1 DEF PhaseKept
  <2> QED BY <2>1, BudgetAssumption
<1>4. SupTypeOK
  BY <1>1, <1>2, <1>3 DEF SupTypeOK, PhaseKept, CoreKept, SupInv, CallsKept
<1>5. {t \in Admitted(pSched) : pSched.ent[t].st = "Running"} = {pSched.running} \ {None}
  <2>1. /\ pSched.running # None => pSched.running \in Admitted(pSched)
        /\ \A t \in Admitted(pSched) : pSched.ent[t].st = "Running" <=> t = pSched.running
    BY <1>1, LoneShape DEF CoreKept
  <2>2. None \notin Admitted(pSched)
    BY <1>1, LoneShape, IdAssumption DEF CoreKept
  <2> QED BY <2>1, <2>2
<1>6. pCore = pSched.running \/ (pCore = RootTask /\ hist.strayed)
  BY <1>1 DEF CoreKept, StandsFor
<1> QED BY <1>4, <1>5, <1>6 DEF CoreIsRunning

(***************************************************************************)
(* Through every tick, fault, hand-off and respawn, every call and reply   *)
(* of the services and every stray IPC_RECV, for all budgets and any       *)
(* number of services: the thread the scheduler names as running is the    *)
(* one whose program the core executes, or the core is in the retired Root *)
(* Task's loop after a service strayed into it; and it is the only one in  *)
(* state Running.  Ids, ticks and restarts stay within their budgets.      *)
(***************************************************************************)
THEOREM RunningHasCore == SupSpec => []CoreIsRunning
  BY SupInvHolds, SupInvCore, PTL

(***************************************************************************)
(* PENDING_CRASH is one flag, not a count, and is enough: every crash of a *)
(* watched driver is counted by on_crash exactly once or still pending,    *)
(* although p2_fault and DM_WAIT_CRASH go by running() and services stray. *)
(***************************************************************************)
THEOREM EveryCrashCounted == SupSpec => []CrashesCounted
<1>1. SupInv => CrashesCounted
  BY DEF SupInv, CrashKept, CrashesCounted
<1> QED BY <1>1, SupInvHolds, PTL
=============================================================================
