------------------------------ MODULE CapTable ------------------------------
(***************************************************************************)
(* kernel-cap: capability tables (cdt.rs).  Each table is an array of N    *)
(* slots with an intrusive LIFO free list; a derived slot stores the       *)
(* (space, slot) pair of its parent and nothing else, so revocation finds  *)
(* descendants by walking parent links upwards from every occupied slot of *)
(* every table.                                                            *)
(***************************************************************************)
EXTENDS Naturals, Sequences, FiniteSets

CONSTANTS
  M,        \* number of table slots in the kernel (MAX_CAP_SPACES), at least 1
  N,        \* slots per table (CAPS_PER_SPACE), at least 1
  Space,    \* 0 .. M - 1
  Slot,     \* 0 .. N - 1
  Object, Right, Badge, NoBadge, None

VARIABLES
  tables,   \* spaces whose table exists (Some)
  cap,      \* CapSlot::cap, by (space, slot)
  parent,   \* CapSlot::parent
  freeList, \* per table: free_head and the free_next chain, head first
  occupied  \* per table: the occupied counter

vars == <<tables, cap, parent, freeList, occupied>>

Forest == INSTANCE CapSpec WITH cap <- cap, parent <- parent

Node == Forest!Node

TypeOK ==
  /\ Forest!TypeOK
  /\ tables \in SUBSET Space
  /\ freeList \in [Space -> Seq(Slot)]
  /\ occupied \in [Space -> 0 .. N]

\* Capability::full: every right, no badge.  All roots are minted this way.
FullCap(o) == [object |-> o, rights |-> Right, badge |-> NoBadge]
-----------------------------------------------------------------------------
Init ==
  /\ tables   = {}
  /\ cap      = [n \in Node |-> None]
  /\ parent   = [n \in Node |-> None]
  /\ freeList = [s \in Space |-> <<>>]
  /\ occupied = [s \in Space |-> 0]

\* CapTable::new in the first unused table slot; the free list runs 0, 1, ...
AllocCapSpace(s) ==
  /\ s \notin tables /\ \A r \in Space : r < s => r \in tables
  /\ tables'   = tables \cup {s}
  /\ freeList' = [freeList EXCEPT ![s] = [k \in 1 .. N |-> k - 1]]
  /\ UNCHANGED <<cap, parent, occupied>>

\* alloc_slot followed by the caller's stores into the slot it got.
Fill(s, c, p) ==
  /\ freeList[s] # <<>>
  /\ LET n == <<s, Head(freeList[s])>> IN
       /\ cap'    = [cap EXCEPT ![n] = c]
       /\ parent' = [parent EXCEPT ![n] = p]
  /\ freeList' = [freeList EXCEPT ![s] = Tail(@)]
  /\ occupied' = [occupied EXCEPT ![s] = @ + 1]
  /\ UNCHANGED tables

\* insert_root
InsertRoot(s, c) == s \in tables /\ Fill(s, c, None)

\* mutant of InsertDerived: the rights check is lost
InsertUnchecked(p, dst, rights, asked) ==
  /\ p[1] \in tables /\ dst \in tables
  /\ cap[p] # None
  /\ \E badge \in Forest!EffectiveBadge(cap[p].badge, asked) :
       Fill(dst, [object |-> cap[p].object, rights |-> rights, badge |-> badge], p)

\* mutant of InsertDerived: the parent slot is remembered in the child's space
InsertLocally(p, dst, rights, asked) ==
  /\ p[1] \in tables /\ dst \in tables
  /\ cap[p] # None
  /\ rights \subseteq cap[p].rights
  /\ \E badge \in Forest!EffectiveBadge(cap[p].badge, asked) :
       Fill(dst, [object |-> cap[p].object, rights |-> rights, badge |-> badge], <<dst, p[2]>>)

\* insert_derived, for derive_child (dst is the parent's own space) and for
\* derive_child_cross_space (any other space) alike.
InsertDerived(p, dst, rights, asked) ==
  /\ p[1] \in tables /\ dst \in tables
  /\ cap[p] # None
  /\ rights \subseteq cap[p].rights
  /\ \E badge \in Forest!EffectiveBadge(cap[p].badge, asked) :
       Fill(dst, [object |-> cap[p].object, rights |-> rights, badge |-> badge], p)

(***************************************************************************)
(* is_descendant_of: follow parent links from cur, at most M * N + 1 of    *)
(* them, until the target is met or the chain ends.                        *)
(***************************************************************************)
\* Where the walk stands after k links: None once the chain has ended.
Walk(cur) ==
  LET at[k \in 0 .. M * N + 1] ==
        IF k = 0 THEN cur ELSE IF at[k - 1] = None THEN None ELSE parent[at[k - 1]]
  IN at

IsDescendantOf(cur, target) == \E k \in 1 .. M * N + 1 : Walk(cur)[k] = target

\* mutant of Marked: everything that names the object is freed
MarkedByObject(target) == {n \in Node : cap[n] # None /\ cap[n].object = cap[target].object}

\* Pass 1 of revoke_cross_space: the occupied slots to free.
Marked(target) ==
  {n \in Node : cap[n] # None /\ (n = target \/ IsDescendantOf(n, target))}

\* free_slot for each doomed slot of table s in index order: the free list
\* after the slots below k, each pushed on the head.
\* mutant of Pushed: the loop leaves the first slot out
PushedFromOne(s, doomed) ==
  LET list[k \in 0 .. N] ==
        IF k <= 1 THEN freeList[s]
        ELSE IF <<s, k - 1>> \in doomed THEN <<k - 1>> \o list[k - 1] ELSE list[k - 1]
  IN list

Pushed(s, doomed) ==
  LET list[k \in 0 .. N] ==
        IF k = 0 THEN freeList[s]
        ELSE IF <<s, k - 1>> \in doomed THEN <<k - 1>> \o list[k - 1] ELSE list[k - 1]
  IN list

Released(s, doomed) == Pushed(s, doomed)[N]

\* mutant of RevokeCrossSpace: descendants in other tables are only detached
RevokeOwnSpace(target) ==
  /\ target[1] \in tables
  /\ cap[target] # None
  /\ LET doomed == {n \in Marked(target) : n[1] = target[1]} IN
       /\ cap'      = [n \in Node |-> IF n \in doomed THEN None ELSE cap[n]]
       /\ parent'   = [n \in Node |-> IF n \in Marked(target) THEN None ELSE parent[n]]
       /\ freeList' = [s \in Space |-> Released(s, doomed)]
       /\ occupied' = [s \in Space |-> occupied[s] - Cardinality({n \in doomed : n[1] = s})]
  /\ UNCHANGED tables

\* revoke_cross_space
RevokeCrossSpace(target) ==
  /\ target[1] \in tables
  /\ cap[target] # None
  /\ LET doomed == Marked(target) IN
       /\ cap'      = [n \in Node |-> IF n \in doomed THEN None ELSE cap[n]]
       /\ parent'   = [n \in Node |-> IF n \in doomed THEN None ELSE parent[n]]
       /\ freeList' = [s \in Space |-> Released(s, doomed)]
       /\ occupied' = [s \in Space |-> occupied[s] - Cardinality({n \in doomed : n[1] = s})]
  /\ UNCHANGED tables

Next ==
  \/ \E s \in Space : AllocCapSpace(s)
  \/ \E s \in Space, o \in Object : InsertRoot(s, FullCap(o))
  \/ \E p \in Node, dst \in Space, rights \in SUBSET Right, asked \in Badge :
        InsertDerived(p, dst, rights, asked)
  \/ \E t \in Node : RevokeCrossSpace(t)

Spec == Init /\ [][Next]_vars
-----------------------------------------------------------------------------
(***************************************************************************)
(* cdt.rs invariants 1 and 2: the free list of an existing table holds     *)
(* exactly its empty slots, each once, and the occupied counter counts the *)
(* others.  Reuse of a live slot or a leaked slot breaks it.               *)
(***************************************************************************)
FreeListExact ==
  \A s \in tables :
    LET empty == {i \in Slot : cap[<<s, i>>] = None} IN
      /\ {freeList[s][k] : k \in DOMAIN freeList[s]} = empty
      /\ Len(freeList[s]) = Cardinality(empty)
      /\ occupied[s] = N - Cardinality(empty)

=============================================================================
