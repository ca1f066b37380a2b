------------------------------- MODULE CapSpec -------------------------------
(***************************************************************************)
(* What kernel-cap promises, free of its data structures: a forest of      *)
(* capabilities spread over several capability spaces.  A slot holds a     *)
(* capability or nothing; a capability is a root (minted by the kernel) or *)
(* was derived from another one, its parent.  CapTable implements this     *)
(* specification with per-table free lists and a bounded ancestry walk.    *)
(***************************************************************************)
CONSTANTS
  Space,    \* capability-space ids (CapSpaceId)
  Slot,     \* slot indices within a table (CapId)
  Object,   \* kernel objects a capability may name (ObjectRef)
  Right,    \* the individual rights (bits of CapabilityRights)
  Badge,    \* badge values
  NoBadge,  \* the badge 0: not badged yet
  None      \* Rust's Option::None

Node == Space \X Slot                                   \* GlobalCapId

Capability == [object : Object, rights : SUBSET Right, badge : Badge]

ASSUME BadgeAssumption == NoBadge \in Badge
ASSUME NoneAssumption  == None \notin Capability /\ None \notin Node

VARIABLES
  cap,      \* cap[n]: the capability in slot n, or None
  parent    \* parent[n]: the slot n was derived from, or None

vars == <<cap, parent>>

Live == {n \in Node : cap[n] # None}

TypeOK ==
  /\ cap \in [Node -> Capability \cup {None}]
  /\ parent \in [Node -> Node \cup {None}]

(***************************************************************************)
(* t's subtree: t and everything derived from it, directly or not.  The    *)
(* least set that holds t and, with any slot, the slots derived from it.   *)
(***************************************************************************)
ClosedUnderDerivation(S) ==
  \A n \in Live : parent[n] \in S => n \in S

Subtree(t) ==
  {n \in Live : \A S \in SUBSET Live : t \in S /\ ClosedUnderDerivation(S) => n \in S}

(***************************************************************************)
(* The badge a derived capability carries: a badge is given at most once   *)
(* on the way from a root, then inherited.  {} when the request conflicts. *)
(***************************************************************************)
EffectiveBadge(inherited, asked) ==
  IF inherited = NoBadge THEN {asked}
  ELSE {b \in {inherited} : asked \in {NoBadge, inherited}}

-----------------------------------------------------------------------------
Init ==
  /\ cap    = [n \in Node |-> None]
  /\ parent = [n \in Node |-> None]

\* The kernel mints a capability that has no ancestor.
InsertRoot(n, c) ==
  /\ cap[n] = None
  /\ cap'    = [cap EXCEPT ![n] = c]
  /\ parent' = [parent EXCEPT ![n] = None]

\* A capability is copied from p into the empty slot n, never widened.
Derive(p, n, rights, badge) ==
  /\ cap[p] # None
  /\ cap[n] = None
  /\ rights \subseteq cap[p].rights
  /\ cap' = [cap EXCEPT ![n] = [object |-> cap[p].object, rights |-> rights, badge |-> badge]]
  /\ parent' = [parent EXCEPT ![n] = p]

\* A capability and all that was derived from it disappear, nothing else.
Revoke(t) ==
  /\ cap[t] # None
  /\ cap'    = [n \in Node |-> IF n \in Subtree(t) THEN None ELSE cap[n]]
  /\ parent' = [n \in Node |-> IF n \in Subtree(t) THEN None ELSE parent[n]]

Next ==
  \/ \E n \in Node, c \in Capability : InsertRoot(n, c)
  \/ \E p, n \in Node, rights \in SUBSET Right, asked \in Badge :
        /\ cap[p] # None
        /\ \E badge \in EffectiveBadge(cap[p].badge, asked) : Derive(p, n, rights, badge)
  \/ \E t \in Node : Revoke(t)

Spec == Init /\ [][Next]_vars
-----------------------------------------------------------------------------
(***************************************************************************)
(* cdt.rs invariant 3: a parent link never names an empty slot.            *)
(***************************************************************************)
ParentsLive ==
  \A n \in Node : parent[n] # None => cap[n] # None /\ cap[parent[n]] # None

(***************************************************************************)
(* cdt.rs invariant 4 and rights.rs: along every derivation the object     *)
(* stays the same, rights never grow and a badge, once given, never        *)
(* changes.                                                                *)
(***************************************************************************)
NeverAmplified ==
  \A n \in Node : parent[n] # None =>
    LET p == parent[n] IN
      /\ cap[n].object = cap[p].object
      /\ cap[n].rights \subseteq cap[p].rights
      /\ cap[p].badge # NoBadge => cap[n].badge = cap[p].badge

(***************************************************************************)
(* cdt.rs invariant 5: derivation has no cycle.  Every non-empty set of    *)
(* occupied slots has a member whose parent lies outside the set.          *)
(***************************************************************************)
Acyclic ==
  \A S \in SUBSET Live : S # {} => \E n \in S : parent[n] \notin S

(***************************************************************************)
(* A slot that no longer holds a capability keeps nothing of the derivation*)
(* it was part of, and a step changes the authority of an occupied slot    *)
(* only by emptying it together with everything derived from it.           *)
(***************************************************************************)
RevokedTogether ==
  \A n \in Node : cap[n] # None /\ cap'[n] # cap[n] =>
    /\ cap'[n] = None
    /\ \A m \in Subtree(n) : cap'[m] = None

RevocationComplete == [][RevokedTogether]_vars
=============================================================================
