--------------------------- MODULE CapSpecProofs ---------------------------
(***************************************************************************)
(* Proofs about the capability forest, for every set of spaces, slots,     *)
(* objects, rights and badges.                                             *)
(***************************************************************************)
EXTENDS CapSpec, TLAPS

(***************************************************************************)
(* Subtree(t) contains t, is closed under derivation and contains only     *)
(* occupied slots: what revoke_cross_space frees is a whole subtree.       *)
(***************************************************************************)
LEMMA SubtreeClosed ==
  ASSUME NEW t \in Live
  PROVE  /\ t \in Subtree(t)
         /\ Subtree(t) \subseteq Live
         /\ ClosedUnderDerivation(Subtree(t))
<1>1. t \in Subtree(t) /\ Subtree(t) \subseteq Live
  BY DEF Subtree
<1>2. ASSUME NEW n \in Live, parent[n] \in Subtree(t)
      PROVE  n \in Subtree(t)
  <2>1. SUFFICES ASSUME NEW S \in SUBSET Live, t \in S, ClosedUnderDerivation(S)
                 PROVE  n \in S
    BY <1>2 DEF Subtree
  <2>2. parent[n] \in S
    BY <1>2, <2>1 DEF Subtree
  <2>3. QED
    BY <1>2, <2>1, <2>2 DEF ClosedUnderDerivation
<1>3. QED
  BY <1>1, <1>2 DEF ClosedUnderDerivation

(***************************************************************************)
(* Whatever Subtree(t) holds besides t was derived from a member of it: no *)
(* capability outside the derivations of t is freed with t.                *)
(***************************************************************************)
LEMMA SubtreeExact ==
  ASSUME NEW t \in Live, NEW n \in Subtree(t), n # t
  PROVE  parent[n] \in Subtree(t)
<1>1. SUFFICES ASSUME parent[n] \notin Subtree(t) PROVE FALSE
  OBVIOUS
<1> DEFINE S == Subtree(t) \ {n}
<1>2. S \in SUBSET Live /\ t \in S
  BY SubtreeClosed
<1>3. ClosedUnderDerivation(S)
  BY <1>1, SubtreeClosed DEF ClosedUnderDerivation
<1>4. n \in S
  BY <1>2, <1>3 DEF Subtree
<1>5. QED
  BY <1>4

(***************************************************************************)
(* The forest invariant, and its type part.                                *)
(***************************************************************************)
ForestInv == TypeOK /\ ParentsLive /\ NeverAmplified /\ Acyclic

(***************************************************************************)
(* Minting a root capability (insert_root) preserves the forest.           *)
(***************************************************************************)
LEMMA InsertRootPreserves ==
  ASSUME ForestInv, NEW n \in Node, NEW c \in Capability, InsertRoot(n, c)
  PROVE  ForestInv'
<1> USE NoneAssumption DEF ForestInv, InsertRoot
<1>1. TypeOK'
  BY DEF TypeOK
<1>2. Live' = Live \cup {n} /\ n \notin Live
  BY DEF TypeOK, Live
<1>3. ParentsLive'
  BY DEF TypeOK, ParentsLive
<1>4. NeverAmplified'
  BY DEF TypeOK, ParentsLive, NeverAmplified
<1>5. Acyclic'
  <2>1. SUFFICES ASSUME NEW S \in SUBSET Live', S # {}
                 PROVE  \E m \in S : parent'[m] \notin S
    BY DEF Acyclic
  <2>2. CASE n \in S
    BY <2>2, <2>1, <1>2 DEF TypeOK, Live
  <2>3. CASE n \notin S
    <3>1. S \in SUBSET Live
      BY <2>1, <2>3, <1>2
    <3>2. PICK m \in S : parent[m] \notin S
      BY <2>1, <3>1 DEF Acyclic
    <3>3. parent'[m] = parent[m]
      BY <2>3, <3>1 DEF TypeOK, Live
    <3>4. QED
      BY <3>2, <3>3
  <2>4. QED
    BY <2>2, <2>3
<1>6. QED
  BY <1>1, <1>3, <1>4, <1>5

(***************************************************************************)
(* Deriving a capability (insert_derived) preserves the forest: the new    *)
(* leaf is no wider than its parent and no occupied slot pointed at it.    *)
(***************************************************************************)
LEMMA DerivePreserves ==
  ASSUME ForestInv, NEW p \in Node, NEW n \in Node, NEW rights \in SUBSET Right,
         NEW asked \in Badge, cap[p] # None,
         NEW badge \in EffectiveBadge(cap[p].badge, asked),
         Derive(p, n, rights, badge)
  PROVE  ForestInv'
<1> USE NoneAssumption DEF ForestInv, Derive
<1>1. cap[p] \in Capability /\ p # n
  BY DEF TypeOK
<1>2. badge \in Badge /\ (cap[p].badge # NoBadge => badge = cap[p].badge)
  BY <1>1 DEF EffectiveBadge, Capability
<1>3. TypeOK'
  BY <1>1, <1>2 DEF TypeOK, Capability
<1>4. Live' = Live \cup {n} /\ n \notin Live /\ p \in Live
  BY <1>1, <1>2 DEF TypeOK, Live, Capability
<1>5. ParentsLive'
  BY <1>1, <1>2 DEF TypeOK, ParentsLive, Capability
<1>6. NeverAmplified'
  BY <1>1, <1>2 DEF TypeOK, ParentsLive, NeverAmplified
<1>7. Acyclic'
  <2>1. SUFFICES ASSUME NEW S \in SUBSET Live', S # {}
                 PROVE  \E m \in S : parent'[m] \notin S
    BY DEF Acyclic
  <2>2. CASE S \ {n} = {}
    BY <2>1, <2>2, <1>1, <1>4 DEF TypeOK, Live
  <2>3. CASE S \ {n} # {}
    <3>1. S \ {n} \in SUBSET Live
      BY <2>1, <1>4
    <3>2. PICK m \in S \ {n} : parent[m] \notin S \ {n}
      BY <2>3, <3>1 DEF Acyclic
    <3>3. parent'[m] = parent[m] /\ parent[m] # n
      BY <3>1, <3>2, <1>4 DEF TypeOK, Live, ParentsLive
    <3>4. QED
      BY <3>2, <3>3
  <2>4. QED
    BY <2>2, <2>3
<1>8. QED
  BY <1>3, <1>5, <1>6, <1>7

(***************************************************************************)
(* Revocation (revoke_cross_space) preserves the forest: it leaves no      *)
(* capability behind whose parent it freed.                                *)
(***************************************************************************)
LEMMA RevokePreserves ==
  ASSUME ForestInv, NEW t \in Node, Revoke(t)
  PROVE  ForestInv'
<1> USE NoneAssumption DEF ForestInv, Revoke
<1> DEFINE D == Subtree(t)
<1>1. t \in Live
  BY DEF Live
<1>2. D \subseteq Live /\ \A n \in Live : parent[n] \in D => n \in D
  BY <1>1, SubtreeClosed DEF ClosedUnderDerivation
<1> HIDE DEF D
<1>3. /\ cap'    = [n \in Node |-> IF n \in D THEN None ELSE cap[n]]
      /\ parent' = [n \in Node |-> IF n \in D THEN None ELSE parent[n]]
  BY DEF D
<1>4. TypeOK'
  BY <1>3 DEF TypeOK
<1>5. Live' = Live \ D
  BY <1>2, <1>3 DEF Live
<1>6. \A n \in Node : parent'[n] # None =>
         n \notin D /\ parent'[n] = parent[n] /\ parent[n] \in Node /\ parent[n] \notin D
  BY <1>2, <1>3 DEF TypeOK, ParentsLive, Live
<1>7. ParentsLive'
  BY <1>3, <1>6 DEF TypeOK, ParentsLive
<1>8. NeverAmplified'
  BY <1>3, <1>6 DEF TypeOK, NeverAmplified
<1>9. Acyclic'
  <2>1. SUFFICES ASSUME NEW S \in SUBSET Live', S # {}
                 PROVE  \E m \in S : parent'[m] \notin S
    BY DEF Acyclic
  <2>2. S \in SUBSET Live /\ S \cap D = {}
    BY <1>5, <2>1
  <2>3. PICK m \in S : parent[m] \notin S
    BY <2>1, <2>2 DEF Acyclic
  <2>4. parent'[m] = parent[m]
    BY <1>3, <2>2 DEF Live
  <2>5. QED
    BY <2>3, <2>4
<1>10. QED
  BY <1>4, <1>7, <1>8, <1>9

(***************************************************************************)
(* cdt.rs invariants 3, 4 and 5 hold in every reachable state, whatever    *)
(* the number and the size of the tables.                                  *)
(***************************************************************************)
THEOREM ForestInvariant == Spec => []ForestInv
<1>1. Init => ForestInv
  <2>1. SUFFICES ASSUME Init PROVE ForestInv
    OBVIOUS
  <2>2. Live = {}
    BY <2>1 DEF Init, Live
  <2>3. QED
    BY <2>1, <2>2 DEF Init, ForestInv, TypeOK, ParentsLive, NeverAmplified, Acyclic
<1>2. ForestInv /\ [Next]_vars => ForestInv'
  <2>1. SUFFICES ASSUME ForestInv, [Next]_vars PROVE ForestInv'
    OBVIOUS
  <2>2. CASE UNCHANGED vars
    BY <2>1, <2>2 DEF vars, ForestInv, TypeOK, ParentsLive, NeverAmplified, Acyclic, Live
  <2>3. CASE \E n \in Node, c \in Capability : InsertRoot(n, c)
    BY <2>1, <2>3, InsertRootPreserves
  <2>4. CASE \E p, n \in Node, rights \in SUBSET Right, asked \in Badge :
                /\ cap[p] # None
                /\ \E badge \in EffectiveBadge(cap[p].badge, asked) : Derive(p, n, rights, badge)
    BY <2>1, <2>4, DerivePreserves
  <2>5. CASE \E t \in Node : Revoke(t)
    BY <2>1, <2>5, RevokePreserves
  <2>6. QED
    BY <2>1, <2>2, <2>3, <2>4, <2>5 DEF Next
<1>3. QED
  BY <1>1, <1>2, PTL DEF Spec

(***************************************************************************)
(* rights.rs: no derivation ever amplifies authority, in any reachable     *)
(* state of tables of any size.                                            *)
(***************************************************************************)
THEOREM RightsNeverAmplified == Spec => []NeverAmplified
<1>1. ForestInv => NeverAmplified
  BY DEF ForestInv
<1>2. QED
  BY <1>1, ForestInvariant, PTL

(***************************************************************************)
(* The type invariant, and the derivation links: no parent link dangles    *)
(* and derivation has no cycle.                                            *)
(***************************************************************************)
THEOREM DerivationLinksSound == Spec => [](TypeOK /\ ParentsLive /\ Acyclic)
<1>1. ForestInv => TypeOK /\ ParentsLive /\ Acyclic
  BY DEF ForestInv
<1>2. QED
  BY <1>1, ForestInvariant, PTL

(***************************************************************************)
(* Freeing a slot frees what was derived from it: subtrees are nested.     *)
(***************************************************************************)
LEMMA SubtreesNested ==
  ASSUME NEW t \in Live, NEW n \in Subtree(t)
  PROVE  Subtree(n) \subseteq Subtree(t)
<1>1. Subtree(t) \in SUBSET Live /\ ClosedUnderDerivation(Subtree(t))
  BY SubtreeClosed
<1>2. QED
  BY <1>1 DEF Subtree

(***************************************************************************)
(* revoke_cross_space's contract: no step takes a capability away, or      *)
(* changes it, without emptying its slot and the slots of everything       *)
(* derived from it, in whichever table they are.                           *)
(***************************************************************************)
THEOREM RevocationIsComplete == Spec => RevocationComplete
<1>1. ForestInv /\ [Next]_vars => [RevokedTogether]_vars
  <2>1. SUFFICES ASSUME ForestInv, Next,
                        NEW n \in Node, cap[n] # None, cap'[n] # cap[n]
                 PROVE  cap'[n] = None /\ \A m \in Subtree(n) : cap'[m] = None
    BY DEF RevokedTogether
  <2>2. ASSUME NEW k \in Node, NEW c \in Capability, InsertRoot(k, c)
        PROVE  FALSE
    BY <2>1, <2>2 DEF InsertRoot, ForestInv, TypeOK
  <2>3. ASSUME NEW p \in Node, NEW k \in Node, NEW rights, NEW badge,
               Derive(p, k, rights, badge)
        PROVE  FALSE
    BY <2>1, <2>3 DEF Derive, ForestInv, TypeOK
  <2>4. ASSUME NEW t \in Node, Revoke(t)
        PROVE  cap'[n] = None /\ \A m \in Subtree(n) : cap'[m] = None
    <3>1. t \in Live /\ n \in Subtree(t)
      BY <2>1, <2>4 DEF Revoke, Live
    <3>2. Subtree(n) \subseteq Subtree(t) /\ Subtree(t) \subseteq Node
      BY <3>1, SubtreesNested, SubtreeClosed DEF Live
    <3>3. QED
      BY <2>4, <3>1, <3>2 DEF Revoke
  <2>5. QED
    BY <2>1, <2>2, <2>3, <2>4 DEF Next
<1>2. QED
  BY <1>1, ForestInvariant, PTL DEF Spec, RevocationComplete
=============================================================================
