------------------------------- MODULE MCCaps -------------------------------
(***************************************************************************)
(* The capability tables of kernel-cap on a small instance, held against   *)
(* the capability forest they implement.  MAX_CAP_SPACES is M and          *)
(* CAPS_PER_SPACE is N.                                                    *)
(***************************************************************************)
EXTENDS CapSpec, Naturals

CONSTANTS M, N

ASSUME SizeAssumption ==
  M \in Nat \ {0} /\ N \in Nat \ {0} /\ Space = 0 .. M - 1 /\ Slot = 0 .. N - 1

VARIABLES tables, freeList, occupied

Tables == INSTANCE CapTable

TablesSpec == Tables!Spec

(***************************************************************************)
(* cdt.rs invariants 1 and 2: the free list of an existing table holds     *)
(* exactly its empty slots, each once, and the occupied counter counts the *)
(* others.  Reuse of a live slot or a leaked slot breaks it.               *)
(***************************************************************************)
FreeListExact == Tables!FreeListExact

(***************************************************************************)
(* The tables implement the capability forest: every insertion, derivation *)
(* and revocation is one the forest allows.  In particular the bounded     *)
(* upward walk of revoke_cross_space finds the whole subtree, across all   *)
(* tables, and nothing outside it, whatever slots were reused before.      *)
(***************************************************************************)
ImplementsForest == Spec
=============================================================================
