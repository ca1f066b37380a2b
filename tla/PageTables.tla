----------------------------- MODULE PageTables -----------------------------
(***************************************************************************)
(* The Map syscall: kernel-mm's AddressSpace, kernel-core's do_map and the *)
(* page-table pool, and hal-riscv64's map_range, which walks the mapping   *)
(* into a three-level table.  The software model is what the syscall layer *)
(* reasons about; do_map is meant to keep it and the hardware tables from  *)
(* drifting apart.                                                         *)
(*                                                                         *)
(* Addresses count pages; a mapping is one page, as do_map makes them.     *)
(* Capability checks and permissions are left out: they only refuse calls. *)
(***************************************************************************)
EXTENDS Naturals, FiniteSets

CONSTANTS
  Space,      \* address spaces; each names its root frame
  Vaddr,      \* the virtual pages Map is asked for
  Paddr,      \* the physical pages it is given
  Pages,      \* virtual pages an address can name: beyond them it wraps
  Fanout,     \* entries of a page table
  Slots,      \* MAPPINGS_PER_SPACE
  PoolLen,    \* frames of the map pool
  BootLeaf,   \* <<space, index>>: root entries that are superpage leaves
  None

ASSUME VaddrAssumption == Vaddr \subseteq 0 .. Pages - 1
ASSUME SizeAssumption  == Fanout \in Nat \ {0} /\ PoolLen \in Nat /\ Slots \in Nat

VARIABLES
  mappings,   \* AddressSpace::mappings
  table,      \* the hardware tables: frame |-> index |-> entry
  poolUsed    \* map_pool_used

vars == <<mappings, table, poolUsed>>

Index   == 0 .. Fanout - 1
Frame   == Space \cup (1 .. PoolLen)
Mapping == [vaddr : Vaddr, paddr : Paddr]
Entry   == [leaf : {TRUE}, to : Paddr \cup {None}] \cup [leaf : {FALSE}, to : 1 .. PoolLen]

\* Roots are not frames of the pool, only roots hold superpages, and None is
\* nothing that a table or a slot can hold.
ASSUME FrameAssumption == Space \cap (1 .. PoolLen) = {} /\ BootLeaf \subseteq Space \X Index
ASSUME NoneAssumption  == None \notin Frame \cup Index \cup Paddr \cup Entry \cup Mapping

TypeOK ==
  /\ mappings \in [Space -> [1 .. Slots -> Mapping \cup {None}]]
  /\ table \in [Frame -> [Index -> Entry \cup {None}]]
  /\ poolUsed \in 0 .. PoolLen

\* The root of a space may hold superpage leaves of the kernel's identity map.
Init ==
  /\ mappings = [s \in Space |-> [i \in 1 .. Slots |-> None]]
  /\ table = [f \in Frame |-> [i \in Index |->
                IF <<f, i>> \in BootLeaf THEN [leaf |-> TRUE, to |-> None] ELSE None]]
  /\ poolUsed = 0
-----------------------------------------------------------------------------
\* The table indices of a page; bits above the top index are dropped.
Vpn(v) == << (v \div (Fanout * Fanout)) % Fanout, (v \div Fanout) % Fanout, v % Fanout >>

\* Mapping::overlaps for one page, the end computed in the address width.
\* mutant of Overlaps: only what starts below the new page is seen
OverlapsBelow(m, v) == m.vaddr < v /\ v < (m.vaddr + 1) % Pages

Overlaps(m, v) == m.vaddr < (v + 1) % Pages /\ v < (m.vaddr + 1) % Pages

Live(s) == {i \in 1 .. Slots : mappings[s][i] # None}

First(set) == CHOOSE i \in set : \A j \in set : i <= j

\* AddressSpace::translate: the first mapping that holds the page.
Translate(s, v) ==
  LET here == {i \in Live(s) : mappings[s][i].vaddr = v}
  IN IF here = {} THEN None ELSE mappings[s][First(here)].paddr

(***************************************************************************)
(* One level of map_range: follow the entry, or link a fresh pool frame    *)
(* into an empty one.  A leaf in the way or an empty pool stops the walk;  *)
(* what was written before stays written.                                  *)
(***************************************************************************)
\* mutant of Descend: a superpage leaf is taken for a table
DescendBlindly(w, i) ==
  LET e == w.tab[w.at][i]
      fresh == poolUsed + w.used + 1
  IN IF ~w.ok \/ (e = None /\ fresh > PoolLen) THEN [w EXCEPT !.ok = FALSE]
     ELSE IF e = None \/ e.leaf
     THEN [w EXCEPT !.tab[w.at][i] = [leaf |-> FALSE, to |-> IF fresh > PoolLen THEN PoolLen ELSE fresh],
                    !.at = IF fresh > PoolLen THEN PoolLen ELSE fresh, !.used = @ + 1]
     ELSE [w EXCEPT !.at = e.to]

Descend(w, i) ==
  LET e == w.tab[w.at][i]
      fresh == poolUsed + w.used + 1
  IN IF ~w.ok THEN w
     ELSE IF e = None
     THEN IF fresh > PoolLen THEN [w EXCEPT !.ok = FALSE]
          ELSE [w EXCEPT !.tab[w.at][i] = [leaf |-> FALSE, to |-> fresh],
                         !.at = fresh, !.used = @ + 1]
     ELSE IF e.leaf THEN [w EXCEPT !.ok = FALSE]
     ELSE [w EXCEPT !.at = e.to]

\* map_range for one page: the tables it leaves, the frames it used, success.
MapRange(s, v, p) ==
  LET w0 == [tab |-> table, at |-> s, used |-> 0, ok |-> TRUE]
      w  == Descend(Descend(w0, Vpn(v)[1]), Vpn(v)[2])
  IN IF w.ok THEN [w EXCEPT !.tab[w.at][Vpn(v)[3]] = [leaf |-> TRUE, to |-> p]] ELSE w

\* AddressSpace::map: refused on overlap or with no slot left.
Accepts(s, v) ==
  /\ \A i \in Live(s) : ~Overlaps(mappings[s][i], v)
  /\ Live(s) # 1 .. Slots

\* do_map when the walk succeeds.
\* mutant of Mapped: the pool is not advanced
MappedPoolUnmoved(s, v, p) ==
  /\ Accepts(s, v) /\ MapRange(s, v, p).ok
  /\ mappings' = [mappings EXCEPT ![s][First((1 .. Slots) \ Live(s))] = [vaddr |-> v, paddr |-> p]]
  /\ table'    = MapRange(s, v, p).tab
  /\ UNCHANGED poolUsed

Mapped(s, v, p) ==
  /\ Accepts(s, v) /\ MapRange(s, v, p).ok
  /\ mappings' = [mappings EXCEPT ![s][First((1 .. Slots) \ Live(s))] = [vaddr |-> v, paddr |-> p]]
  /\ table'    = MapRange(s, v, p).tab
  /\ poolUsed' = poolUsed + MapRange(s, v, p).used

\* do_map when the walk fails: unmap takes the mapping back, the pool is not
\* advanced.
\* mutant of HardwareMapFailed: the software model is not rolled back
FailedWithoutRollback(s, v, p) ==
  /\ Accepts(s, v) /\ ~MapRange(s, v, p).ok
  /\ mappings' = [mappings EXCEPT ![s][First((1 .. Slots) \ Live(s))] = [vaddr |-> v, paddr |-> p]]
  /\ table'    = MapRange(s, v, p).tab
  /\ UNCHANGED poolUsed

HardwareMapFailed(s, v, p) ==
  /\ Accepts(s, v) /\ ~MapRange(s, v, p).ok
  /\ LET added == [mappings[s] EXCEPT ![First((1 .. Slots) \ Live(s))] = [vaddr |-> v, paddr |-> p]]
         here  == {i \in 1 .. Slots : added[i] # None /\ added[i].vaddr = v}
     IN mappings' = [mappings EXCEPT ![s] = [added EXCEPT ![First(here)] = None]]
  /\ table' = MapRange(s, v, p).tab
  /\ UNCHANGED poolUsed

Next == \E s \in Space, v \in Vaddr, p \in Paddr : Mapped(s, v, p) \/ HardwareMapFailed(s, v, p)

Spec == Init /\ [][Next]_vars
-----------------------------------------------------------------------------
\* The hardware walk: a page whose dropped bits are not the sign extension of
\* its top index faults, every other one yields a frame or None.
Canonical(v) ==
  LET half == (Fanout * Fanout * Fanout) \div 2 IN v < half \/ v >= Pages - half

Follow(f, i) == IF f = None \/ table[f][i] = None THEN None
                ELSE IF table[f][i].leaf THEN None ELSE table[f][i].to

HardwareTranslate(s, v) ==
  LET l0 == Follow(Follow(s, Vpn(v)[1]), Vpn(v)[2])
  IN IF ~Canonical(v) \/ l0 = None \/ table[l0][Vpn(v)[3]] = None THEN None
     ELSE table[l0][Vpn(v)[3]].to

(***************************************************************************)
(* do_map: "walk it into REAL hardware page-table entries too, rolling the *)
(* software model back if that hardware walk fails so the two never drift":*)
(* both give every page the same frame, or none.                           *)
(***************************************************************************)
ModelMatchesHardware ==
  \A s \in Space, v \in Vaddr : HardwareTranslate(s, v) = Translate(s, v)

(***************************************************************************)
(* A frame of the pool is linked into one place of one table, and only     *)
(* frames below the pool's mark are linked: map_range takes the others for *)
(* free and zeroed.                                                        *)
(***************************************************************************)
Links(n) == {l \in Frame \X Index :
               LET e == table[l[1]][l[2]] IN e # None /\ ~e.leaf /\ e.to = n}

PoolFramesLinkedOnce ==
  \A n \in 1 .. PoolLen : Cardinality(Links(n)) = (IF n <= poolUsed THEN 1 ELSE 0)

(***************************************************************************)
(* AddressSpace::map: "no overlap with an existing mapping (else           *)
(* MappingOverlap)": a page is in at most one mapping of a space.          *)
(***************************************************************************)
MappingsDisjoint ==
  \A s \in Space : \A i, j \in Live(s) : mappings[s][i].vaddr = mappings[s][j].vaddr => i = j

(***************************************************************************)
(* A page the hardware translates keeps its frame whatever is mapped later,*)
(* in this space or in another: there is no unmap or remap syscall.        *)
(***************************************************************************)
TranslationStable ==
  [][\A s \in Space, v \in Vaddr :
       HardwareTranslate(s, v) # None => HardwareTranslate(s, v)' = HardwareTranslate(s, v)]_vars
=============================================================================
