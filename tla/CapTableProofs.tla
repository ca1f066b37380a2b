--------------------------- MODULE CapTableProofs ---------------------------
(***************************************************************************)
(* The capability tables of kernel-cap, with their free lists and their    *)
(* bounded upward walk, implement the capability forest, for any number of *)
(* tables of any size.                                                     *)
(***************************************************************************)
EXTENDS MCCaps, CapSpecProofs, Sequences, FiniteSetTheorems, WellFoundedInduction
-----------------------------------------------------------------------------
(* Induction.  The loops of cdt.rs are recursive functions on an interval. *)

(***************************************************************************)
(* Every non-empty set of naturals has a least member.                     *)
(***************************************************************************)
LEMMA LeastNumber ==
  ASSUME NEW S \in SUBSET Nat, S # {}
  PROVE  \E x \in S : \A y \in S : x <= y
<1> DEFINE R == {ss \in Nat \X Nat : ss[1] < ss[2]}
<1>1. IsWellFoundedOn(R, Nat)
  BY NatLessThanWellFounded DEF OpToRel
<1>2. PICK x \in S : \A y \in S : ~ (<<y, x>> \in R)
  BY <1>1, WFMin
<1>3. ASSUME NEW y \in S PROVE x <= y
  <2>1. x \in Nat /\ y \in Nat
    OBVIOUS
  <2>2. ~ (y < x)
    BY <1>2, <2>1
  <2>3. QED
    BY <2>1, <2>2
<1>4. QED
  BY <1>3

(***************************************************************************)
(* Induction over the steps of a loop.                                     *)
(***************************************************************************)
LEMMA IntervalInduction ==
  ASSUME NEW n \in Nat, NEW S, 0 \in S, \A k \in 0 .. n - 1 : k \in S => k + 1 \in S
  PROVE  \A k \in 0 .. n : k \in S
<1> DEFINE Bad == (0 .. n) \ S
<1>1. SUFFICES ASSUME Bad # {} PROVE FALSE
  OBVIOUS
<1>2. Bad \in SUBSET Nat
  OBVIOUS
<1>3. PICK m \in Bad : \A y \in Bad : m <= y
  <2> HIDE DEF Bad
  <2> QED BY <1>1, <1>2, LeastNumber
<1>4. m \in 1 .. n /\ m - 1 \in 0 .. n - 1
  OBVIOUS
<1>5. m - 1 \in S
  BY <1>3, <1>4
<1>6. QED
  BY <1>4, <1>5

(***************************************************************************)
(* A loop has a run: starting from a and applying g[k] in step k.          *)
(***************************************************************************)
LEMMA Iterates ==
  ASSUME NEW T, NEW a \in T, NEW n \in Nat, NEW g \in [1 .. n -> [T -> T]]
  PROVE  \E f \in [0 .. n -> T] : f[0] = a /\ \A k \in 1 .. n : f[k] = g[k][f[k - 1]]
<1> DEFINE Good(m, f) == /\ f \in [0 .. m -> T] /\ f[0] = a
                         /\ \A k \in 1 .. m : f[k] = g[k][f[k - 1]]
           Reached == {m \in 0 .. n : \E f : Good(m, f)}
<1>1. \E f : Good(0, f)
  <2>1. Good(0, [k \in 0 .. 0 |-> a])
    OBVIOUS
  <2>2. QED
    BY <2>1
<1>2. ASSUME NEW k \in 0 .. n - 1, \E f : Good(k, f) PROVE \E f : Good(k + 1, f)
  <2>1. PICK f : Good(k, f)
    BY <1>2
  <2>2. Good(k + 1, [j \in 0 .. k + 1 |-> IF j = k + 1 THEN g[k + 1][f[k]] ELSE f[j]])
    BY <2>1
  <2>3. QED
    BY <2>2
<1>3. \E f : Good(n, f)
  <2> HIDE DEF Good
  <2>1. 0 \in Reached
    BY <1>1
  <2>2. \A k \in 0 .. n - 1 : k \in Reached => k + 1 \in Reached
    BY <1>2
  <2>3. \A k \in 0 .. n : k \in Reached
    <3> HIDE DEF Reached
    <3> QED BY <2>1, <2>2, IntervalInduction
  <2>4. QED
    BY <2>3
<1>4. QED
  BY <1>3
-----------------------------------------------------------------------------
(* The walk and the free list, as the loops compute them *)

(***************************************************************************)
(* is_descendant_of's walk starts at cur and follows one link at a time.   *)
(***************************************************************************)
LEMMA WalkDef ==
  ASSUME TypeOK, NEW cur \in Node
  PROVE  /\ Tables!Walk(cur) \in [0 .. M * N + 1 -> Node \cup {None}]
         /\ Tables!Walk(cur)[0] = cur
         /\ \A k \in 1 .. M * N + 1 : Tables!Walk(cur)[k] =
              IF Tables!Walk(cur)[k - 1] = None THEN None ELSE parent[Tables!Walk(cur)[k - 1]]
<1> DEFINE L == M * N + 1
           T == Node \cup {None}
           Follow(x) == IF x = None THEN None ELSE parent[x]
           Body(f, k) == IF k = 0 THEN cur ELSE IF f[k - 1] = None THEN None ELSE parent[f[k - 1]]
           g == [k \in 1 .. L |-> [x \in T |-> Follow(x)]]
<1>1. L \in Nat
  BY SizeAssumption
<1>2. g \in [1 .. L -> [T -> T]] /\ cur \in T
  BY DEF TypeOK
<1> HIDE DEF L
<1>3. PICK f \in [0 .. L -> T] : f[0] = cur /\ \A k \in 1 .. L : f[k] = g[k][f[k - 1]]
  <2> HIDE DEF T, g
  <2> QED BY <1>1, <1>2, Iterates
<1>4. f = [k \in 0 .. L |-> Body(f, k)]
  <2>1. ASSUME NEW k \in 1 .. L PROVE f[k] = Body(f, k)
    <3>1. k - 1 \in 0 .. L /\ f[k - 1] \in T /\ k # 0
      BY <1>1, <1>3
    <3>2. g[k][f[k - 1]] = Follow(f[k - 1])
      BY <3>1
    <3>3. QED
      BY <3>1, <3>2, <1>3
  <2>2. f[0] = Body(f, 0) /\ \A k \in 0 .. L : k = 0 \/ k \in 1 .. L
    BY <1>1, <1>3
  <2> HIDE DEF Body
  <2>3. QED
    BY <2>1, <2>2, <1>3
<1>5. Tables!Walk(cur) = [k \in 0 .. L |-> Body(Tables!Walk(cur), k)]
  <2>1. Tables!Walk(cur) = CHOOSE at : at = [k \in 0 .. L |-> Body(at, k)]
    BY Zenon DEF Tables!Walk, L
  <2> HIDE DEF Body
  <2>2. QED
    BY <1>4, <2>1
<1>6. ASSUME NEW k \in 0 .. L
      PROVE  Tables!Walk(cur)[k] \in T
  <2> DEFINE S == {j \in 0 .. L : Tables!Walk(cur)[j] \in T}
  <2>1. 0 \in S /\ \A j \in 0 .. L - 1 : j \in S => j + 1 \in S
    BY <1>1, <1>5 DEF TypeOK
  <2>2. k \in S
    <3> HIDE DEF S
    <3> QED BY <2>1, <1>1, IntervalInduction
  <2>3. QED
    BY <2>2
<1>7. QED
  BY <1>1, <1>5, <1>6 DEF L

(***************************************************************************)
(* There are M * N slots.                                                  *)
(***************************************************************************)
LEMMA NodeCount == IsFiniteSet(Node) /\ Cardinality(Node) = M * N
<1>1. IsFiniteSet(Space) /\ Cardinality(Space) = M
  BY FS_Interval, SizeAssumption
<1>2. IsFiniteSet(Slot) /\ Cardinality(Slot) = N
  BY FS_Interval, SizeAssumption
<1>3. QED
  BY <1>1, <1>2, FS_Product DEF Node

(***************************************************************************)
(* The walk's bound is never what ends it: in a forest M * N + 1 links     *)
(* lead past a root.  Otherwise the walk would meet a slot twice, and the  *)
(* slots between would be a cycle.                                         *)
(***************************************************************************)
LEMMA WalkEnds ==
  ASSUME ForestInv, NEW cur \in Node
  PROVE  \E k \in 0 .. M * N + 1 : Tables!Walk(cur)[k] = None
<1> DEFINE L == M * N + 1
           f == Tables!Walk(cur)
<1>1. L \in Nat /\ L = M * N + 1 /\ M * N \in Nat
  BY SizeAssumption
<1>2. SUFFICES ASSUME \A k \in 0 .. L : f[k] # None PROVE FALSE
  OBVIOUS
<1>3. /\ f \in [0 .. L -> Node]
      /\ \A k \in 1 .. L : f[k] = parent[f[k - 1]]
  <2> HIDE DEF f, L
  <2>1. /\ f \in [0 .. L -> Node \cup {None}]
        /\ \A k \in 1 .. L : f[k] = IF f[k - 1] = None THEN None ELSE parent[f[k - 1]]
    BY WalkDef, Zenon DEF ForestInv, f, L
  <2>2. QED
    BY <1>1, <1>2, <2>1
<1> HIDE DEF L, f
<1>4. PICK i \in 0 .. L, j \in 0 .. L : i < j /\ f[i] = f[j]
  <2>1. IsFiniteSet(0 .. L) /\ Cardinality(0 .. L) = L + 1
    BY <1>1, FS_Interval
  <2>2. PICK x \in 0 .. L, y \in 0 .. L : x # y /\ f[x] = f[y]
    <3> DEFINE D == 0 .. L
    <3>1. Cardinality(Node) < Cardinality(D) /\ IsFiniteSet(D) /\ f \in [D -> Node]
      BY <1>1, <1>3, <2>1, NodeCount
    <3> HIDE DEF D
    <3>2. \E x, y \in D : x # y /\ f[x] = f[y]
      BY <3>1, NodeCount, FS_PigeonHole
    <3>3. QED
      BY <3>2 DEF D
  <2>3. x < y \/ y < x
    BY <1>1, <2>2
  <2>4. QED
    BY <2>2, <2>3
<1> DEFINE S == {f[k] : k \in i .. j - 1}
<1>5. \A k \in i .. j - 1 :
         k \in 0 .. L /\ k + 1 \in 1 .. L /\ f[k] \in Node /\ f[k + 1] = parent[f[k]] /\ f[k + 1] \in Node
  <2>1. SUFFICES ASSUME NEW k \in i .. j - 1
                 PROVE  k \in 0 .. L /\ k + 1 \in 1 .. L /\ k + 1 \in 0 .. L /\ (k + 1) - 1 = k
    BY <1>3
  <2>2. QED
    BY <1>1
<1>6. S \in SUBSET Live /\ S # {}
  <2>1. \A k \in i .. j - 1 : f[k] \in Live
    BY <1>5, NoneAssumption DEF ForestInv, ParentsLive, Live
  <2>2. i \in i .. j - 1
    BY <1>1, <1>4
  <2>3. QED
    BY <2>1, <2>2
<1>7. PICK n \in S : parent[n] \notin S
  <2> HIDE DEF S
  <2> QED BY <1>6 DEF ForestInv, Acyclic
<1>8. PICK k \in i .. j - 1 : n = f[k]
  BY <1>7
<1>9. parent[n] = f[k + 1] /\ (k + 1 \in i .. j - 1 \/ k + 1 = j)
  BY <1>1, <1>5, <1>8
<1>10. f[k + 1] \in S
  <2>1. CASE k + 1 \in i .. j - 1
    BY <2>1
  <2>2. CASE k + 1 = j
    BY <2>2, <1>4, <1>6, <1>1
  <2>3. QED
    BY <1>9, <2>1, <2>2
<1>11. QED
  BY <1>7, <1>9, <1>10

(***************************************************************************)
(* What the walk from n meets was above n: if it meets t then n is in the  *)
(* subtree of t.                                                           *)
(***************************************************************************)
LEMMA WalkSound ==
  ASSUME ForestInv, NEW t \in Live, NEW n \in Live, Tables!IsDescendantOf(n, t)
  PROVE  n \in Subtree(t)
<1> DEFINE L == M * N + 1
           f == Tables!Walk(n)
<1>1. PICK k \in 1 .. L : f[k] = t
  BY DEF Tables!IsDescendantOf
<1>2. L \in Nat /\ k \in Nat
  BY SizeAssumption
<1>3. /\ f \in [0 .. L -> Node \cup {None}] /\ f[0] = n
      /\ \A i \in 1 .. L : f[i] = IF f[i - 1] = None THEN None ELSE parent[f[i - 1]]
  <2>1. n \in Node
    BY DEF Live
  <2>2. QED
    BY <2>1, WalkDef, Zenon DEF ForestInv
<1> HIDE DEF L, f
<1> DEFINE S == {i \in 0 .. k : f[k - i] \in Subtree(t)}
<1>4. 0 \in S
  BY <1>1, <1>2, SubtreeClosed
<1>5. ASSUME NEW i \in 0 .. k - 1, i \in S PROVE i + 1 \in S
  <2>1. /\ i + 1 \in 0 .. k /\ k - (i + 1) \in 0 .. L /\ k - i \in 1 .. L
        /\ (k - i) - 1 = k - (i + 1) /\ f[k - i] \in Subtree(t)
    BY <1>1, <1>2, <1>5
  <2> DEFINE m == f[k - (i + 1)]
  <2>2. f[k - i] = IF m = None THEN None ELSE parent[m]
    BY <1>3, <2>1
  <2>3. f[k - i] \in Live /\ m \in Node \cup {None}
    BY <2>1, <1>3, SubtreeClosed
  <2> HIDE DEF m
  <2>4. f[k - i] # None
    BY <2>3, NoneAssumption DEF Live
  <2>5. m \in Node /\ parent[m] = f[k - i]
    BY <2>2, <2>3, <2>4
  <2>6. m \in Live
    BY <2>4, <2>5 DEF ForestInv, ParentsLive, Live
  <2>7. m \in Subtree(t)
    BY <2>1, <2>5, <2>6, SubtreeClosed DEF ClosedUnderDerivation
  <2>8. QED
    BY <2>1, <2>7 DEF m
<1>6. k \in S
  <2> HIDE DEF S
  <2> QED BY <1>2, <1>4, <1>5, IntervalInduction
<1>7. QED
  BY <1>2, <1>3, <1>6

(***************************************************************************)
(* What is derived from t is found: the walk from a proper descendant of t *)
(* visits all its ancestors, and so meets t.                               *)
(***************************************************************************)
LEMMA WalkComplete ==
  ASSUME ForestInv, NEW t \in Live, NEW n \in Subtree(t), n # t
  PROVE  Tables!IsDescendantOf(n, t)
<1> DEFINE L == M * N + 1
           f == Tables!Walk(n)
<1>1. L \in Nat
  BY SizeAssumption
<1>2. n \in Live /\ n \in Node
  BY SubtreeClosed DEF Live
<1>3. /\ f \in [0 .. L -> Node \cup {None}] /\ f[0] = n
      /\ \A i \in 1 .. L : f[i] = IF f[i - 1] = None THEN None ELSE parent[f[i - 1]]
  BY <1>2, WalkDef, Zenon DEF ForestInv
<1>4. PICK e \in 0 .. L : f[e] = None
  BY <1>2, WalkEnds
<1>5. SUFFICES ASSUME \A k \in 1 .. L : f[k] # t PROVE FALSE
  BY DEF Tables!IsDescendantOf
<1> HIDE DEF L, f
<1>6. f[L] = None
  <2> DEFINE S == {i \in 0 .. L - e : f[e + i] = None}
  <2>1. L - e \in Nat /\ e \in Nat
    BY <1>1
  <2>2. 0 \in S
    BY <1>4, <2>1
  <2>3. ASSUME NEW i \in 0 .. (L - e) - 1, i \in S PROVE i + 1 \in S
    <3>1. e + (i + 1) \in 1 .. L /\ (e + (i + 1)) - 1 = e + i /\ i + 1 \in 0 .. L - e
      BY <1>1, <2>1
    <3>2. QED
      BY <1>3, <2>3, <3>1
  <2>4. L - e \in S
    <3> HIDE DEF S
    <3> QED BY <2>1, <2>2, <2>3, IntervalInduction
  <2>5. e + (L - e) = L
    BY <1>1, <2>1
  <2>6. QED
    BY <2>4, <2>5
<1> DEFINE Above == {f[k] : k \in 0 .. L}
           Rest  == Live \ Above
<1>7. \A m \in Above : m # None => parent[m] \in Above
  <2>1. SUFFICES ASSUME NEW k \in 0 .. L, f[k] # None PROVE parent[f[k]] \in Above
    OBVIOUS
  <2>2. k + 1 \in 1 .. L /\ k + 1 \in 0 .. L /\ (k + 1) - 1 = k
    BY <1>1, <1>6, <2>1
  <2>3. f[k + 1] = parent[f[k]]
    BY <1>3, <2>1, <2>2
  <2>4. QED
    BY <2>2, <2>3
<1>8. ClosedUnderDerivation(Rest)
  <2>1. SUFFICES ASSUME NEW m \in Live, parent[m] \in Rest, m \in Above PROVE FALSE
    BY DEF ClosedUnderDerivation
  <2>2. m # None
    BY NoneAssumption DEF Live
  <2>3. QED
    BY <1>7, <2>1, <2>2
<1>9. t \in Rest
  <2>1. \A k \in 0 .. L : k = 0 \/ k \in 1 .. L
    BY <1>1
  <2>2. QED
    BY <1>3, <1>5, <2>1
<1>10. n \in Rest
  <2> HIDE DEF Rest
  <2>1. Rest \in SUBSET Live
    BY DEF Rest
  <2>2. QED
    BY <1>8, <1>9, <2>1 DEF Subtree
<1>11. n \in Above
  BY <1>1, <1>3
<1>12. QED
  BY <1>10, <1>11

(***************************************************************************)
(* Pass one of revoke_cross_space marks the subtree of the target, in all  *)
(* tables, and nothing else.                                               *)
(***************************************************************************)
LEMMA MarkedIsSubtree ==
  ASSUME ForestInv, NEW t \in Live
  PROVE  Tables!Marked(t) = Subtree(t)
<1>1. Tables!Marked(t) = {n \in Live : n = t \/ Tables!IsDescendantOf(n, t)}
  BY DEF Tables!Marked, Live, Tables!Node, Tables!Forest!Node, Node
<1>2. ASSUME NEW n \in Tables!Marked(t) PROVE n \in Subtree(t)
  BY <1>1, WalkSound, SubtreeClosed
<1>3. ASSUME NEW n \in Subtree(t) PROVE n \in Tables!Marked(t)
  BY <1>1, WalkComplete, SubtreeClosed
<1>4. QED
  BY <1>2, <1>3
-----------------------------------------------------------------------------
(* The free lists *)

\* q lists the slots of S, each once.
Lists(q, S) ==
  /\ q \in Seq(Slot)
  /\ {q[k] : k \in DOMAIN q} = S
  /\ \A j, k \in DOMAIN q : q[j] = q[k] => j = k

Empty(s) == {i \in Slot : cap[<<s, i>>] = None}

ListType == freeList \in [Space -> Seq(Slot)]

\* Beside the forest: an existing table's free list lists its empty slots and
\* its counter counts the others; a table not made yet holds nothing.
ListInv ==
  /\ tables \in SUBSET Space
  /\ ListType
  /\ occupied \in [Space -> Nat]
  /\ \A s \in tables : Lists(freeList[s], Empty(s)) /\ occupied[s] = N - Cardinality(Empty(s))
  /\ \A s \in Space \ tables : occupied[s] = 0 /\ Empty(s) = Slot

TablesInv == ForestInv /\ ListInv

(***************************************************************************)
(* alloc_slot takes one of the listed slots off the list.                  *)
(***************************************************************************)
LEMMA ListTail ==
  ASSUME NEW q, NEW S, Lists(q, S), q # <<>>
  PROVE  Head(q) \in S /\ Lists(Tail(q), S \ {Head(q)})
<1>1. q \in Seq(Slot) /\ Len(q) \in Nat \ {0} /\ DOMAIN q = 1 .. Len(q)
  BY DEF Lists
<1>2. /\ Head(q) = q[1] /\ Tail(q) \in Seq(Slot) /\ DOMAIN Tail(q) = 1 .. Len(q) - 1
      /\ \A k \in 1 .. Len(q) - 1 : Tail(q)[k] = q[k + 1]
  BY <1>1
<1>3. Head(q) \in S
  BY <1>1, <1>2 DEF Lists
<1>4. \A j, k \in DOMAIN Tail(q) : Tail(q)[j] = Tail(q)[k] => j = k
  <2>1. SUFFICES ASSUME NEW j \in 1 .. Len(q) - 1, NEW k \in 1 .. Len(q) - 1, q[j + 1] = q[k + 1]
                 PROVE  j = k
    BY <1>2
  <2>2. j + 1 \in DOMAIN q /\ k + 1 \in DOMAIN q
    BY <1>1
  <2>3. QED
    BY <2>1, <2>2 DEF Lists
<1>5. ASSUME NEW k \in DOMAIN Tail(q) PROVE Tail(q)[k] \in S \ {Head(q)}
  <2>1. k + 1 \in DOMAIN q /\ 1 \in DOMAIN q /\ k + 1 # 1
    BY <1>1, <1>2
  <2>2. q[k + 1] \in S /\ q[k + 1] # q[1]
    BY <2>1 DEF Lists
  <2>3. QED
    BY <1>2, <2>2
<1>6. ASSUME NEW i \in S \ {Head(q)} PROVE \E k \in DOMAIN Tail(q) : Tail(q)[k] = i
  <2>1. PICK k \in DOMAIN q : q[k] = i
    BY DEF Lists
  <2>2. k - 1 \in 1 .. Len(q) - 1 /\ (k - 1) + 1 = k
    BY <1>1, <1>2, <2>1
  <2>3. QED
    BY <1>2, <2>1, <2>2
<1>7. QED
  BY <1>2, <1>3, <1>4, <1>5, <1>6 DEF Lists

(***************************************************************************)
(* free_slot puts a slot that was not listed on the list.                  *)
(***************************************************************************)
LEMMA ListPush ==
  ASSUME NEW q, NEW S, Lists(q, S), NEW i \in Slot, i \notin S
  PROVE  Lists(<<i>> \o q, S \cup {i})
<1> DEFINE r == <<i>> \o q
<1>1. q \in Seq(Slot) /\ Len(q) \in Nat /\ DOMAIN q = 1 .. Len(q)
  BY DEF Lists
<1>2. /\ r \in Seq(Slot) /\ DOMAIN r = 1 .. Len(q) + 1 /\ r[1] = i
      /\ \A k \in 1 .. Len(q) : r[k + 1] = q[k]
  BY <1>1
<1> HIDE DEF r
<1>3. \A k \in DOMAIN r : k = 1 \/ (k # 1 /\ k - 1 \in DOMAIN q /\ r[k] = q[k - 1] /\ r[k] \in S)
  <2>1. SUFFICES ASSUME NEW k \in 1 .. Len(q) + 1, k # 1
                 PROVE  k - 1 \in 1 .. Len(q) /\ (k - 1) + 1 = k
    BY <1>1, <1>2 DEF Lists
  <2>2. QED
    BY <1>1, <2>1
<1>4. \A j, k \in DOMAIN r : r[j] = r[k] => j = k
  <2>1. SUFFICES ASSUME NEW j \in DOMAIN r, NEW k \in DOMAIN r, r[j] = r[k] PROVE j = k
    OBVIOUS
  <2>2. CASE j = 1 \/ k = 1
    BY <1>2, <1>3, <2>1, <2>2
  <2>3. CASE j # 1 /\ k # 1
    <3>1. j - 1 = k - 1
      BY <1>3, <2>1, <2>3 DEF Lists
    <3>2. QED
      BY <1>1, <1>2, <3>1
  <2>4. QED
    BY <2>2, <2>3
<1>5. ASSUME NEW k \in DOMAIN r PROVE r[k] \in S \cup {i}
  BY <1>2, <1>3
<1>6. ASSUME NEW x \in S \cup {i} PROVE \E k \in DOMAIN r : r[k] = x
  <2>1. CASE x = i
    BY <1>1, <1>2, <2>1
  <2>2. CASE x \in S
    <3>1. PICK k \in DOMAIN q : q[k] = x
      BY <2>2 DEF Lists
    <3>2. k + 1 \in DOMAIN r
      BY <1>1, <1>2
    <3>3. QED
      BY <1>1, <1>2, <3>1, <3>2
  <2>3. QED
    BY <2>1, <2>2
<1>7. Lists(r, S \cup {i})
  BY <1>2, <1>4, <1>5, <1>6 DEF Lists
<1>8. QED
  BY <1>7 DEF r

(***************************************************************************)
(* A list that lists S is as long as S is large.                           *)
(***************************************************************************)
LEMMA ListLength ==
  ASSUME NEW q, NEW S, Lists(q, S)
  PROVE  IsFiniteSet(S) /\ Len(q) = Cardinality(S)
<1>1. Len(q) \in Nat /\ DOMAIN q = 1 .. Len(q) /\ q \in [1 .. Len(q) -> S]
  BY DEF Lists
<1>2. q \in Bijection(1 .. Len(q), S)
  BY <1>1 DEF Lists, Bijection, Injection, Surjection, IsInjective
<1>3. IsFiniteSet(1 .. Len(q)) /\ Cardinality(1 .. Len(q)) = Len(q)
  BY <1>1, FS_Interval
<1>4. ExistsBijection(1 .. Len(q), S)
  BY <1>2 DEF ExistsBijection
<1>5. QED
  BY <1>3, <1>4, FS_Bijection

(***************************************************************************)
(* Pass two of revoke_cross_space, slot by slot.                           *)
(***************************************************************************)
LEMMA PushedDef ==
  ASSUME ListType, NEW s \in Space, NEW doomed
  PROVE  /\ Tables!Pushed(s, doomed) \in [0 .. N -> Seq(Slot)]
         /\ Tables!Pushed(s, doomed)[0] = freeList[s]
         /\ \A k \in 1 .. N : Tables!Pushed(s, doomed)[k] =
              IF <<s, k - 1>> \in doomed THEN <<k - 1>> \o Tables!Pushed(s, doomed)[k - 1]
              ELSE Tables!Pushed(s, doomed)[k - 1]
<1> DEFINE T == Seq(Slot)
           Push(q, k) == IF <<s, k - 1>> \in doomed THEN <<k - 1>> \o q ELSE q
           Body(f, k) == IF k = 0 THEN freeList[s]
                         ELSE IF <<s, k - 1>> \in doomed THEN <<k - 1>> \o f[k - 1] ELSE f[k - 1]
           g == [k \in 1 .. N |-> [q \in T |-> Push(q, k)]]
           P == Tables!Pushed(s, doomed)
<1>1. N \in Nat /\ freeList[s] \in T /\ \A k \in 1 .. N : k - 1 \in Slot
  BY SizeAssumption DEF ListType
<1>2. \A k \in 1 .. N, q \in T : Push(q, k) \in T
  BY <1>1
<1>3. PICK f \in [0 .. N -> T] : f[0] = freeList[s] /\ \A k \in 1 .. N : f[k] = g[k][f[k - 1]]
  <2>1. g \in [1 .. N -> [T -> T]]
    <3> HIDE DEF Push
    <3> QED BY <1>2
  <2> DEFINE a == freeList[s]
  <2>2. a \in T /\ N \in Nat
    BY <1>1
  <2> HIDE DEF T, g, a
  <2>3. \E f \in [0 .. N -> T] : f[0] = a /\ \A k \in 1 .. N : f[k] = g[k][f[k - 1]]
    BY <2>1, <2>2, Iterates
  <2>4. QED
    BY <2>3 DEF a
<1>4. ASSUME NEW k \in 1 .. N PROVE f[k] = Push(f[k - 1], k)
  <2>1. k - 1 \in 0 .. N /\ f[k - 1] \in T
    BY <1>1, <1>3
  <2> HIDE DEF Push
  <2>2. QED
    BY <1>3, <2>1
<1>5. f = [k \in 0 .. N |-> Body(f, k)]
  <2>1. ASSUME NEW k \in 1 .. N PROVE f[k] = Body(f, k)
    <3>1. k # 0
      BY <1>1
    <3>2. QED
      BY <1>4, <3>1
  <2>2. f[0] = Body(f, 0) /\ \A k \in 0 .. N : k = 0 \/ k \in 1 .. N
    BY <1>1, <1>3
  <2> HIDE DEF Body
  <2>3. QED
    BY <2>1, <2>2, <1>3
<1>6. P = [k \in 0 .. N |-> Body(P, k)]
  <2>1. P = CHOOSE list : list = [k \in 0 .. N |-> Body(list, k)]
    BY Zenon DEF Tables!Pushed
  <2> HIDE DEF Body, P
  <2>2. QED
    BY <1>5, <2>1
<1> HIDE DEF P
<1>7. P[0] = freeList[s] /\ \A k \in 1 .. N : P[k] = Push(P[k - 1], k)
  <2>1. 0 \in 0 .. N /\ \A k \in 1 .. N : k \in 0 .. N /\ k # 0
    BY <1>1
  <2>2. \A k \in 0 .. N : P[k] = Body(P, k)
    <3> HIDE DEF Body
    <3> QED BY <1>6
  <2>3. QED
    BY <2>1, <2>2
<1>8. \A k \in 0 .. N : P[k] \in T
  <2> DEFINE Typed == {j \in 0 .. N : P[j] \in T}
  <2>1. 0 \in Typed
    BY <1>1, <1>7
  <2>2. ASSUME NEW j \in 0 .. N - 1, j \in Typed PROVE j + 1 \in Typed
    <3>1. j + 1 \in 1 .. N /\ (j + 1) - 1 = j /\ j + 1 \in 0 .. N
      BY <1>1
    <3> HIDE DEF Push
    <3>2. QED
      BY <1>2, <1>7, <2>2, <3>1
  <2>3. \A k \in 0 .. N : k \in Typed
    <3> HIDE DEF Typed
    <3> QED BY <1>1, <2>1, <2>2, IntervalInduction
  <2>4. QED
    BY <2>3
<1>9. P \in [0 .. N -> T]
  <2> HIDE DEF Body
  <2> QED BY <1>6, <1>8
<1>10. QED
  BY <1>7, <1>9 DEF P

(***************************************************************************)
(* Freeing the doomed slots of a table lists them with those that were     *)
(* empty already.                                                          *)
(***************************************************************************)
LEMMA ReleasedLists ==
  ASSUME ListType, NEW s \in Space, NEW S, Lists(freeList[s], S),
         NEW doomed, \A i \in S : <<s, i>> \notin doomed
  PROVE  Lists(Tables!Released(s, doomed), S \cup {i \in Slot : <<s, i>> \in doomed})
<1> DEFINE P == Tables!Pushed(s, doomed)
           Below(k) == S \cup {i \in Slot : i < k /\ <<s, i>> \in doomed}
           Done == {k \in 0 .. N : Lists(P[k], Below(k))}
<1>1. /\ P[0] = freeList[s]
      /\ \A k \in 1 .. N : P[k] = IF <<s, k - 1>> \in doomed THEN <<k - 1>> \o P[k - 1] ELSE P[k - 1]
  BY PushedDef
<1> HIDE DEF P
<1>2. N \in Nat /\ Slot = 0 .. N - 1
  BY SizeAssumption
<1>3. 0 \in Done
  <2>1. Below(0) = S
    BY <1>2
  <2> HIDE DEF Below
  <2>2. QED
    BY <1>1, <1>2, <2>1
<1>4. ASSUME NEW k \in 0 .. N - 1, k \in Done PROVE k + 1 \in Done
  <2>1. k + 1 \in 1 .. N /\ (k + 1) - 1 = k /\ k \in Slot /\ k + 1 \in 0 .. N
    BY <1>2
  <2>2. Lists(P[k], Below(k))
    BY <1>4
  <2>3. P[k + 1] = IF <<s, k>> \in doomed THEN <<k>> \o P[k] ELSE P[k]
    BY <1>1, <2>1
  <2> \A i \in Slot : i < k + 1 <=> i < k \/ i = k
    BY <1>2, <2>1
  <2>4. CASE <<s, k>> \in doomed
    <3>1. k \notin Below(k)
      BY <1>2, <2>1, <2>4
    <3>2. Below(k + 1) = Below(k) \cup {k}
      BY <2>1, <2>4
    <3> HIDE DEF Below
    <3>3. Lists(P[k + 1], Below(k + 1))
      BY <2>1, <2>2, <2>3, <2>4, <3>1, <3>2, ListPush
    <3>4. QED
      BY <2>1, <3>3
  <2>5. CASE <<s, k>> \notin doomed
    <3>1. Below(k + 1) = Below(k)
      BY <1>2, <2>1, <2>5
    <3> HIDE DEF Below
    <3>2. QED
      BY <2>1, <2>2, <2>3, <2>5, <3>1
  <2>6. QED
    BY <2>4, <2>5
<1>5. N \in Done
  <2> HIDE DEF Done
  <2>1. \A k \in 0 .. N : k \in Done
    BY <1>2, <1>3, <1>4, IntervalInduction
  <2>2. QED
    BY <1>2, <2>1
<1>6. Below(N) = S \cup {i \in Slot : <<s, i>> \in doomed}
  BY <1>2
<1> HIDE DEF Below
<1>7. Lists(P[N], Below(N))
  BY <1>5
<1>8. QED
  BY <1>6, <1>7 DEF Tables!Released, P
-----------------------------------------------------------------------------
(* The steps *)

(***************************************************************************)
(* CapTable::new lists all slots of the new table.                         *)
(***************************************************************************)
LEMMA AllocCapSpaceLists ==
  ASSUME ListInv, NEW s \in Space, Tables!AllocCapSpace(s)
  PROVE  ListInv'
<1> USE DEF Tables!AllocCapSpace
<1>1. N \in Nat /\ Slot = 0 .. N - 1
  BY SizeAssumption
<1>2. /\ tables' = tables \cup {s} /\ s \notin tables /\ UNCHANGED <<cap, parent, occupied>>
      /\ freeList' = [freeList EXCEPT ![s] = [k \in 1 .. N |-> k - 1]]
  OBVIOUS
<1> DEFINE q == [k \in 1 .. N |-> k - 1]
<1>3. Lists(q, Slot)
  <2>1. q \in Seq(Slot) /\ DOMAIN q = 1 .. N
    BY <1>1
  <2>2. \A i \in Slot : i + 1 \in 1 .. N /\ q[i + 1] = i
    BY <1>1
  <2>3. \A k \in 1 .. N : q[k] \in Slot /\ q[k] = k - 1
    BY <1>1
  <2> HIDE DEF q
  <2>4. {q[k] : k \in DOMAIN q} = Slot
    BY <2>1, <2>2, <2>3
  <2>5. \A j, k \in DOMAIN q : q[j] = q[k] => j = k
    BY <1>1, <2>1, <2>3
  <2>6. QED
    BY <2>1, <2>4, <2>5 DEF Lists
<1> HIDE DEF q
<1>4. Cardinality(Slot) = N
  BY <1>1, FS_Interval
<1>5. \A r \in Space : Empty(r)' = Empty(r)
  BY <1>2 DEF Empty
<1>6. /\ ListType' /\ freeList'[s] = q
      /\ \A r \in Space \ {s} : freeList'[r] = freeList[r]
  BY <1>2, <1>3 DEF ListInv, ListType, Lists, q
<1>7. ASSUME NEW r \in tables'
      PROVE  Lists(freeList'[r], Empty(r)') /\ occupied'[r] = N - Cardinality(Empty(r)')
  <2>1. CASE r = s
    <3>1. Empty(s) = Slot /\ occupied[s] = 0
      BY <1>2 DEF ListInv
    <3>2. QED
      BY <1>1, <1>2, <1>3, <1>4, <1>5, <1>6, <2>1, <3>1
  <2>2. CASE r # s
    <3>1. r \in tables /\ r \in Space
      BY <1>2, <1>7, <2>2 DEF ListInv
    <3>2. QED
      BY <1>2, <1>5, <1>6, <2>2, <3>1 DEF ListInv
  <2>3. QED
    BY <2>1, <2>2
<1>8. QED
  <2>1. tables' \in SUBSET Space /\ occupied' \in [Space -> Nat]
    BY <1>2 DEF ListInv
  <2>2. \A r \in Space \ tables' : occupied'[r] = 0 /\ Empty(r)' = Slot
    BY <1>2, <1>5 DEF ListInv
  <2>3. \A r \in tables' : Lists(freeList[r], Empty(r))' /\ (occupied[r] = N - Cardinality(Empty(r)))'
    BY <1>7 DEF Lists
  <2>4. QED
    BY <1>6, <2>1, <2>2, <2>3 DEF ListInv

(***************************************************************************)
(* alloc_slot and the stores after it fill an empty slot, and take exactly *)
(* that slot off the list.                                                 *)
(***************************************************************************)
LEMMA FillLists ==
  ASSUME ForestInv, ListInv, NEW s \in tables, NEW c, c # None, NEW p, Tables!Fill(s, c, p)
  PROVE  /\ ListInv'
         /\ \E n \in Node : /\ cap[n] = None
                            /\ cap' = [cap EXCEPT ![n] = c]
                            /\ parent' = [parent EXCEPT ![n] = p]
<1> DEFINE h == Head(freeList[s])
           n == <<s, h>>
<1>1. /\ freeList[s] # <<>>
      /\ cap' = [cap EXCEPT ![n] = c] /\ parent' = [parent EXCEPT ![n] = p]
      /\ freeList' = [freeList EXCEPT ![s] = Tail(freeList[s])]
      /\ occupied' = [occupied EXCEPT ![s] = occupied[s] + 1]
      /\ tables' = tables
  BY DEF Tables!Fill
<1>2. s \in Space /\ Lists(freeList[s], Empty(s)) /\ occupied[s] = N - Cardinality(Empty(s))
  BY DEF ListInv
<1>3. h \in Empty(s) /\ Lists(Tail(freeList[s]), Empty(s) \ {h})
  BY <1>1, <1>2, ListTail
<1> HIDE DEF h
<1>4. n \in Node /\ cap[n] = None
  BY <1>2, <1>3 DEF Empty, Node
<1>5. /\ Empty(s)' = Empty(s) \ {h}
      /\ \A r \in Space \ {s} : Empty(r)' = Empty(r)
  <2>1. \A r \in Space, i \in Slot :
           <<r, i>> \in Node /\ cap'[<<r, i>>] = IF r = s /\ i = h THEN c ELSE cap[<<r, i>>]
    BY <1>1 DEF ForestInv, TypeOK, Node
  <2>2. QED
    BY <1>2, <2>1 DEF Empty
<1>6. Cardinality(Empty(s)') = Cardinality(Empty(s)) - 1 /\ Cardinality(Empty(s)) \in Nat
  <2>1. IsFiniteSet(Empty(s))
    BY <1>2, ListLength
  <2>2. QED
    BY <1>3, <1>5, <2>1, FS_RemoveElement, FS_CardinalityType
<1>7. ListType' /\ freeList'[s] = Tail(freeList[s]) /\ \A r \in Space \ {s} : freeList'[r] = freeList[r]
  BY <1>1, <1>2, <1>3 DEF ListInv, ListType, Lists
<1>8. /\ occupied' \in [Space -> Nat] /\ occupied'[s] = occupied[s] + 1
      /\ \A r \in Space \ {s} : occupied'[r] = occupied[r]
  BY <1>1, <1>2 DEF ListInv
<1>9. ASSUME NEW r \in tables
      PROVE  Lists(freeList'[r], Empty(r)') /\ occupied'[r] = N - Cardinality(Empty(r)')
  <2>1. CASE r = s
    <3>1. Lists(freeList'[s], Empty(s)')
      BY <1>3, <1>5, <1>7
    <3>2. N \in Nat
      BY SizeAssumption
    <3>3. occupied'[s] = N - Cardinality(Empty(s)')
      BY <1>2, <1>6, <1>8, <3>2
    <3>4. QED
      BY <2>1, <3>1, <3>3
  <2>2. CASE r # s
    <3>1. r \in Space
      BY DEF ListInv
    <3>2. QED
      BY <1>5, <1>7, <1>8, <2>2, <3>1 DEF ListInv
  <2>3. QED
    BY <2>1, <2>2
<1>10. ListInv'
  <2>1. \A r \in Space \ tables : occupied'[r] = 0 /\ Empty(r)' = Slot
    BY <1>2, <1>5, <1>8 DEF ListInv
  <2>2. \A r \in tables : Lists(freeList[r], Empty(r))' /\ (occupied[r] = N - Cardinality(Empty(r)))'
    BY <1>9 DEF Lists
  <2>3. QED
    BY <1>1, <1>7, <1>8, <2>1, <2>2 DEF ListInv
<1>11. QED
  BY <1>1, <1>4, <1>10

(***************************************************************************)
(* CapTable counts with the library's Cardinality.                         *)
(***************************************************************************)
LEMMA SameCardinality == ASSUME NEW S PROVE Tables!Cardinality(S) = Cardinality(S)
  BY DEF Tables!Cardinality, Cardinality

(***************************************************************************)
(* Pass two of revoke_cross_space lists every freed slot once, in the      *)
(* table it belongs to, and counts it.                                     *)
(***************************************************************************)
LEMMA RevokeLists ==
  ASSUME ForestInv, ListInv, NEW t \in Node, Tables!RevokeCrossSpace(t)
  PROVE  ListInv' /\ Revoke(t)
<1> DEFINE D == Tables!Marked(t)
           Doomed(s) == {i \in Slot : <<s, i>> \in D}
           Of(s) == {n \in D : n[1] = s}
<1>1. /\ cap[t] # None /\ t \in Live
      /\ cap' = [n \in Node |-> IF n \in D THEN None ELSE cap[n]]
      /\ parent' = [n \in Node |-> IF n \in D THEN None ELSE parent[n]]
      /\ freeList' = [s \in Space |-> Tables!Released(s, D)]
      /\ occupied' = [s \in Space |-> occupied[s] - Cardinality(Of(s))]
      /\ tables' = tables
  <2>1. /\ cap[t] # None /\ tables' = tables
        /\ cap' = [n \in Tables!Node |-> IF n \in D THEN None ELSE cap[n]]
        /\ parent' = [n \in Tables!Node |-> IF n \in D THEN None ELSE parent[n]]
        /\ freeList' = [s \in Space |-> Tables!Released(s, D)]
        /\ occupied' = [s \in Space |-> occupied[s] - Tables!Cardinality(Of(s))]
    BY Zenon DEF Tables!RevokeCrossSpace
  <2>2. Tables!Node = Node
    BY DEF Tables!Node, Tables!Forest!Node, Node
  <2>3. \A s \in Space : Tables!Cardinality(Of(s)) = Cardinality(Of(s))
    BY SameCardinality
  <2> HIDE DEF D, Of
  <2>4. QED
    BY <2>1, <2>2, <2>3 DEF Live
<1>2. D = Subtree(t)
  BY <1>1, MarkedIsSubtree
<1>3. Revoke(t)
  BY <1>1, <1>2 DEF Revoke
<1>4. D \subseteq Live
  BY <1>1, <1>2, SubtreeClosed
<1> HIDE DEF D
<1>5. ASSUME NEW s \in Space
      PROVE  /\ Empty(s)' = Empty(s) \cup Doomed(s)
             /\ \A i \in Empty(s) : <<s, i>> \notin D
  BY <1>1, <1>4 DEF Empty, Live, Node
<1>6. N \in Nat /\ IsFiniteSet(Slot) /\ Cardinality(Slot) = N
  BY SizeAssumption, FS_Interval
<1>7. ASSUME NEW s \in Space
      PROVE  /\ Cardinality(Empty(s)') = Cardinality(Empty(s)) + Cardinality(Of(s))
             /\ Cardinality(Empty(s)) \in Nat /\ Cardinality(Of(s)) \in Nat
             /\ Cardinality(Empty(s)') <= N
  <2>1. IsFiniteSet(Empty(s)) /\ IsFiniteSet(Doomed(s)) /\ IsFiniteSet(Empty(s)')
    BY <1>6, <1>5, FS_Subset DEF Empty
  <2>2. Empty(s) \cap Doomed(s) = {}
    BY <1>5
  <2>3. Cardinality(Empty(s)') = Cardinality(Empty(s)) + Cardinality(Doomed(s))
    <3>1. Cardinality(Empty(s) \cap Doomed(s)) = 0
      BY <2>2, FS_EmptySet
    <3>2. Cardinality(Empty(s)) \in Nat /\ Cardinality(Doomed(s)) \in Nat
      BY <2>1, FS_CardinalityType
    <3> HIDE DEF Doomed
    <3>3. QED
      BY <1>5, <2>1, <3>1, <3>2, FS_Union
  <2>4. Cardinality(Of(s)) = Cardinality(Doomed(s))
    <3> DEFINE g == [i \in Doomed(s) |-> <<s, i>>]
    <3>1. \A n \in Of(s) : n[2] \in Doomed(s) /\ n = <<s, n[2]>>
      BY <1>4 DEF Live, Node
    <3>2. g \in [Doomed(s) -> Of(s)]
      OBVIOUS
    <3>3. g \in Bijection(Doomed(s), Of(s))
      BY <3>1, <3>2 DEF Bijection, Injection, Surjection, IsInjective
    <3>4. ExistsBijection(Doomed(s), Of(s))
      BY <3>3 DEF ExistsBijection
    <3> HIDE DEF Doomed, Of
    <3>5. QED
      BY <2>1, <3>4, FS_Bijection
  <2>5. Empty(s)' \subseteq Slot
    BY DEF Empty
  <2>6. Cardinality(Empty(s)') <= N
    BY <1>6, <2>5, FS_Subset
  <2> HIDE DEF Doomed, Of
  <2>7. QED
    BY <2>1, <2>3, <2>4, <2>6, FS_CardinalityType
<1>8. ASSUME NEW s \in Space \ tables
      PROVE  Of(s) = {} /\ Empty(s)' = Slot
  BY <1>4, <1>5 DEF ListInv, Empty, Live, Node
<1>9. ListType'
  <2>1. ASSUME NEW s \in Space PROVE Tables!Released(s, D) \in Seq(Slot)
    BY <1>6, PushedDef DEF ListInv, Tables!Released
  <2>2. QED
    BY <1>1, <2>1 DEF ListType
<1> HIDE DEF Of
<1>10. \A s \in Space : occupied'[s] = occupied[s] - Cardinality(Of(s))
  BY <1>1
<1>11. ASSUME NEW s \in tables
       PROVE  /\ Lists(freeList'[s], Empty(s)')
              /\ occupied'[s] = N - Cardinality(Empty(s)') /\ occupied'[s] \in Nat
  <2>1. s \in Space /\ Lists(freeList[s], Empty(s)) /\ occupied[s] = N - Cardinality(Empty(s))
    BY DEF ListInv
  <2>2. freeList'[s] = Tables!Released(s, D)
    BY <1>1, <2>1
  <2>3. Lists(Tables!Released(s, D), Empty(s) \cup Doomed(s))
    BY <1>5, <2>1, ReleasedLists DEF ListInv
  <2> HIDE DEF Doomed
  <2>4. Lists(freeList'[s], Empty(s)')
    BY <1>5, <2>1, <2>2, <2>3
  <2> DEFINE e == Cardinality(Empty(s))
             o == Cardinality(Of(s))
             f == Cardinality(Empty(s)')
  <2>5. f = e + o /\ e \in Nat /\ o \in Nat /\ f <= N /\ occupied'[s] = (N - e) - o
    BY <1>7, <1>10, <2>1
  <2> HIDE DEF e, o, f
  <2>6. occupied'[s] = N - f /\ N - f \in Nat
    BY <1>6, <2>5
  <2>7. QED
    BY <2>4, <2>6 DEF f
<1>12. \A s \in Space \ tables : occupied'[s] = 0 /\ Empty(s)' = Slot
  <2>1. SUFFICES ASSUME NEW s \in Space \ tables PROVE occupied'[s] = 0
    BY <1>8
  <2>2. occupied[s] = 0 /\ Cardinality(Of(s)) = 0
    BY <1>8, FS_EmptySet DEF ListInv
  <2>3. QED
    BY <1>10, <2>2
<1>13. occupied' \in [Space -> Nat]
  <2>1. \A s \in Space : occupied'[s] \in Nat
    BY <1>11, <1>12
  <2>2. QED
    BY <1>1, <2>1
<1>14. QED
  <2>1. \A s \in tables : Lists(freeList[s], Empty(s))' /\ (occupied[s] = N - Cardinality(Empty(s)))'
    BY <1>11 DEF Lists
  <2>2. ListInv'
    BY <1>1, <1>9, <1>12, <1>13, <2>1 DEF ListInv
  <2>3. QED
    BY <1>3, <2>2

(***************************************************************************)
(* Every step of the tables is a step of the forest, or changes nothing of *)
(* it, and keeps both invariants.                                          *)
(***************************************************************************)
LEMMA TablesStep ==
  ASSUME TablesInv, [Tables!Next]_(Tables!vars)
  PROVE  [Next]_vars /\ TablesInv'
<1> USE DEF TablesInv
<1>1. CASE UNCHANGED Tables!vars
  <2>1. UNCHANGED <<vars, tables, freeList, occupied>>
    BY <1>1 DEF Tables!vars, vars
  <2>2. ForestInv'
    BY <2>1 DEF vars, ForestInv, TypeOK, ParentsLive, NeverAmplified, Acyclic, Live
  <2>3. \A s \in tables : Lists(freeList[s], Empty(s))' <=> Lists(freeList[s], Empty(s))
    BY <2>1 DEF vars, Lists, Empty
  <2>4. \A s \in Space : Empty(s)' = Empty(s)
    BY <2>1 DEF vars, Empty
  <2>5. ListInv'
    BY <2>1, <2>3, <2>4 DEF ListInv, ListType
  <2>6. QED
    BY <2>1, <2>2, <2>5
<1>2. ASSUME NEW s \in Space, Tables!AllocCapSpace(s)
      PROVE  [Next]_vars /\ TablesInv'
  <2>1. UNCHANGED vars
    BY <1>2 DEF Tables!AllocCapSpace, vars
  <2>2. ForestInv'
    BY <2>1 DEF vars, ForestInv, TypeOK, ParentsLive, NeverAmplified, Acyclic, Live
  <2>3. QED
    BY <1>2, <2>1, <2>2, AllocCapSpaceLists
<1>3. ASSUME NEW s \in Space, NEW o \in Object, Tables!InsertRoot(s, Tables!FullCap(o))
      PROVE  [Next]_vars /\ TablesInv'
  <2> DEFINE c == Tables!FullCap(o)
  <2>1. c \in Capability /\ c # None
    BY BadgeAssumption, NoneAssumption DEF Tables!FullCap, Capability
  <2> HIDE DEF c
  <2>2. s \in tables /\ Tables!Fill(s, c, None)
    BY <1>3 DEF Tables!InsertRoot, c
  <2>3. ListInv' /\ \E n \in Node : InsertRoot(n, c)
    BY <2>1, <2>2, FillLists DEF InsertRoot
  <2>4. QED
    BY <2>1, <2>3, InsertRootPreserves DEF Next
<1>4. ASSUME NEW p \in Node, NEW dst \in Space, NEW rights \in SUBSET Right, NEW asked \in Badge,
             Tables!InsertDerived(p, dst, rights, asked)
      PROVE  [Next]_vars /\ TablesInv'
  <2>1. dst \in tables /\ cap[p] # None /\ rights \subseteq cap[p].rights
    BY <1>4 DEF Tables!InsertDerived
  <2>2. PICK badge \in EffectiveBadge(cap[p].badge, asked) :
          Tables!Fill(dst, [object |-> cap[p].object, rights |-> rights, badge |-> badge], p)
    BY <1>4 DEF Tables!InsertDerived, Tables!Forest!EffectiveBadge, EffectiveBadge
  <2> DEFINE c == [object |-> cap[p].object, rights |-> rights, badge |-> badge]
  <2>3. cap[p] \in Capability
    BY <2>1 DEF ForestInv, TypeOK
  <2>4. badge \in Badge
    BY <2>2, <2>3 DEF EffectiveBadge, Capability
  <2>5. c \in Capability /\ c # None
    BY <2>3, <2>4, NoneAssumption DEF Capability
  <2>6. ListInv' /\ \E n \in Node : Derive(p, n, rights, badge)
    <3> HIDE DEF c
    <3>1. Tables!Fill(dst, c, p)
      BY <2>2 DEF c
    <3>2. /\ ListInv'
          /\ \E n \in Node : /\ cap[n] = None
                             /\ cap' = [cap EXCEPT ![n] = c]
                             /\ parent' = [parent EXCEPT ![n] = p]
      BY <2>1, <2>5, <3>1, FillLists
    <3>3. QED
      BY <2>1, <3>2 DEF Derive, c
  <2>7. PICK n \in Node : Derive(p, n, rights, badge)
    BY <2>6
  <2>8. ForestInv'
    BY <2>1, <2>2, <2>7, DerivePreserves
  <2>9. Next
    BY <2>1, <2>2, <2>7 DEF Next
  <2>10. QED
    BY <2>6, <2>8, <2>9
<1>5. ASSUME NEW t \in Node, Tables!RevokeCrossSpace(t)
      PROVE  [Next]_vars /\ TablesInv'
  <2>1. ListInv' /\ Revoke(t)
    BY <1>5, RevokeLists
  <2>2. QED
    BY <2>1, RevokePreserves DEF Next
<1>6. Tables!Node = Node
  BY DEF Tables!Node, Tables!Forest!Node, Node
<1>7. QED
  BY <1>1, <1>2, <1>3, <1>4, <1>5, <1>6 DEF Tables!Next

(***************************************************************************)
(* Before the first table exists there is no capability.                   *)
(***************************************************************************)
LEMMA TablesStart ==
  ASSUME Tables!Init
  PROVE  Init /\ TablesInv
<1>1. Init /\ Live = {}
  BY DEF Tables!Init, Init, Live, Tables!Node, Tables!Forest!Node, Node
<1>2. ForestInv
  BY <1>1 DEF Init, ForestInv, TypeOK, ParentsLive, NeverAmplified, Acyclic
<1>3. \A s \in Space : Empty(s) = Slot
  BY <1>1 DEF Init, Empty, Node
<1>4. ListInv
  BY <1>3 DEF Tables!Init, ListInv, ListType
<1>5. QED
  BY <1>1, <1>2, <1>4 DEF TablesInv

(***************************************************************************)
(* kernel-cap's tables implement the capability forest: whatever slots     *)
(* were reused before, insert_root and insert_derived fill an empty slot   *)
(* and revoke_cross_space, with its bounded walk, frees a subtree across   *)
(* all tables and nothing else.                                            *)
(***************************************************************************)
THEOREM TablesImplementForest == TablesSpec => ImplementsForest
<1>1. Tables!Init => Init /\ TablesInv
  BY TablesStart
<1>2. TablesInv /\ [Tables!Next]_(Tables!vars) => [Next]_vars /\ TablesInv'
  BY TablesStep
<1>3. QED
  BY <1>1, <1>2, PTL DEF TablesSpec, Tables!Spec, ImplementsForest, Spec

(***************************************************************************)
(* cdt.rs invariants 1 and 2: no slot is leaked and none is handed out     *)
(* while it is occupied, in tables of any number and size.                 *)
(***************************************************************************)
THEOREM FreeListsExact == TablesSpec => []FreeListExact
<1>1. TablesInv => FreeListExact
  <2>1. SUFFICES ASSUME TablesInv, NEW s \in tables
                 PROVE  /\ {freeList[s][k] : k \in DOMAIN freeList[s]} = Empty(s)
                        /\ Len(freeList[s]) = Cardinality(Empty(s))
                        /\ occupied[s] = N - Cardinality(Empty(s))
    BY SameCardinality DEF FreeListExact, Tables!FreeListExact, Empty
  <2>2. Lists(freeList[s], Empty(s)) /\ occupied[s] = N - Cardinality(Empty(s))
    BY <2>1 DEF TablesInv, ListInv
  <2>3. Len(freeList[s]) = Cardinality(Empty(s))
    BY <2>2, ListLength
  <2>4. QED
    BY <2>2, <2>3 DEF Lists
<1>2. Tables!Init => TablesInv
  BY TablesStart
<1>3. TablesInv /\ [Tables!Next]_(Tables!vars) => TablesInv'
  BY TablesStep
<1>4. QED
  BY <1>1, <1>2, <1>3, PTL DEF TablesSpec, Tables!Spec

(***************************************************************************)
(* rights.rs and cdt.rs invariants 3 to 5, of the tables themselves: no    *)
(* authority is amplified, no parent link dangles, no derivation cycles.   *)
(***************************************************************************)
THEOREM TablesKeepForest == TablesSpec => [](NeverAmplified /\ ParentsLive /\ Acyclic)
<1>1. ForestInv => NeverAmplified /\ ParentsLive /\ Acyclic
  BY DEF ForestInv
<1>2. QED
  BY <1>1, TablesImplementForest, ForestInvariant, PTL DEF ImplementsForest

(***************************************************************************)
(* revoke_cross_space's contract, of the tables themselves.                *)
(***************************************************************************)
THEOREM TablesRevokeCompletely == TablesSpec => RevocationComplete
  BY TablesImplementForest, RevocationIsComplete, PTL DEF ImplementsForest
=============================================================================
