---------------------------- MODULE MemoryProofs ----------------------------
(***************************************************************************)
(* Physical memory for any sizes.  The Map syscall, as long as the pool    *)
(* holds every table that the pages asked for can need: the software model *)
(* and the hardware tables never drift apart.  And the memory the kernel   *)
(* gives out: no byte of it twice.                                         *)
(***************************************************************************)
EXTENDS PageTables, KernelObjects, Integers, FiniteSetTheorems, FunctionTheorems, SequenceTheorems,
        WellFoundedInduction, TLAPS
-----------------------------------------------------------------------------
(* Pages and their indices *)

LEMMA DivMod ==
  ASSUME NEW F \in Nat \ {0}, NEW v \in Nat
  PROVE  v \div F \in Nat /\ v % F \in 0 .. F - 1 /\ v = F * (v \div F) + (v % F)
<1>1. v \div F \in Int /\ v \div F >= 0
  OBVIOUS
<1>2. v % F \in 0 .. F - 1
  OBVIOUS
<1>3. PICK q \in Int, r \in Int : q = v \div F /\ r = v % F
  BY <1>1, <1>2
<1>4. v = F * q + r
  BY <1>3
<1> QED BY <1>1, <1>2, <1>3, <1>4

LEMMA VpnTypes ==
  ASSUME NEW v \in Vaddr
  PROVE  v \in Nat /\ Vpn(v)[1] \in Index /\ Vpn(v)[2] \in Index /\ Vpn(v)[3] \in Index
<1>1. v \in Nat /\ Fanout \in Nat \ {0} /\ Fanout * Fanout \in Nat \ {0}
  BY VaddrAssumption, SizeAssumption
<1>2. v \div Fanout \in Nat /\ v \div (Fanout * Fanout) \in Nat
  BY <1>1, DivMod
<1>3. \A n \in Nat : n % Fanout \in Index
  BY <1>1 DEF Index
<1> QED BY <1>1, <1>2, <1>3 DEF Vpn

\* The tables tell canonical pages apart, although they drop the bits above
\* the top index.
PagesWellFormed ==
  /\ Pages \in Nat /\ Pages % (Fanout * Fanout * Fanout) = 0
  /\ \A v \in Vaddr : Canonical(v) /\ v # Pages - 1

LEMMA SameRest ==
  ASSUME NEW F \in Nat \ {0}, NEW a \in Nat, NEW b \in Nat, a % F = b % F
  PROVE  a - b = F * ((a \div F) - (b \div F))
<1>1. PICK x \in Nat, r \in 0 .. F - 1 : x = a \div F /\ r = a % F /\ a = F * x + r
  BY DivMod, Zenon
<1>2. PICK y \in Nat, q \in 0 .. F - 1 : y = b \div F /\ q = b % F /\ b = F * y + q
  BY DivMod, Zenon
<1>3. a - b = F * (x - y)
  BY <1>1, <1>2
<1> QED BY <1>1, <1>2, <1>3

\* Of two numbers within half of N from the ends of 0 .. N * k that differ by a
\* multiple of N, both are the same.
LEMMA NearTheEnds ==
  ASSUME NEW N \in Nat \ {0}, NEW i \in Int, NEW h \in Nat, NEW k \in Nat, 2 * h <= N,
         NEW u \in 0 .. N * k - 1, NEW v \in 0 .. N * k - 1, u - v = N * i,
         u < h \/ u >= N * k - h, v < h \/ v >= N * k - h
  PROVE  u = v
<1>1. PICK P \in Nat : P = N * k
  OBVIOUS
<1>2. PICK D \in Int : D = N * i
  OBVIOUS
<1>3. CASE (u < h /\ v < h) \/ (u >= P - h /\ v >= P - h)
  <2>1. -N < D /\ D < N
    BY <1>1, <1>2, <1>3
  <2>2. i = 0
    BY <1>2, <2>1
  <2> QED BY <1>2, <2>2
<1>4. CASE u < h /\ v >= P - h
  <2>1. P - N < -D /\ -D < P
    BY <1>1, <1>2, <1>4
  <2>2. N * (k - 1) < N * (-i) /\ N * (-i) < N * k
    BY <1>1, <1>2, <2>1
  <2>3. k - 1 < -i /\ -i < k
    BY <2>2
  <2> QED BY <2>3
<1>5. CASE v < h /\ u >= P - h
  <2>1. P - N < D /\ D < P
    BY <1>1, <1>2, <1>5
  <2>2. N * (k - 1) < N * i /\ N * i < N * k
    BY <1>1, <1>2, <2>1
  <2>3. k - 1 < i /\ i < k
    BY <2>2
  <2> QED BY <2>3
<1> QED BY <1>1, <1>3, <1>4, <1>5

LEMMA PagesApart ==
  ASSUME PagesWellFormed, NEW u \in Vaddr, NEW v \in Vaddr, Vpn(u) = Vpn(v)
  PROVE  u = v
<1>1. PICK F \in Nat \ {0} : F = Fanout
  BY SizeAssumption
<1>2. u \in Nat /\ v \in Nat /\ u \in 0 .. Pages - 1 /\ v \in 0 .. Pages - 1 /\ Pages \in Nat
  BY VaddrAssumption DEF PagesWellFormed
<1>3. PICK c \in Nat, d \in Nat : c = u \div F /\ d = v \div F
  <2>1. u \div F \in Nat /\ v \div F \in Nat
    BY <1>1, <1>2, DivMod
  <2> QED BY <2>1
<1>4. PICK a \in Nat, b \in Nat : a = c \div F /\ b = d \div F
  <2>1. c \div F \in Nat /\ d \div F \in Nat
    BY <1>1, <1>3, DivMod
  <2> QED BY <2>1
<1>5. PICK x \in Nat, y \in Nat : x = a \div F /\ y = b \div F
  <2>1. a \div F \in Nat /\ b \div F \in Nat
    BY <1>1, <1>4, DivMod
  <2> QED BY <2>1
<1>6. a = u \div (F * F) /\ b = v \div (F * F)
  BY <1>1, <1>2, <1>3, <1>4
<1>7. a % F = b % F /\ c % F = d % F /\ u % F = v % F
  BY <1>1, <1>3, <1>6 DEF Vpn
<1>8. a - b = F * (x - y) /\ c - d = F * (a - b) /\ u - v = F * (c - d)
  <2>1. a - b = F * (x - y)
    BY <1>5, <1>7, SameRest, Zenon
  <2>2. c - d = F * (a - b)
    BY <1>4, <1>7, SameRest, Zenon
  <2>3. u - v = F * (c - d)
    BY <1>2, <1>3, <1>7, SameRest, Zenon
  <2> QED BY <2>1, <2>2, <2>3
<1>9. PICK N \in Nat \ {0} : N = F * F * F
  BY <1>1
<1>10. u - v = N * (x - y)
  BY <1>1, <1>8, <1>9
<1>11. PICK k \in Nat : Pages = N * k
  <2>1. Pages % N = 0
    BY <1>1, <1>9 DEF PagesWellFormed
  <2>2. PICK k \in Nat, r \in 0 .. N - 1 : r = Pages % N /\ Pages = N * k + r
    BY <1>2, DivMod, Zenon
  <2>3. Pages = N * k
    BY <1>2, <2>1, <2>2
  <2> QED BY <2>3
<1>12. PICK h \in Nat : h = N \div 2 /\ 2 * h <= N
  OBVIOUS
<1>13. /\ u < h \/ u >= Pages - h
       /\ v < h \/ v >= Pages - h
  BY <1>1, <1>9, <1>12 DEF PagesWellFormed, Canonical
<1>14. x - y \in Int
  OBVIOUS
<1> QED BY <1>2, <1>10, <1>11, <1>12, <1>13, <1>14, NearTheEnds, Zenon

\* Two one-page mappings overlap when they are of the same page.
LEMMA OverlapIsSamePage ==
  ASSUME PagesWellFormed, NEW m \in Mapping, NEW v \in Vaddr
  PROVE  Overlaps(m, v) <=> m.vaddr = v
<1>1. m.vaddr \in Vaddr /\ \A x \in Vaddr : x \in 0 .. Pages - 1 /\ x # Pages - 1 /\ Pages \in Nat
  BY VaddrAssumption DEF PagesWellFormed, Mapping
<1>2. (v + 1) % Pages = v + 1 /\ (m.vaddr + 1) % Pages = m.vaddr + 1
  BY <1>1
<1> QED BY <1>1, <1>2 DEF Overlaps
-----------------------------------------------------------------------------
(* Tables *)

Pool == 1 .. PoolLen
Leaf(p)    == [leaf |-> TRUE, to |-> p]
Pointer(n) == [leaf |-> FALSE, to |-> n]

\* In tables T, entry i of frame f points to frame n.
Link(T, f, i, n) == T[f][i] # None /\ ~T[f][i].leaf /\ T[f][i].to = n

\* With u frames of the pool in use: exactly those are linked, each in one
\* place, the others are empty; superpages are the ones of the boot; below a
\* root are frames of pointers, below those frames of leaves.
TablesTyped(T, u) == T \in [Frame -> [Index -> Entry \cup {None}]] /\ u \in 0 .. PoolLen
Below(T, u)  == \A f \in Frame, i \in Index, n \in Pool : Link(T, f, i, n) => n <= u
Linked(T, u) == \A n \in 1 .. u : \E f \in Frame, i \in Index : Link(T, f, i, n)
Once(T)      == \A f, g \in Frame, i, j \in Index, n \in Pool :
                  Link(T, f, i, n) /\ Link(T, g, j, n) => f = g /\ i = j
Zeroed(T, u) == \A n \in Pool, i \in Index : n > u => T[n][i] = None
Superpages(T) == \A s \in Space, i \in Index : (T[s][i] # None /\ T[s][i].leaf) <=> <<s, i>> \in BootLeaf
Levels(T) ==
  \A n \in Pool, j, i \in Index :
    /\ \A s \in Space : Link(T, s, j, n) /\ T[n][i] # None => ~T[n][i].leaf
    /\ \A m \in Pool : Link(T, m, j, n) /\ T[n][i] # None => \E p \in Paddr : T[n][i] = Leaf(p)
\* Only pages that Map was asked for have tables.
Named(T) ==
  \A s \in Space, i \in Index, m \in Pool : Link(T, s, i, m) =>
    /\ \E v \in Vaddr : Vpn(v)[1] = i
    /\ \A j \in Index, n \in Pool : Link(T, m, j, n) => \E v \in Vaddr : Vpn(v)[1] = i /\ Vpn(v)[2] = j

Shape(T, u) ==
  /\ TablesTyped(T, u) /\ Below(T, u) /\ Linked(T, u) /\ Once(T)
  /\ Zeroed(T, u) /\ Superpages(T) /\ Levels(T) /\ Named(T)

LEMMA LinkTyped ==
  ASSUME NEW T, NEW u, TablesTyped(T, u), NEW f \in Frame, NEW i \in Index
  PROVE  /\ T[f][i] = None \/ T[f][i] \in Entry
         /\ T[f][i] # None /\ ~T[f][i].leaf => T[f][i].to \in Pool /\ Link(T, f, i, T[f][i].to)
  BY DEF TablesTyped, Entry, Link, Pool

\* What a link to a fresh frame changes.
LEMMA Linking ==
  ASSUME NEW T, NEW u, TablesTyped(T, u), NEW f \in Frame, NEW i \in Index, T[f][i] = None,
         u + 1 \in Pool
  PROVE  LET T2 == [T EXCEPT ![f][i] = Pointer(u + 1)] IN
         /\ TablesTyped(T2, u + 1)
         /\ \A g \in Frame, j \in Index : <<g, j>> # <<f, i>> => T2[g][j] = T[g][j]
         /\ T2[f][i] = Pointer(u + 1)
         /\ \A g \in Frame, j \in Index, n \in Pool : Link(T2, g, j, n) <=> Link(T, g, j, n) \/ (g = f /\ j = i /\ n = u + 1)
<1> DEFINE T2 == [T EXCEPT ![f][i] = Pointer(u + 1)]
<1>0. PICK k \in Pool : k = u + 1
  OBVIOUS
<1>1. T \in [Frame -> [Index -> Entry \cup {None}]] /\ Pointer(u + 1) \in Entry /\ u + 1 \in 0 .. PoolLen
  <2>1. Pointer(k) \in Entry
    BY DEF Entry, Pointer, Pool
  <2> QED BY <1>0, <2>1, SizeAssumption DEF TablesTyped, Pool
<1>2. PICK e : e = Pointer(u + 1)
  OBVIOUS
<1>3. e \in Entry /\ e # None /\ e.leaf = FALSE /\ e.to = u + 1
  BY <1>1, <1>2, NoneAssumption DEF Pointer
<1>4. PICK R : R = [T[f] EXCEPT ![i] = e]
  OBVIOUS
<1>5. R \in [Index -> Entry \cup {None}] /\ R[i] = e /\ \A j \in Index \ {i} : R[j] = T[f][j]
  BY <1>1, <1>3, <1>4
<1>6. T2 = [T EXCEPT ![f] = R]
  BY <1>2, <1>4
<1>7. T2 \in [Frame -> [Index -> Entry \cup {None}]] /\ T2[f] = R /\ \A g \in Frame \ {f} : T2[g] = T[g]
  BY <1>1, <1>5, <1>6
<1> HIDE DEF T2
<1>8. TablesTyped(T2, u + 1)
  BY <1>1, <1>7 DEF TablesTyped
<1>9. \A g \in Frame, j \in Index : <<g, j>> # <<f, i>> => T2[g][j] = T[g][j]
  BY <1>5, <1>7
<1>10. T2[f][i] = e
  BY <1>5, <1>7
<1>11. \A g \in Frame, j \in Index, n \in Pool : Link(T2, g, j, n) <=> Link(T, g, j, n) \/ (g = f /\ j = i /\ n = u + 1)
  BY <1>3, <1>9, <1>10 DEF Link
<1> QED BY <1>2, <1>8, <1>9, <1>10, <1>11 DEF T2

\* A fresh frame linked into a root or below one.
LEMMA LinkingShape ==
  ASSUME NEW T, NEW u, Shape(T, u), NEW f \in Frame, NEW i \in Index, T[f][i] = None, u + 1 \in Pool,
         \/ f \in Space /\ \E v \in Vaddr : Vpn(v)[1] = i
         \/ f \in Pool /\ \E s \in Space, h \in Index :
              Link(T, s, h, f) /\ \E v \in Vaddr : Vpn(v)[1] = h /\ Vpn(v)[2] = i
  PROVE  Shape([T EXCEPT ![f][i] = Pointer(u + 1)], u + 1)
<1>1. PICK T2 : T2 = [T EXCEPT ![f][i] = Pointer(u + 1)]
  OBVIOUS
<1>2. PICK k \in Pool : k = u + 1
  OBVIOUS
<1>3. u \in 0 .. PoolLen /\ k = u + 1 /\ Pool \subseteq Nat /\ Pool \subseteq Frame /\ Space \subseteq Frame
      /\ \A n \in Pool : n \notin Space
  BY <1>2, SizeAssumption, FrameAssumption DEF Shape, TablesTyped, Pool, Frame
<1>4. TablesTyped(T2, k) /\ TablesTyped(T, u)
  BY <1>1, <1>2, Linking DEF Shape
<1>5. \A g \in Frame, j \in Index : <<g, j>> # <<f, i>> => T2[g][j] = T[g][j]
  BY <1>1, <1>4, Linking
<1>6. \A g \in Frame, j \in Index, n \in Pool : Link(T2, g, j, n) <=> Link(T, g, j, n) \/ (g = f /\ j = i /\ n = k)
  <2>1. \A g \in Frame, j \in Index, n \in Pool : Link(T2, g, j, n) <=> Link(T, g, j, n) \/ (g = f /\ j = i /\ n = u + 1)
    BY <1>1, <1>4, Linking
  <2> QED BY <1>2, <2>1
<1>7. T2[f][i] # None /\ T2[f][i].leaf = FALSE
  <2>1. T2[f][i] = Pointer(k)
    BY <1>1, <1>2, <1>4, Linking
  <2>2. Link(T2, f, i, k)
    BY <1>6
  <2> QED BY <2>1, <2>2 DEF Link, Pointer
<1>8. \A g \in Frame, j \in Index : ~ Link(T, g, j, k)
  BY <1>3 DEF Shape, Below
<1>9. \A j \in Index : T[k][j] = None
  BY <1>3 DEF Shape, Zeroed
<1>10. f \in Space \/ \E s \in Space, h \in Index : Link(T, s, h, f)
  OBVIOUS
<1>11. f # k
  BY <1>3, <1>8, <1>10
<1>12. \A j \in Index : T2[k][j] = None
  BY <1>3, <1>5, <1>9, <1>11
<1>13. Below(T2, k)
  BY <1>3, <1>6 DEF Shape, Below
<1>14. Linked(T2, k)
  <2>1. \A n \in 1 .. u : n \in Pool /\ \E g \in Frame, j \in Index : Link(T2, g, j, n)
    <3>1. \A n \in 1 .. u : n \in Pool
      BY <1>3, SizeAssumption DEF Pool
    <3>2. \A n \in 1 .. u : \E g \in Frame, j \in Index : Link(T, g, j, n)
      BY DEF Shape, Linked
    <3> QED BY <1>6, <3>1, <3>2
  <2>2. Link(T2, f, i, k)
    BY <1>6
  <2>3. \A n \in 1 .. k : n \in 1 .. u \/ n = k
    BY <1>3
  <2> QED BY <2>1, <2>2, <2>3 DEF Linked
<1>15. Once(T2)
  BY <1>6, <1>8 DEF Shape, Once
<1>16. Zeroed(T2, k)
  <2>1. ASSUME NEW n \in Pool, NEW j \in Index, n > k PROVE T2[n][j] = None
    <3>1. n > u /\ n \in Frame
      BY <1>3, <2>1
    <3>2. \A g \in Frame, h \in Index : ~ Link(T, g, h, n)
      BY <1>3, <3>1 DEF Shape, Below
    <3>3. f # n
      BY <1>3, <1>10, <3>2
    <3> QED BY <1>5, <3>1, <3>3 DEF Shape, Zeroed
  <2> QED BY <2>1 DEF Zeroed
<1>17. Superpages(T2)
  <2>1. ASSUME NEW s \in Space, NEW j \in Index
        PROVE  (T2[s][j] # None /\ T2[s][j].leaf) <=> (T[s][j] # None /\ T[s][j].leaf)
    <3>1. CASE <<s, j>> = <<f, i>>
      BY <1>7, <3>1
    <3>2. CASE <<s, j>> # <<f, i>>
      BY <1>3, <1>5, <3>2
    <3> QED BY <3>1, <3>2
  <2> QED BY <2>1 DEF Shape, Superpages
<1>18. Levels(T2)
  <2> SUFFICES ASSUME NEW n \in Pool, NEW h \in Index, NEW j \in Index, T2[n][j] # None
               PROVE  /\ \A s \in Space : Link(T2, s, h, n) => ~T2[n][j].leaf
                      /\ \A m \in Pool : Link(T2, m, h, n) => \E p \in Paddr : T2[n][j] = Leaf(p)
    BY DEF Levels
  <2>1. n # k
    BY <1>12
  <2>2. \A g \in Frame : Link(T2, g, h, n) <=> Link(T, g, h, n)
    BY <1>6, <2>1
  <2>3. CASE <<n, j>> = <<f, i>>
    <3>1. PICK s \in Space, a \in Index : Link(T, s, a, n)
      BY <1>3, <1>10, <2>3
    <3>2. \A m \in Pool : ~ Link(T, m, h, n)
      BY <1>3, <3>1 DEF Shape, Once
    <3> QED BY <1>3, <1>7, <2>2, <2>3, <3>2
  <2>4. CASE <<n, j>> # <<f, i>>
    BY <1>3, <1>5, <2>2, <2>4 DEF Shape, Levels
  <2> QED BY <2>3, <2>4
<1>19. Named(T2)
  <2> SUFFICES ASSUME NEW s \in Space, NEW h \in Index, NEW m \in Pool, Link(T2, s, h, m)
               PROVE  /\ \E v \in Vaddr : Vpn(v)[1] = h
                      /\ \A j \in Index, n \in Pool : Link(T2, m, j, n) => \E v \in Vaddr : Vpn(v)[1] = h /\ Vpn(v)[2] = j
    BY DEF Named
  <2>1. CASE m = k
    <3>1. s = f /\ h = i
      BY <1>3, <1>6, <1>8, <2>1
    <3>2. \E v \in Vaddr : Vpn(v)[1] = h
      BY <1>3, <3>1
    <3>3. \A j \in Index, n \in Pool : ~ Link(T2, m, j, n)
      BY <1>12, <2>1 DEF Link
    <3> QED BY <3>2, <3>3
  <2>2. CASE m # k
    <3>1. Link(T, s, h, m)
      BY <1>3, <1>6, <2>2
    <3>2. ASSUME NEW j \in Index, NEW n \in Pool, Link(T2, m, j, n)
          PROVE  \E v \in Vaddr : Vpn(v)[1] = h /\ Vpn(v)[2] = j
      <4>1. CASE Link(T, m, j, n)
        BY <3>1, <4>1 DEF Shape, Named
      <4>2. CASE m = f /\ j = i
        <5>1. PICK r \in Space, a \in Index : Link(T, r, a, f) /\ \E v \in Vaddr : Vpn(v)[1] = a /\ Vpn(v)[2] = i
          BY <1>3, <4>2
        <5>2. a = h
          BY <1>3, <3>1, <4>2, <5>1 DEF Shape, Once
        <5> QED BY <4>2, <5>1, <5>2
      <4> QED BY <1>3, <1>6, <3>2, <4>1, <4>2
    <3> QED BY <3>1, <3>2 DEF Shape, Named
  <2> QED BY <2>1, <2>2
<1> QED BY <1>1, <1>2, <1>4, <1>13, <1>14, <1>15, <1>16, <1>17, <1>18, <1>19 DEF Shape

LeafPut(T, n, k, p, T2) == T2 = [T EXCEPT ![n][k] = Leaf(p)]

\* What writing a leaf into a frame below a frame of pointers changes.
LEMMA LeafWritten ==
  ASSUME NEW T, NEW u, Shape(T, u), NEW n \in Pool, NEW k \in Index, NEW p \in Paddr,
         NEW m \in Pool, NEW h \in Index, Link(T, m, h, n), NEW T2, LeafPut(T, n, k, p, T2)
  PROVE  /\ Shape(T2, u)
         /\ \A g \in Frame, j \in Index : <<g, j>> # <<n, k>> => T2[g][j] = T[g][j]
         /\ T2[n][k] = Leaf(p)
         /\ \A g \in Frame, j \in Index, q \in Pool : Link(T2, g, j, q) <=> Link(T, g, j, q)
<1>1. T2 = [T EXCEPT ![n][k] = Leaf(p)]
  BY DEF LeafPut
<1>2. /\ T \in [Frame -> [Index -> Entry \cup {None}]] /\ Leaf(p) \in Entry
      /\ Pool \subseteq Frame /\ Space \subseteq Frame /\ n \in Frame /\ n \notin Space
  BY FrameAssumption DEF Shape, TablesTyped, Entry, Leaf, Pool, Frame
<1>3. PICK e : e = Leaf(p)
  OBVIOUS
<1>4. e \in Entry /\ e # None /\ e.leaf = TRUE
  BY <1>2, <1>3, NoneAssumption DEF Leaf
<1>5. PICK R : R = [T[n] EXCEPT ![k] = e]
  OBVIOUS
<1>6. R \in [Index -> Entry \cup {None}] /\ R[k] = e /\ \A j \in Index \ {k} : R[j] = T[n][j]
  BY <1>2, <1>4, <1>5
<1>7. T2 = [T EXCEPT ![n] = R]
  BY <1>1, <1>3, <1>5
<1>8. T2 \in [Frame -> [Index -> Entry \cup {None}]] /\ T2[n] = R /\ \A g \in Frame \ {n} : T2[g] = T[g]
  BY <1>2, <1>6, <1>7
<1>9. \A g \in Frame, j \in Index : <<g, j>> # <<n, k>> => T2[g][j] = T[g][j]
  BY <1>6, <1>8
<1>10. T2[n][k] = e
  BY <1>6, <1>8
<1>11. ~ (T[n][k] # None /\ ~T[n][k].leaf)
  <2>1. T[n][k] # None => \E x \in Paddr : T[n][k] = Leaf(x)
    BY DEF Shape, Levels
  <2>2. \A x : Leaf(x).leaf
    BY DEF Leaf
  <2> QED BY <2>1, <2>2
<1>12. \A g \in Frame, j \in Index, q \in Pool : Link(T2, g, j, q) <=> Link(T, g, j, q)
  BY <1>4, <1>9, <1>10, <1>11 DEF Link
<1>13. TablesTyped(T2, u)
  BY <1>8 DEF Shape, TablesTyped
<1>14. Below(T2, u) /\ Once(T2)
  BY <1>12 DEF Shape, Below, Once
<1>15. Linked(T2, u)
  <2>1. \A q \in 1 .. u : q \in Pool
    <3>1. u \in 0 .. PoolLen
      BY DEF Shape, TablesTyped
    <3> QED BY <3>1, SizeAssumption DEF Pool
  <2>2. \A q \in 1 .. u : \E g \in Frame, j \in Index : Link(T, g, j, q)
    BY DEF Shape, Linked
  <2> QED BY <1>12, <2>1, <2>2 DEF Linked
<1>16. Zeroed(T2, u)
  <2>1. n <= u
    BY <1>2 DEF Shape, Below
  <2>2. u \in Int /\ Pool \subseteq Int
    BY DEF Shape, TablesTyped, Pool
  <2> QED BY <1>2, <1>9, <2>1, <2>2 DEF Shape, Zeroed
<1>17. Superpages(T2)
  BY <1>2, <1>9 DEF Shape, Superpages
<1>18. Levels(T2)
  <2> SUFFICES ASSUME NEW a \in Pool, NEW b \in Index, NEW j \in Index, T2[a][j] # None
               PROVE  /\ \A s \in Space : Link(T2, s, b, a) => ~T2[a][j].leaf
                      /\ \A q \in Pool : Link(T2, q, b, a) => \E x \in Paddr : T2[a][j] = Leaf(x)
    BY DEF Levels
  <2>1. CASE <<a, j>> = <<n, k>>
    <3>1. \A s \in Space : ~ Link(T, s, b, n)
      <4>1. m \notin Space /\ m \in Frame
        BY <1>2, FrameAssumption DEF Pool
      <4> QED BY <1>2, <4>1 DEF Shape, Once
    <3> QED BY <1>2, <1>3, <1>10, <1>12, <2>1, <3>1
  <2>2. CASE <<a, j>> # <<n, k>>
    BY <1>2, <1>9, <1>12, <2>2 DEF Shape, Levels
  <2> QED BY <2>1, <2>2
<1>19. Named(T2)
  BY <1>2, <1>12 DEF Shape, Named
<1>20. Shape(T2, u)
  BY <1>13, <1>14, <1>15, <1>16, <1>17, <1>18, <1>19 DEF Shape
<1> QED BY <1>1, <1>3, <1>9, <1>10, <1>12, <1>20
-----------------------------------------------------------------------------
(* The tables that the pages asked for can need: one below each root entry  *)
(* that is not a superpage, and one below each entry of those.              *)

Needed ==
  {k \in Space \X Index \X (Index \cup {None}) :
     /\ <<k[1], k[2]>> \notin BootLeaf
     /\ \E v \in Vaddr : k[2] = Vpn(v)[1] /\ (k[3] = None \/ k[3] = Vpn(v)[2])}

PoolSuffices == IsFiniteSet(Needed) /\ Cardinality(Needed) <= PoolLen

HasKey(T, k, n) ==
  IF k[3] = None THEN Link(T, k[1], k[2], n)
  ELSE \E m \in Pool : Link(T, k[1], k[2], m) /\ Link(T, m, k[3], n)

LEMMA KeyIsUnique ==
  ASSUME NEW T, NEW k, NEW a, NEW b, HasKey(T, k, a), HasKey(T, k, b)
  PROVE  a = b
  BY DEF HasKey, Link

LEMMA FramesHaveKeys ==
  ASSUME NEW T, NEW u, Shape(T, u), NEW n \in 1 .. u
  PROVE  \E k \in Needed : HasKey(T, k, n)
<1>1. n \in Pool /\ Pool \subseteq Int /\ u \in Int /\ Pool \subseteq Frame /\ Space \subseteq Frame /\ Frame = Space \cup Pool
  <2>1. u \in 0 .. PoolLen
    BY DEF Shape, TablesTyped
  <2> QED BY <2>1, SizeAssumption DEF Pool, Frame
<1>2. PICK f \in Frame, i \in Index : Link(T, f, i, n)
  BY DEF Shape, Linked
<1>3. ASSUME NEW s \in Space, NEW j \in Index, NEW m \in Pool, Link(T, s, j, m)
      PROVE  <<s, j>> \notin BootLeaf /\ \E v \in Vaddr : j = Vpn(v)[1]
  BY <1>3 DEF Shape, Superpages, Named, Link
<1>4. None \notin Index
  BY NoneAssumption
<1>5. CASE f \in Space
  <2>1. PICK k : k = <<f, i, None>>
    OBVIOUS
  <2>2. k \in Needed
    BY <1>1, <1>2, <1>3, <1>5, <2>1 DEF Needed
  <2>3. HasKey(T, k, n)
    BY <1>2, <2>1 DEF HasKey
  <2> QED BY <2>2, <2>3
<1>6. CASE f \in Pool
  <2>1. f \in 1 .. u
    BY <1>1, <1>2, <1>6, SizeAssumption DEF Shape, Zeroed, Link, Pool
  <2>2. PICK g \in Frame, j \in Index : Link(T, g, j, f)
    BY <2>1 DEF Shape, Linked
  <2>3. g \in Space
    <3>1. CASE g \in Pool
      <4>1. \E p \in Paddr : T[f][i] = Leaf(p)
        BY <1>2, <1>6, <2>2, <3>1 DEF Shape, Levels, Link
      <4> QED BY <1>2, <4>1 DEF Link, Leaf
    <3> QED BY <1>1, <3>1
  <2>4. PICK k : k = <<g, j, i>>
    OBVIOUS
  <2>5. \E v \in Vaddr : Vpn(v)[1] = j /\ Vpn(v)[2] = i
    BY <1>1, <1>2, <1>6, <2>2, <2>3 DEF Shape, Named
  <2>6. k \in Needed
    BY <1>3, <1>6, <2>2, <2>3, <2>4, <2>5 DEF Needed
  <2>7. HasKey(T, k, n)
    BY <1>2, <1>4, <1>6, <2>2, <2>4 DEF HasKey
  <2> QED BY <2>6, <2>7
<1> QED BY <1>1, <1>5, <1>6

\* Every frame in use is one of the tables needed, so those still missing fit.
LEMMA RoomLeft ==
  ASSUME PoolSuffices, NEW T, NEW u, Shape(T, u), NEW M, IsFiniteSet(M),
         \A k \in M : k \in Needed /\ \A n \in 1 .. u : ~ HasKey(T, k, n)
  PROVE  u + Cardinality(M) <= PoolLen
<1>1. u \in Nat
  BY SizeAssumption DEF Shape, TablesTyped
<1>2. PICK key : key = [n \in 1 .. u |-> CHOOSE k \in Needed : HasKey(T, k, n)]
  OBVIOUS
<1>3. \A n \in 1 .. u : key[n] \in Needed /\ HasKey(T, key[n], n)
  BY <1>2, FramesHaveKeys
<1>4. \A n \in 1 .. u : key[n] \in Needed \ M
  BY <1>3
<1>5. key \in [1 .. u -> Needed \ M]
  BY <1>2, <1>4
<1>6. \A a, b \in 1 .. u : key[a] = key[b] => a = b
  BY <1>3, KeyIsUnique
<1>7. key \in Injection(1 .. u, Needed \ M)
  BY <1>5, <1>6 DEF Injection, IsInjective
<1>8. IsFiniteSet(Needed \ M) /\ Cardinality(Needed \ M) = Cardinality(Needed) - Cardinality(Needed \cap M)
  BY FS_Difference DEF PoolSuffices
<1>9. Cardinality(1 .. u) <= Cardinality(Needed \ M)
  BY <1>7, <1>8, FS_Injection
<1>10. Cardinality(1 .. u) = u
  BY <1>1, FS_Interval
<1>11. Needed \cap M = M
  OBVIOUS
<1>12. Cardinality(M) \in Nat /\ Cardinality(Needed) \in Nat
  BY FS_CardinalityType DEF PoolSuffices
<1>13. PICK c \in Nat, d \in Nat : c = Cardinality(M) /\ d = Cardinality(Needed)
  BY <1>12
<1>14. u <= d - c
  BY <1>8, <1>9, <1>10, <1>11, <1>13
<1>15. d <= PoolLen
  BY <1>13 DEF PoolSuffices
<1>16. u + c <= PoolLen
  BY <1>1, <1>14, <1>15, SizeAssumption
<1> QED BY <1>13, <1>16
-----------------------------------------------------------------------------
(* map_range *)

Going(T, f, x)  == [tab |-> T, at |-> f, used |-> x, ok |-> TRUE]

LEMMA DescendStopped ==
  ASSUME NEW T, NEW f, NEW x, NEW i, T[f][i] # None, T[f][i].leaf
  PROVE  Descend(Going(T, f, x), i) = [tab |-> T, at |-> f, used |-> x, ok |-> FALSE]
<1>0. PICK w : w = [tab |-> T, at |-> f, used |-> x, ok |-> TRUE]
  OBVIOUS
<1>1. w = Going(T, f, x) /\ w.tab = T /\ w.at = f /\ w.used = x /\ w.ok = TRUE
  BY <1>0 DEF Going
<1>2. PICK c : c = [w EXCEPT !.ok = FALSE]
  OBVIOUS
<1>3. Descend(w, i) = c
  BY <1>1, <1>2 DEF Descend
<1>4. c = [tab |-> T, at |-> f, used |-> x, ok |-> FALSE]
  BY <1>0, <1>2
<1> QED BY <1>1, <1>3, <1>4

LEMMA DescendFollows ==
  ASSUME NEW T, NEW f, NEW x, NEW i, NEW g, T[f][i] # None, ~T[f][i].leaf, g = T[f][i].to
  PROVE  Descend(Going(T, f, x), i) = Going(T, g, x)
<1>0. PICK w : w = [tab |-> T, at |-> f, used |-> x, ok |-> TRUE]
  OBVIOUS
<1>1. w = Going(T, f, x) /\ w.tab = T /\ w.at = f /\ w.used = x /\ w.ok = TRUE
  BY <1>0 DEF Going
<1>2. PICK c : c = [w EXCEPT !.at = g]
  OBVIOUS
<1>3. Descend(w, i) = c
  BY <1>1, <1>2 DEF Descend
<1>4. c = [tab |-> T, at |-> g, used |-> x, ok |-> TRUE]
  BY <1>0, <1>2
<1> QED BY <1>1, <1>3, <1>4 DEF Going

\* A walk that has used x frames finds entry i of f empty, and one more free.
Extended(T, f, i, x, T2, k, y) ==
  /\ T[f][i] = None /\ k = poolUsed + x + 1 /\ ~ (k > PoolLen) /\ y = x + 1
  /\ T2 = [T EXCEPT ![f][i] = Pointer(k)]

LEMMA DescendLinks ==
  ASSUME NEW T, NEW f, NEW x, NEW i, NEW k, NEW y, NEW T2, Extended(T, f, i, x, T2, k, y)
  PROVE  Descend(Going(T, f, x), i) = Going(T2, k, y)
<1> USE DEF Extended
<1>1. PICK w : w = [tab |-> T, at |-> f, used |-> x, ok |-> TRUE]
  OBVIOUS
<1>2. w.tab = T /\ w.at = f /\ w.used = x /\ w.ok = TRUE
  BY <1>1
<1>3. PICK e : e = Pointer(k)
  OBVIOUS
<1>4. PICK d : d = [w EXCEPT !.tab[f][i] = e, !.at = k, !.used = y]
  OBVIOUS
<1>5. Descend(w, i) = d
  <2>1. Descend(w, i) = [w EXCEPT !.tab[f][i] = [leaf |-> FALSE, to |-> k], !.at = k, !.used = y]
    BY <1>2 DEF Descend
  <2> QED BY <1>3, <1>4, <2>1 DEF Pointer
<1>6. T2 = [T EXCEPT ![f][i] = e]
  BY <1>3
<1>7. PICK a : a = [w EXCEPT !.tab = T2]
  OBVIOUS
<1>8. a = [tab |-> T2, at |-> f, used |-> x, ok |-> TRUE]
  BY <1>1, <1>7
<1>9. PICK b : b = [a EXCEPT !.at = k]
  OBVIOUS
<1>10. b = [tab |-> T2, at |-> k, used |-> x, ok |-> TRUE]
  BY <1>8, <1>9
<1>11. PICK c : c = [b EXCEPT !.used = y]
  OBVIOUS
<1>12. c = [tab |-> T2, at |-> k, used |-> y, ok |-> TRUE]
  BY <1>10, <1>11
<1>13. d = c
  <2>1. d = [w EXCEPT !.tab = T2, !.at = k, !.used = y]
    BY <1>2, <1>4, <1>6
  <2> QED BY <1>7, <1>9, <1>11, <2>1
<1> QED BY <1>1, <1>5, <1>12, <1>13 DEF Going

\* Nothing that was written is overwritten, and no leaf is added.
Kept(T, T2) ==
  \A f \in Frame, i \in Index :
    /\ T[f][i] # None => T2[f][i] = T[f][i]
    /\ T2[f][i] # None /\ T2[f][i].leaf => T2[f][i] = T[f][i]

LEMMA LinkingKeeps ==
  ASSUME NEW T, NEW u, TablesTyped(T, u), NEW f \in Frame, NEW i \in Index, T[f][i] = None, u + 1 \in Pool
  PROVE  Kept(T, [T EXCEPT ![f][i] = Pointer(u + 1)])
<1>1. PICK T2 : T2 = [T EXCEPT ![f][i] = Pointer(u + 1)]
  OBVIOUS
<1>2. /\ \A g \in Frame, j \in Index : <<g, j>> # <<f, i>> => T2[g][j] = T[g][j]
      /\ T2[f][i] = Pointer(u + 1)
  BY <1>1, Linking
<1>3. ~ Pointer(u + 1).leaf
  BY DEF Pointer
<1>4. \A g \in Frame, j \in Index : <<g, j>> = <<f, i>> \/ T2[g][j] = T[g][j]
  BY <1>2
<1> QED BY <1>1, <1>2, <1>3, <1>4 DEF Kept

LEMMA KeptAgain ==
  ASSUME NEW T, NEW T2, NEW T3, Kept(T, T2), Kept(T2, T3)
  PROVE  Kept(T, T3)
  BY DEF Kept

Superpage(s, v) == <<s, Vpn(v)[1]>> \in BootLeaf

\* Where the two descents of a walk end: in a frame of leaves, the tables sound.
Descended(s, v, T, n, x) ==
  /\ Shape(T, poolUsed + x) /\ Kept(table, T)
  /\ \E m \in Pool : Link(T, s, Vpn(v)[1], m) /\ Link(T, m, Vpn(v)[2], n)

LEMMA TwoDescents ==
  ASSUME PoolSuffices, Shape(table, poolUsed), NEW s \in Space, NEW v \in Vaddr, ~Superpage(s, v)
  PROVE  \E T, n, x : /\ n \in Pool /\ x \in Nat /\ Descended(s, v, T, n, x)
                      /\ Descend(Descend(Going(table, s, 0), Vpn(v)[1]), Vpn(v)[2]) = Going(T, n, x)
<1>1. PICK a \in Index, b \in Index : a = Vpn(v)[1] /\ b = Vpn(v)[2]
  BY VpnTypes
<1>2. PICK T, u : T = table /\ u = poolUsed
  OBVIOUS
<1>3. u \in Nat /\ u <= PoolLen /\ Shape(T, u) /\ TablesTyped(T, u) /\ PoolLen \in Nat
  BY <1>2, SizeAssumption DEF Shape, TablesTyped
<1>4. Space \subseteq Frame /\ Pool \subseteq Frame /\ s \in Frame /\ (\A n \in Pool : n \notin Space)
      /\ None \notin Index /\ \A n \in Int : n >= 1 /\ n <= PoolLen => n \in Pool
  BY FrameAssumption, NoneAssumption, SizeAssumption DEF Frame, Pool
<1>5. ~ (T[s][a] # None /\ T[s][a].leaf)
  BY <1>1, <1>3 DEF Shape, Superpages, Superpage
<1>6. /\ <<s, a, None>> \in Needed /\ <<s, a, b>> \in Needed /\ <<s, a, None>> # <<s, a, b>>
  BY <1>1, <1>4 DEF Needed, Superpage
<1>7. CASE T[s][a] = None
  <2>1. \A n, m : ~ Link(T, s, a, n) /\ ~ HasKey(T, <<s, a, None>>, n) /\ ~ HasKey(T, <<s, a, b>>, n)
    BY <1>4, <1>7 DEF Link, HasKey
  <2>2. u + 2 <= PoolLen
    <3>1. PICK M : M = {<<s, a, None>>} \cup {<<s, a, b>>}
      OBVIOUS
    <3>2. IsFiniteSet(M) /\ Cardinality(M) = 2
      <4>1. PICK k, l : k = <<s, a, None>> /\ l = <<s, a, b>>
        OBVIOUS
      <4>2. IsFiniteSet({k}) /\ Cardinality({k}) = 1 /\ l \notin {k}
        BY <1>6, <4>1, FS_Singleton
      <4>3. IsFiniteSet({k} \cup {l}) /\ Cardinality({k} \cup {l}) = 2
        <5>1. PICK A : A = {k}
          OBVIOUS
        <5>2. IsFiniteSet(A) /\ Cardinality(A) = 1 /\ l \notin A
          BY <4>2, <5>1
        <5>3. IsFiniteSet(A \cup {l}) /\ Cardinality(A \cup {l}) = Cardinality(A) + 1
          BY <5>2, FS_AddElement
        <5> QED BY <5>1, <5>2, <5>3
      <4> QED BY <3>1, <4>1, <4>3
    <3>3. \A k \in M : k \in Needed /\ \A n \in 1 .. u : ~ HasKey(T, k, n)
      BY <1>6, <2>1, <3>1
    <3> QED BY <1>3, <3>2, <3>3, RoomLeft
  <2>3. PICK m \in Pool : m = u + 1
    BY <1>3, <1>4, <2>2
  <2>4. PICK n \in Pool : n = u + 2
    BY <1>3, <1>4, <2>2
  <2>5. PICK T1 : T1 = [T EXCEPT ![s][a] = Pointer(m)]
    OBVIOUS
  <2>6. Shape(T1, m) /\ Kept(T, T1)
    <3>1. \E x \in Vaddr : Vpn(x)[1] = a
      BY <1>1
    <3> QED BY <1>3, <1>4, <1>7, <2>3, <2>5, <3>1, LinkingShape, LinkingKeeps
  <2>7. Link(T1, s, a, m) /\ T1[m][b] = None
    <3>1. Link(T1, s, a, m)
      BY <1>3, <1>4, <1>7, <2>3, <2>5, Linking
    <3>2. T[m][b] = None
      BY <1>3, <2>3 DEF Shape, Zeroed
    <3>3. T1[m][b] = T[m][b]
      BY <1>3, <1>4, <1>7, <2>3, <2>5, Linking
    <3> QED BY <3>1, <3>2, <3>3
  <2>8. PICK T2 : T2 = [T1 EXCEPT ![m][b] = Pointer(n)]
    OBVIOUS
  <2>9. n = m + 1 /\ m \in Frame /\ TablesTyped(T1, m)
    BY <1>3, <1>4, <2>3, <2>4, <2>6 DEF Shape
  <2>10. Shape(T2, n) /\ Kept(T1, T2)
    <3>1. \E x \in Vaddr : Vpn(x)[1] = a /\ Vpn(x)[2] = b
      BY <1>1
    <3> QED BY <2>6, <2>7, <2>8, <2>9, <3>1, LinkingShape, LinkingKeeps
  <2>11. Link(T2, m, b, n) /\ Link(T2, s, a, m)
    BY <1>4, <2>7, <2>8, <2>9, Linking
  <2>12. Descend(Going(T, s, 0), a) = Going(T1, m, 1)
    <3>1. ~ (m > PoolLen) /\ m = poolUsed + 0 + 1 /\ 1 = 0 + 1
      BY <1>2, <1>3, <2>2, <2>3
    <3>2. QED
      <4>1. Extended(T, s, a, 0, T1, m, 1)
        BY <1>7, <2>5, <3>1 DEF Extended
      <4> QED BY <4>1, DescendLinks
  <2>13. Descend(Going(T1, m, 1), b) = Going(T2, n, 2)
    <3>1. ~ (n > PoolLen) /\ n = poolUsed + 1 + 1 /\ 2 = 1 + 1
      BY <1>2, <1>3, <2>2, <2>4
    <3>2. QED
      <4>1. Extended(T1, m, b, 1, T2, n, 2)
        BY <2>7, <2>8, <3>1 DEF Extended
      <4> QED BY <4>1, DescendLinks
  <2>14. poolUsed + 2 = n /\ Kept(T, T2)
    BY <1>2, <1>3, <2>4, <2>6, <2>10, KeptAgain
  <2>15. Descended(s, v, T2, n, 2)
    BY <1>1, <1>2, <2>10, <2>11, <2>14 DEF Descended
  <2> QED BY <1>1, <1>2, <2>12, <2>13, <2>15
<1>8. CASE T[s][a] # None /\ ~T[s][a].leaf
  <2>1. PICK m \in Pool : m = T[s][a].to /\ Link(T, s, a, m)
    BY <1>3, <1>4, <1>8, LinkTyped
  <2>2. m \in Frame
    BY <1>4
  <2>3. Descend(Going(T, s, 0), a) = Going(T, m, 0)
    BY <1>8, <2>1, DescendFollows
  <2>4. ~ (T[m][b] # None /\ T[m][b].leaf)
    BY <1>3, <2>1 DEF Shape, Levels
  <2>5. CASE T[m][b] = None
    <3>1. \A n : ~ HasKey(T, <<s, a, b>>, n)
      BY <1>4, <2>1, <2>5 DEF Link, HasKey
    <3>2. u + 1 <= PoolLen
      <4>1. PICK M : M = {<<s, a, b>>}
        OBVIOUS
      <4>2. IsFiniteSet(M) /\ Cardinality(M) = 1
        BY <4>1, FS_Singleton
      <4>3. \A k \in M : k \in Needed /\ \A n \in 1 .. u : ~ HasKey(T, k, n)
        BY <1>6, <3>1, <4>1
      <4> QED BY <1>3, <4>2, <4>3, RoomLeft
    <3>3. PICK n \in Pool : n = u + 1
      BY <1>3, <1>4, <3>2
    <3>4. PICK T2 : T2 = [T EXCEPT ![m][b] = Pointer(n)]
      OBVIOUS
    <3>5. Shape(T2, n) /\ Kept(T, T2)
      <4>1. \E x \in Vaddr : Vpn(x)[1] = a /\ Vpn(x)[2] = b
        BY <1>1
      <4> QED BY <1>3, <2>1, <2>2, <2>5, <3>3, <3>4, <4>1, LinkingShape, LinkingKeeps
    <3>6. Link(T2, m, b, n) /\ Link(T2, s, a, m)
      <4>1. n = u + 1 /\ TablesTyped(T, u) /\ s \in Frame
        BY <1>3, <1>4, <3>3
      <4> QED BY <2>1, <2>2, <2>5, <3>4, <4>1, Linking
    <3>7. Descend(Going(T, m, 0), b) = Going(T2, n, 1)
      <4>1. ~ (n > PoolLen) /\ n = poolUsed + 0 + 1 /\ 1 = 0 + 1
        BY <1>2, <1>3, <3>2, <3>3
      <4>2. QED
        <5>1. Extended(T, m, b, 0, T2, n, 1)
          BY <2>5, <3>4, <4>1 DEF Extended
        <5> QED BY <5>1, DescendLinks
    <3>8. poolUsed + 1 = n
      BY <1>2, <3>3
    <3>9. Descended(s, v, T2, n, 1)
      BY <1>1, <1>2, <2>1, <3>5, <3>6, <3>8 DEF Descended
    <3> QED BY <1>1, <1>2, <2>3, <3>7, <3>9
  <2>6. CASE T[m][b] # None /\ ~T[m][b].leaf
    <3>1. PICK n \in Pool : n = T[m][b].to /\ Link(T, m, b, n)
      BY <1>3, <2>2, <2>6, LinkTyped
    <3>2. Descend(Going(T, m, 0), b) = Going(T, n, 0)
      BY <2>6, <3>1, DescendFollows
    <3>3. poolUsed + 0 = u /\ Kept(T, T)
      BY <1>2, <1>3 DEF Kept
    <3>4. Descended(s, v, T, n, 0)
      BY <1>1, <1>2, <1>3, <2>1, <3>1, <3>3 DEF Descended
    <3> QED BY <1>1, <1>2, <2>3, <3>2, <3>4
  <2> QED BY <2>4, <2>5, <2>6
<1> QED BY <1>5, <1>7, <1>8

LEMMA LeafIsEntry ==
  ASSUME NEW q \in Paddr
  PROVE  Leaf(q) # None /\ Leaf(q).leaf /\ Leaf(q).to = q
<1>1. Leaf(q) \in Entry
  BY DEF Leaf, Entry
<1>2. Leaf(q).leaf /\ Leaf(q).to = q
  BY DEF Leaf
<1> QED BY <1>1, <1>2, NoneAssumption

\* What a walk for page v that ended in p leaves: the path to the leaf, every
\* pointer there was, and no other leaf.
Written(s, v, p, T) ==
  \E m, n \in Pool :
    /\ Link(T, s, Vpn(v)[1], m) /\ Link(T, m, Vpn(v)[2], n) /\ T[n][Vpn(v)[3]] = Leaf(p)
    /\ \A f \in Frame, i \in Index, k \in Pool : Link(table, f, i, k) => Link(T, f, i, k)
    /\ \A f \in Frame, i \in Index, q \in Paddr :
         <<f, i>> # <<n, Vpn(v)[3]>> => (T[f][i] = Leaf(q) <=> table[f][i] = Leaf(q))

LEMMA WalkSucceeds ==
  ASSUME PoolSuffices, Shape(table, poolUsed), NEW s \in Space, NEW v \in Vaddr, NEW p \in Paddr, ~Superpage(s, v)
  PROVE  /\ MapRange(s, v, p).ok /\ MapRange(s, v, p).used \in Nat
         /\ Shape(MapRange(s, v, p).tab, poolUsed + MapRange(s, v, p).used)
         /\ Written(s, v, p, MapRange(s, v, p).tab)
<1>1. PICK a \in Index, b \in Index, c \in Index : a = Vpn(v)[1] /\ b = Vpn(v)[2] /\ c = Vpn(v)[3]
  BY VpnTypes
<1>2. PICK w : w = Descend(Descend(Going(table, s, 0), Vpn(v)[1]), Vpn(v)[2])
  OBVIOUS
<1>3. PICK T, n, x : n \in Pool /\ x \in Nat /\ Descended(s, v, T, n, x) /\ w = Going(T, n, x)
  BY <1>2, TwoDescents
<1>4. PICK m \in Pool : Link(T, s, a, m) /\ Link(T, m, b, n)
  BY <1>1, <1>3 DEF Descended
<1>5. Shape(T, poolUsed + x) /\ Kept(table, T)
  BY <1>3 DEF Descended
<1>6. PICK T3 : T3 = [T EXCEPT ![n][c] = Leaf(p)]
  OBVIOUS
<1>7. w = [tab |-> T, at |-> n, used |-> x, ok |-> TRUE]
  BY <1>3 DEF Going
<1>8. MapRange(s, v, p).ok /\ MapRange(s, v, p).used = x /\ MapRange(s, v, p).tab = T3
  <2>1. MapRange(s, v, p) = IF w.ok THEN [w EXCEPT !.tab[w.at][c] = [leaf |-> TRUE, to |-> p]] ELSE w
    BY <1>1, <1>2 DEF MapRange, Going
  <2>2. w.ok = TRUE /\ w.at = n /\ w.tab = T /\ w.used = x
    BY <1>7
  <2>3. PICK e : e = Leaf(p)
    OBVIOUS
  <2>4. MapRange(s, v, p) = [w EXCEPT !.tab[n][c] = e]
    BY <2>1, <2>2, <2>3 DEF Leaf
  <2>5. PICK d : d = [w EXCEPT !.tab[n][c] = e]
    OBVIOUS
  <2>6. d.ok = TRUE /\ d.used = x /\ d.tab = [T EXCEPT ![n][c] = e]
    BY <1>7, <2>5
  <2> QED BY <1>6, <2>3, <2>4, <2>5, <2>6
<1>9. /\ Shape(T3, poolUsed + x)
      /\ \A g \in Frame, j \in Index : <<g, j>> # <<n, c>> => T3[g][j] = T[g][j]
      /\ T3[n][c] = Leaf(p)
      /\ \A g \in Frame, j \in Index, q \in Pool : Link(T3, g, j, q) <=> Link(T, g, j, q)
  <2>1. PICK u : u = poolUsed + x
    OBVIOUS
  <2>2. n \in Pool /\ Shape(T, u) /\ LeafPut(T, n, c, p, T3)
    BY <1>3, <1>5, <1>6, <2>1 DEF LeafPut
  <2>3. /\ Shape(T3, u)
        /\ \A g \in Frame, j \in Index : <<g, j>> # <<n, c>> => T3[g][j] = T[g][j]
        /\ T3[n][c] = Leaf(p)
        /\ \A g \in Frame, j \in Index, q \in Pool : Link(T3, g, j, q) <=> Link(T, g, j, q)
    BY <1>4, <2>2, LeafWritten
  <2> QED BY <2>1, <2>3
<1>10. \A f \in Frame, i \in Index, k \in Pool : Link(table, f, i, k) => Link(T3, f, i, k)
  BY <1>5, <1>9 DEF Kept, Link
<1>11. ASSUME NEW f \in Frame, NEW i \in Index, NEW q \in Paddr, <<f, i>> # <<n, c>>
       PROVE  T3[f][i] = Leaf(q) <=> table[f][i] = Leaf(q)
  <2>1. Leaf(q) # None /\ Leaf(q).leaf
    BY LeafIsEntry
  <2> QED BY <1>5, <1>9, <1>11, <2>1 DEF Kept
<1>12. Link(T3, s, a, m) /\ Link(T3, m, b, n)
  BY <1>3, <1>4, <1>9 DEF Frame, Pool
<1>13. Written(s, v, p, T3)
  BY <1>1, <1>3, <1>9, <1>10, <1>11, <1>12 DEF Written
<1> QED BY <1>3, <1>8, <1>9, <1>13

LEMMA WalkStopped ==
  ASSUME Shape(table, poolUsed), NEW s \in Space, NEW v \in Vaddr, NEW p \in Paddr, Superpage(s, v)
  PROVE  ~ MapRange(s, v, p).ok /\ MapRange(s, v, p).tab = table
<1>1. PICK a \in Index, b \in Index : a = Vpn(v)[1] /\ b = Vpn(v)[2]
  BY VpnTypes
<1>2. table[s][a] # None /\ table[s][a].leaf
  BY <1>1 DEF Shape, Superpages, Superpage
<1>3. PICK w : w = [tab |-> table, at |-> s, used |-> 0, ok |-> FALSE]
  OBVIOUS
<1>4. Descend(Going(table, s, 0), a) = w
  BY <1>2, <1>3, DescendStopped
<1>5. w.ok = FALSE /\ w.tab = table
  BY <1>3
<1>6. Descend(w, b) = w
  BY <1>5 DEF Descend
<1>7. MapRange(s, v, p) = w
  BY <1>1, <1>4, <1>5, <1>6 DEF MapRange, Going
<1> QED BY <1>5, <1>7
-----------------------------------------------------------------------------
(* Translations *)

\* What the hardware walk finds for page v.
Translates(T, s, v, q) ==
  \E m, n \in Pool : Link(T, s, Vpn(v)[1], m) /\ Link(T, m, Vpn(v)[2], n) /\ T[n][Vpn(v)[3]] = Leaf(q)

\* A walk changes the translation of its own page and of no other.
LEMMA TranslatesAfter ==
  ASSUME PagesWellFormed, Shape(table, poolUsed), NEW T, NEW u, Shape(T, u),
         NEW s \in Space, NEW v \in Vaddr, NEW p \in Paddr, Written(s, v, p, T),
         NEW r \in Space, NEW w \in Vaddr, NEW q \in Paddr
  PROVE  Translates(T, r, w, q) <=> IF r = s /\ w = v THEN q = p ELSE Translates(table, r, w, q)
<1>1. /\ Pool \subseteq Frame /\ Space \subseteq Frame /\ \A f \in Pool : f \notin Space
      /\ Pool \subseteq Int /\ poolUsed \in Int
  BY FrameAssumption DEF Frame, Pool, Shape, TablesTyped
<1>2. PICK a \in Index, b \in Index, c \in Index : a = Vpn(v)[1] /\ b = Vpn(v)[2] /\ c = Vpn(v)[3]
  BY VpnTypes
<1>3. PICK d \in Index, e \in Index, g \in Index : d = Vpn(w)[1] /\ e = Vpn(w)[2] /\ g = Vpn(w)[3]
  BY VpnTypes
<1>4. d = a /\ e = b /\ g = c => w = v
  <2>1. d = a /\ e = b /\ g = c => Vpn(w) = Vpn(v)
    BY <1>2, <1>3 DEF Vpn
  <2> QED BY <2>1, PagesApart
<1>5. PICK m \in Pool, n \in Pool :
        /\ Link(T, s, a, m) /\ Link(T, m, b, n) /\ T[n][c] = Leaf(p)
        /\ \A f \in Frame, i \in Index, k \in Pool : Link(table, f, i, k) => Link(T, f, i, k)
        /\ \A f \in Frame, i \in Index, x \in Paddr :
             <<f, i>> # <<n, c>> => (T[f][i] = Leaf(x) <=> table[f][i] = Leaf(x))
  BY <1>2 DEF Written
<1>6. ASSUME NEW k \in Pool, NEW l \in Pool, Link(T, r, d, k), Link(T, k, e, l), <<l, g>> = <<n, c>>
      PROVE  r = s /\ w = v
  <2>1. k = m /\ e = b
    BY <1>1, <1>5, <1>6 DEF Shape, Once
  <2>2. r = s /\ d = a
    BY <1>1, <1>5, <1>6, <2>1 DEF Shape, Once
  <2> QED BY <1>4, <1>6, <2>1, <2>2
<1>7. CASE r = s /\ w = v
  <2>1. d = a /\ e = b /\ g = c
    BY <1>2, <1>3, <1>7
  <2>2. Leaf(p) = Leaf(q) => p = q
    BY DEF Leaf
  <2>3. Translates(T, r, w, q) => q = p
    <3> SUFFICES ASSUME NEW k \in Pool, NEW l \in Pool, Link(T, s, a, k), Link(T, k, b, l), T[l][c] = Leaf(q)
                 PROVE  q = p
      BY <1>2, <1>7 DEF Translates
    <3>1. k = m /\ l = n
      BY <1>5 DEF Link
    <3> QED BY <1>5, <2>2, <3>1
  <2>4. q = p => Translates(T, r, w, q)
    BY <1>2, <1>5, <1>7 DEF Translates
  <2> QED BY <1>7, <2>3, <2>4
<1>8. CASE ~ (r = s /\ w = v)
  <2>1. ASSUME Translates(table, r, w, q) PROVE Translates(T, r, w, q)
    <3>1. PICK k \in Pool, l \in Pool : Link(table, r, d, k) /\ Link(table, k, e, l) /\ table[l][g] = Leaf(q)
      BY <1>3, <2>1 DEF Translates
    <3>2. Link(T, r, d, k) /\ Link(T, k, e, l)
      BY <1>1, <1>5, <3>1
    <3>3. T[l][g] = Leaf(q)
      BY <1>1, <1>5, <1>6, <1>8, <3>1, <3>2
    <3> QED BY <1>3, <3>2, <3>3 DEF Translates
  <2>2. ASSUME Translates(T, r, w, q) PROVE Translates(table, r, w, q)
    <3>1. PICK k \in Pool, l \in Pool : Link(T, r, d, k) /\ Link(T, k, e, l) /\ T[l][g] = Leaf(q)
      BY <1>3, <2>2 DEF Translates
    <3>2. table[l][g] = Leaf(q)
      BY <1>1, <1>5, <1>6, <1>8, <3>1
    <3>3. ASSUME NEW x \in Pool, NEW i \in Index, table[x][i] # None
          PROVE  \E f \in Frame, j \in Index : Link(table, f, j, x)
      <4>1. x \in 1 .. poolUsed
        BY <1>1, <3>3 DEF Shape, Zeroed, Pool
      <4> QED BY <4>1 DEF Shape, Linked
    <3>4. Leaf(q) # None
      BY LeafIsEntry
    <3>5. Link(table, k, e, l)
      <4>1. PICK f \in Frame, j \in Index : Link(table, f, j, l)
        BY <3>2, <3>3, <3>4
      <4>2. f = k /\ j = e
        BY <1>1, <1>5, <3>1, <4>1 DEF Shape, Once
      <4> QED BY <4>1, <4>2
    <3>6. Link(table, r, d, k)
      <4>1. PICK f \in Frame, j \in Index : Link(table, f, j, k)
        BY <3>3, <3>5 DEF Link
      <4>2. f = r /\ j = d
        BY <1>1, <1>5, <3>1, <4>1 DEF Shape, Once
      <4> QED BY <4>1, <4>2
    <3> QED BY <1>3, <3>2, <3>5, <3>6 DEF Translates
  <2> QED BY <1>8, <2>1, <2>2
<1> QED BY <1>7, <1>8

\* HardwareTranslate finds what Translates says, and nothing else.
LEMMA FollowIsLink ==
  ASSUME Shape(table, poolUsed), NEW f \in Frame, NEW i \in Index
  PROVE  /\ Follow(f, i) \in Pool \cup {None} /\ None \notin Pool
         /\ \A n \in Pool : Follow(f, i) = n <=> Link(table, f, i, n)
<1>1. f # None /\ None \notin Pool
  BY NoneAssumption DEF Frame, Pool
<1>2. TablesTyped(table, poolUsed)
  BY DEF Shape
<1>3. table[f][i] # None /\ ~table[f][i].leaf => table[f][i].to \in Pool
  BY <1>2, LinkTyped
<1> QED BY <1>1, <1>3 DEF Follow, Link

LEMMA HardwareFinds ==
  ASSUME Shape(table, poolUsed), NEW s \in Space, NEW v \in Vaddr, Canonical(v)
  PROVE  /\ HardwareTranslate(s, v) \in Paddr \cup {None}
         /\ \A q \in Paddr : HardwareTranslate(s, v) = q <=> Translates(table, s, v, q)
<1>1. PICK a \in Index, b \in Index, c \in Index : a = Vpn(v)[1] /\ b = Vpn(v)[2] /\ c = Vpn(v)[3]
  BY VpnTypes
<1>2. s \in Frame /\ Pool \subseteq Frame /\ None \notin Paddr
  BY NoneAssumption DEF Frame, Pool
<1>3. PICK m : m = Follow(s, a)
  OBVIOUS
<1>4. PICK n : n = Follow(m, b)
  OBVIOUS
<1>5. HardwareTranslate(s, v) = IF n = None \/ table[n][c] = None THEN None ELSE table[n][c].to
  BY <1>1, <1>3, <1>4 DEF HardwareTranslate
<1>6. \A q \in Paddr : Translates(table, s, v, q) <=>
        \E k, l \in Pool : Link(table, s, a, k) /\ Link(table, k, b, l) /\ table[l][c] = Leaf(q)
  BY <1>1 DEF Translates
<1>7. \A k \in Pool : Link(table, s, a, k) => k = m
  BY <1>2, <1>3, FollowIsLink
<1>8. \A l \in Pool : m \in Pool /\ Link(table, m, b, l) => l = n
  BY <1>2, <1>4, FollowIsLink
<1>9. CASE n \in Pool /\ m \in Pool
  <2>1. Link(table, s, a, m) /\ Link(table, m, b, n) /\ n # None
    BY <1>2, <1>3, <1>4, <1>9, FollowIsLink
  <2>2. CASE table[n][c] = None
    BY <1>5, <1>6, <1>7, <1>8, <1>2, <2>2, LeafIsEntry
  <2>3. CASE table[n][c] # None
    <3>1. PICK p \in Paddr : table[n][c] = Leaf(p)
      BY <1>9, <2>1, <2>3 DEF Shape, Levels
    <3>2. HardwareTranslate(s, v) = p
      BY <1>5, <2>1, <2>3, <3>1, LeafIsEntry
    <3>3. \A q \in Paddr : Leaf(q) = Leaf(p) => q = p
      BY LeafIsEntry
    <3>4. \A q \in Paddr : Translates(table, s, v, q) <=> q = p
      BY <1>6, <1>7, <1>8, <1>9, <2>1, <3>1, <3>3
    <3> QED BY <3>2, <3>4
  <2> QED BY <2>2, <2>3
<1>10. CASE ~ (n \in Pool /\ m \in Pool)
  <2>1. m \in Pool \cup {None}
    BY <1>2, <1>3, FollowIsLink
  <2>2. n = None
    <3>1. CASE m \in Pool
      BY <1>2, <1>4, <1>10, <3>1, FollowIsLink
    <3>2. CASE m = None
      BY <1>4, <3>2 DEF Follow
    <3> QED BY <2>1, <3>1, <3>2
  <2>3. n \notin Pool
    BY <1>2, <2>2, FollowIsLink
  <2> QED BY <1>2, <1>5, <1>6, <1>7, <1>8, <2>2, <2>3
<1> QED BY <1>9, <1>10
-----------------------------------------------------------------------------
(* The software model *)

Page(v, q) == [vaddr |-> v, paddr |-> q]

MapsTyped(M) == M \in [Space -> [1 .. Slots -> Mapping \cup {None}]]
Apart(M) ==
  \A s \in Space, i, j \in 1 .. Slots :
    M[s][i] # None /\ M[s][j] # None /\ M[s][i].vaddr = M[s][j].vaddr => i = j
Holds(M, s, v, q) == \E i \in 1 .. Slots : M[s][i] = Page(v, q)

LEMMA PageIsMapping ==
  ASSUME NEW v \in Vaddr, NEW q \in Paddr
  PROVE  Page(v, q) \in Mapping /\ Page(v, q) # None /\ Page(v, q).vaddr = v /\ Page(v, q).paddr = q
<1>1. Page(v, q) \in Mapping /\ Page(v, q).vaddr = v /\ Page(v, q).paddr = q
  BY DEF Page, Mapping
<1> QED BY <1>1, NoneAssumption

LEMMA FirstIsOne ==
  ASSUME NEW S \in SUBSET (1 .. Slots), S # {}
  PROVE  First(S) \in S
<1> DEFINE R == {p \in Nat \X Nat : p[1] < p[2]}
<1>1. IsWellFoundedOn(R, Nat)
  BY NatLessThanWellFounded DEF OpToRel
<1>2. S \in SUBSET Nat
  BY SizeAssumption
<1>3. PICK x \in S : \A y \in S : ~ (<<y, x>> \in R)
  BY <1>1, <1>2, WFMin
<1>4. \A y \in S : x \in Nat /\ y \in Nat /\ ~ (y < x)
  BY <1>2, <1>3
<1>5. \A y \in S : x <= y
  BY <1>4
<1> QED BY <1>5 DEF First

LEMMA ModelFinds ==
  ASSUME MapsTyped(mappings), Apart(mappings), NEW s \in Space, NEW v \in Vaddr
  PROVE  /\ Translate(s, v) \in Paddr \cup {None}
         /\ \A q \in Paddr : Translate(s, v) = q <=> Holds(mappings, s, v, q)
<1>1. PICK here : here = {i \in Live(s) : mappings[s][i].vaddr = v}
  OBVIOUS
<1>2. /\ here \in SUBSET (1 .. Slots)
      /\ \A i \in 1 .. Slots : i \in here <=> mappings[s][i] # None /\ mappings[s][i].vaddr = v
  BY <1>1 DEF Live
<1>3. Translate(s, v) = IF here = {} THEN None ELSE mappings[s][First(here)].paddr
  BY <1>1 DEF Translate
<1>4. \A q \in Paddr, i \in 1 .. Slots : mappings[s][i] = Page(v, q) => i \in here
  BY <1>2, PageIsMapping
<1>5. None \notin Paddr
  BY NoneAssumption
<1>6. CASE here = {}
  BY <1>3, <1>4, <1>5, <1>6 DEF Holds
<1>7. CASE here # {}
  <2>1. PICK i \in here : i = First(here)
    BY <1>2, <1>7, FirstIsOne
  <2>2. mappings[s][i] \in Mapping /\ mappings[s][i].vaddr = v /\ i \in 1 .. Slots
    BY <1>2 DEF MapsTyped
  <2>3. PICK p \in Paddr : mappings[s][i] = Page(v, p)
    BY <2>2 DEF Mapping, Page
  <2>4. Translate(s, v) = p
    BY <1>3, <1>7, <2>1, <2>3, PageIsMapping
  <2>5. \A j \in here : j = i
    BY <1>2 DEF Apart
  <2>6. \A q \in Paddr : Holds(mappings, s, v, q) <=> q = p
    <3>1. \A q \in Paddr : Page(v, q) = Page(v, p) => q = p
      BY PageIsMapping
    <3> QED BY <1>4, <2>2, <2>3, <2>5, <3>1 DEF Holds
  <2> QED BY <2>4, <2>6
<1> QED BY <1>6, <1>7

Put(M, s, k, v, p, M2) ==
  /\ k \in 1 .. Slots /\ M[s][k] = None
  /\ \A i \in 1 .. Slots : M[s][i] # None => M[s][i].vaddr # v
  /\ M2 = [M EXCEPT ![s][k] = Page(v, p)]

LEMMA Putting ==
  ASSUME NEW M, NEW M2, NEW s \in Space, NEW k, NEW v \in Vaddr, NEW p \in Paddr,
         MapsTyped(M), Apart(M), Put(M, s, k, v, p, M2)
  PROVE  /\ MapsTyped(M2) /\ Apart(M2)
         /\ \A r \in Space, w \in Vaddr, q \in Paddr :
              Holds(M2, r, w, q) <=> IF r = s /\ w = v THEN q = p ELSE Holds(M, r, w, q)
         /\ \A q \in Paddr : ~ Holds(M, s, v, q)
<1>1. PICK e : e = Page(v, p)
  OBVIOUS
<1>2. e \in Mapping /\ e # None /\ e.vaddr = v /\ \A w \in Vaddr, q \in Paddr : e = Page(w, q) <=> w = v /\ q = p
  <2>1. \A w \in Vaddr, q \in Paddr : Page(w, q).vaddr = w /\ Page(w, q).paddr = q
    BY PageIsMapping
  <2> QED BY <1>1, <2>1, PageIsMapping
<1>3. /\ k \in 1 .. Slots /\ M[s][k] = None /\ M \in [Space -> [1 .. Slots -> Mapping \cup {None}]]
      /\ \A i \in 1 .. Slots : M[s][i] # None => M[s][i].vaddr # v
  BY DEF Put, MapsTyped
<1>4. PICK R : R = [M[s] EXCEPT ![k] = e]
  OBVIOUS
<1>5. R \in [1 .. Slots -> Mapping \cup {None}] /\ R[k] = e /\ \A j \in (1 .. Slots) \ {k} : R[j] = M[s][j]
  BY <1>2, <1>3, <1>4
<1>6. M2 = [M EXCEPT ![s] = R]
  BY <1>1, <1>4 DEF Put
<1>7. M2 \in [Space -> [1 .. Slots -> Mapping \cup {None}]] /\ M2[s] = R /\ \A r \in Space \ {s} : M2[r] = M[r]
  BY <1>3, <1>5, <1>6
<1>8. Apart(M2)
  <2> SUFFICES ASSUME NEW r \in Space, NEW i \in 1 .. Slots, NEW j \in 1 .. Slots,
                      M2[r][i] # None, M2[r][j] # None, M2[r][i].vaddr = M2[r][j].vaddr
               PROVE  i = j
    BY DEF Apart
  <2>1. CASE r # s
    BY <1>7, <2>1 DEF Apart
  <2>2. CASE r = s
    BY <1>2, <1>3, <1>5, <1>7, <2>2 DEF Apart
  <2> QED BY <2>1, <2>2
<1>9. \A q \in Paddr : ~ Holds(M, s, v, q)
  BY <1>3, PageIsMapping DEF Holds
<1>10. ASSUME NEW r \in Space, NEW w \in Vaddr, NEW q \in Paddr
       PROVE  Holds(M2, r, w, q) <=> IF r = s /\ w = v THEN q = p ELSE Holds(M, r, w, q)
  <2>1. CASE r # s
    BY <1>7, <2>1 DEF Holds
  <2>2. CASE r = s
    <3>1. Holds(M2, s, w, q) <=> e = Page(w, q) \/ \E i \in (1 .. Slots) \ {k} : M[s][i] = Page(w, q)
      BY <1>3, <1>5, <1>7 DEF Holds
    <3>2. Page(w, q) # None
      BY PageIsMapping
    <3>3. Holds(M, s, w, q) <=> \E i \in (1 .. Slots) \ {k} : M[s][i] = Page(w, q)
      BY <1>3, <3>2 DEF Holds
    <3> QED BY <1>2, <1>9, <2>2, <3>1, <3>3
  <2> QED BY <2>1, <2>2
<1> QED BY <1>7, <1>8, <1>9, <1>10 DEF MapsTyped
-----------------------------------------------------------------------------
(* The invariant and its steps *)

\* The tables translate exactly the pages that the software model holds.
Agreed(M, T) ==
  \A s \in Space, v \in Vaddr, q \in Paddr : Translates(T, s, v, q) <=> Holds(M, s, v, q)

IInv == MapsTyped(mappings) /\ Apart(mappings) /\ Shape(table, poolUsed) /\ Agreed(mappings, table)

LEMMA SlotFound ==
  ASSUME PagesWellFormed, MapsTyped(mappings), NEW s \in Space, NEW v \in Vaddr, Accepts(s, v)
  PROVE  /\ First((1 .. Slots) \ Live(s)) \in 1 .. Slots
         /\ mappings[s][First((1 .. Slots) \ Live(s))] = None
         /\ \A i \in 1 .. Slots : mappings[s][i] # None => mappings[s][i].vaddr # v
<1>1. (1 .. Slots) \ Live(s) # {} /\ (1 .. Slots) \ Live(s) \in SUBSET (1 .. Slots)
  BY DEF Accepts, Live
<1>2. First((1 .. Slots) \ Live(s)) \in (1 .. Slots) \ Live(s)
  BY <1>1, FirstIsOne
<1>3. ASSUME NEW i \in 1 .. Slots, mappings[s][i] # None PROVE mappings[s][i].vaddr # v
  <2>1. mappings[s][i] \in Mapping /\ ~ Overlaps(mappings[s][i], v)
    BY <1>3 DEF MapsTyped, Accepts, Live
  <2> QED BY <2>1, OverlapIsSamePage
<1> QED BY <1>2, <1>3 DEF Live

LEMMA MappedStep ==
  ASSUME PagesWellFormed, PoolSuffices, IInv,
         NEW s \in Space, NEW v \in Vaddr, NEW p \in Paddr, Mapped(s, v, p)
  PROVE  /\ Shape(table', poolUsed') /\ Written(s, v, p, table')
         /\ \E k : Put(mappings, s, k, v, p, mappings')
<1>1. Shape(table, poolUsed) /\ MapsTyped(mappings)
  BY DEF IInv
<1>2. ~ Superpage(s, v)
  BY <1>1, WalkStopped DEF Mapped
<1>3. /\ Shape(MapRange(s, v, p).tab, poolUsed + MapRange(s, v, p).used)
      /\ Written(s, v, p, MapRange(s, v, p).tab)
  BY <1>1, <1>2, WalkSucceeds
<1>4. PICK k : k = First((1 .. Slots) \ Live(s))
  OBVIOUS
<1>5. /\ k \in 1 .. Slots /\ mappings[s][k] = None
      /\ \A i \in 1 .. Slots : mappings[s][i] # None => mappings[s][i].vaddr # v
  BY <1>1, <1>4, SlotFound DEF Mapped
<1>6. mappings' = [mappings EXCEPT ![s][k] = Page(v, p)]
  BY <1>4 DEF Mapped, Page
<1>7. Put(mappings, s, k, v, p, mappings')
  BY <1>5, <1>6 DEF Put
<1> QED BY <1>3, <1>7 DEF Mapped

\* With a pool that suffices only a superpage stops the walk, before it has
\* written anything, and what it found is what it leaves.
LEMMA FailedStep ==
  ASSUME PagesWellFormed, PoolSuffices, IInv,
         NEW s \in Space, NEW v \in Vaddr, NEW p \in Paddr, HardwareMapFailed(s, v, p)
  PROVE  UNCHANGED vars
<1>1. Shape(table, poolUsed) /\ MapsTyped(mappings)
  BY DEF IInv
<1>2. Superpage(s, v)
  BY <1>1, WalkSucceeds DEF HardwareMapFailed
<1>3. table' = table /\ poolUsed' = poolUsed
  BY <1>1, <1>2, WalkStopped DEF HardwareMapFailed
<1>4. PICK k : k = First((1 .. Slots) \ Live(s))
  OBVIOUS
<1>5. /\ k \in 1 .. Slots /\ mappings[s][k] = None
      /\ \A i \in 1 .. Slots : mappings[s][i] # None => mappings[s][i].vaddr # v
  BY <1>1, <1>4, SlotFound DEF HardwareMapFailed
<1>6. PICK e : e = Page(v, p)
  OBVIOUS
<1>7. e # None /\ e.vaddr = v
  BY <1>6, PageIsMapping
<1>8. PICK added : added = [mappings[s] EXCEPT ![k] = e]
  OBVIOUS
<1>9. PICK here : here = {i \in 1 .. Slots : added[i] # None /\ added[i].vaddr = v}
  OBVIOUS
<1>10. mappings' = [mappings EXCEPT ![s] = [added EXCEPT ![First(here)] = None]]
  BY <1>4, <1>6, <1>8, <1>9 DEF HardwareMapFailed, Page
<1>11. mappings \in [Space -> [1 .. Slots -> Mapping \cup {None}]]
  BY <1>1 DEF MapsTyped
<1>12. here = {k}
  BY <1>5, <1>7, <1>8, <1>9, <1>11
<1>13. First(here) = k
  BY <1>5, <1>12, FirstIsOne
<1>14. PICK old : old = [added EXCEPT ![k] = None]
  OBVIOUS
<1>15. old = mappings[s]
  BY <1>5, <1>8, <1>11, <1>14
<1>16. mappings' = mappings
  BY <1>10, <1>11, <1>13, <1>14, <1>15
<1> QED BY <1>3, <1>16 DEF vars

LEMMA InitHolds ==
  ASSUME Init
  PROVE  IInv
<1>1. PICK e : e = [leaf |-> TRUE, to |-> None]
  OBVIOUS
<1>2. e \in Entry /\ e # None /\ e.leaf = TRUE
  <2>1. e \in Entry /\ e.leaf = TRUE
    BY <1>1 DEF Entry
  <2> QED BY <2>1, NoneAssumption
<1>3. table = [f \in Frame |-> [i \in Index |-> IF <<f, i>> \in BootLeaf THEN e ELSE None]]
  BY <1>1 DEF Init
<1>4. \A f \in Frame, i \in Index : table[f][i] = IF <<f, i>> \in BootLeaf THEN e ELSE None
  BY <1>3
<1>5. TablesTyped(table, 0)
  <2>1. 0 \in 0 .. PoolLen
    BY SizeAssumption
  <2>2. table \in [Frame -> [Index -> Entry \cup {None}]]
    BY <1>2, <1>3
  <2> QED BY <2>1, <2>2 DEF TablesTyped
<1>6. \A f \in Frame, i \in Index, n \in Pool : ~ Link(table, f, i, n)
  BY <1>2, <1>4 DEF Link
<1>7. Pool \subseteq Frame /\ Space \subseteq Frame /\ \A n \in Pool : n \notin Space
  BY FrameAssumption DEF Pool, Frame
<1>8. \A n \in Pool, i \in Index : table[n][i] = None
  BY <1>4, <1>7, FrameAssumption
<1>9. Below(table, 0) /\ Once(table) /\ Zeroed(table, 0) /\ Levels(table) /\ Named(table)
  BY <1>6, <1>7, <1>8 DEF Below, Once, Zeroed, Levels, Named
<1>10. Linked(table, 0)
  <2>1. 1 .. 0 = {}
    OBVIOUS
  <2> QED BY <2>1 DEF Linked
<1>11. Superpages(table)
  BY <1>2, <1>4, <1>7 DEF Superpages
<1>12. Shape(table, poolUsed)
  BY <1>5, <1>9, <1>10, <1>11 DEF Shape, Init
<1>13. mappings = [s \in Space |-> [i \in 1 .. Slots |-> None]]
  BY DEF Init
<1>14. MapsTyped(mappings) /\ Apart(mappings)
  BY <1>13 DEF MapsTyped, Apart
<1>15. \A s \in Space, v \in Vaddr, q \in Paddr : ~ Holds(mappings, s, v, q)
  BY <1>13, PageIsMapping DEF Holds
<1>16. \A s \in Space, v \in Vaddr, q \in Paddr : ~ Translates(table, s, v, q)
  BY <1>6, <1>7, VpnTypes DEF Translates
<1> QED BY <1>12, <1>14, <1>15, <1>16 DEF IInv, Agreed

LEMMA StepHolds ==
  ASSUME PagesWellFormed, PoolSuffices, IInv, [Next]_vars
  PROVE  IInv'
<1>1. CASE UNCHANGED vars
  BY <1>1 DEF IInv, vars
<1>2. ASSUME NEW s \in Space, NEW v \in Vaddr, NEW p \in Paddr, HardwareMapFailed(s, v, p) PROVE IInv'
  BY <1>1, <1>2, FailedStep
<1>3. ASSUME NEW s \in Space, NEW v \in Vaddr, NEW p \in Paddr, Mapped(s, v, p) PROVE IInv'
  <2>1. PICK k : Put(mappings, s, k, v, p, mappings')
    BY <1>3, MappedStep
  <2>2. Shape(table', poolUsed') /\ Written(s, v, p, table')
    BY <1>3, MappedStep
  <2>3. MapsTyped(mappings) /\ Apart(mappings) /\ Shape(table, poolUsed) /\ Agreed(mappings, table)
    BY DEF IInv
  <2>4. /\ MapsTyped(mappings') /\ Apart(mappings')
        /\ \A r \in Space, w \in Vaddr, q \in Paddr :
             Holds(mappings', r, w, q) <=> IF r = s /\ w = v THEN q = p ELSE Holds(mappings, r, w, q)
    BY <2>1, <2>3, Putting
  <2>5. \A r \in Space, w \in Vaddr, q \in Paddr :
          Translates(table', r, w, q) <=> IF r = s /\ w = v THEN q = p ELSE Translates(table, r, w, q)
    BY <2>2, <2>3, TranslatesAfter
  <2>6. Agreed(mappings', table')
    BY <2>3, <2>4, <2>5 DEF Agreed
  <2> QED BY <2>2, <2>4, <2>6 DEF IInv
<1> QED BY <1>1, <1>2, <1>3 DEF Next

\* Both sides answer what the model holds.
Answers ==
  \A s \in Space, v \in Vaddr :
    /\ HardwareTranslate(s, v) \in Paddr \cup {None} /\ Translate(s, v) \in Paddr \cup {None}
    /\ \A q \in Paddr : /\ HardwareTranslate(s, v) = q <=> Holds(mappings, s, v, q)
                        /\ Translate(s, v) = q <=> Holds(mappings, s, v, q)

LEMMA AnswersFollow ==
  ASSUME PagesWellFormed, IInv
  PROVE  Answers
<1>1. MapsTyped(mappings) /\ Apart(mappings) /\ Shape(table, poolUsed) /\ Agreed(mappings, table)
  BY DEF IInv
<1>2. \A v \in Vaddr : Canonical(v)
  BY DEF PagesWellFormed
<1> SUFFICES ASSUME NEW s \in Space, NEW v \in Vaddr
             PROVE  /\ HardwareTranslate(s, v) \in Paddr \cup {None} /\ Translate(s, v) \in Paddr \cup {None}
                    /\ \A q \in Paddr : /\ HardwareTranslate(s, v) = q <=> Holds(mappings, s, v, q)
                                        /\ Translate(s, v) = q <=> Holds(mappings, s, v, q)
  BY DEF Answers
<1>3. /\ HardwareTranslate(s, v) \in Paddr \cup {None}
      /\ \A q \in Paddr : HardwareTranslate(s, v) = q <=> Translates(table, s, v, q)
  BY <1>1, <1>2, HardwareFinds
<1>4. /\ Translate(s, v) \in Paddr \cup {None}
      /\ \A q \in Paddr : Translate(s, v) = q <=> Holds(mappings, s, v, q)
  BY <1>1, ModelFinds
<1> QED BY <1>1, <1>3, <1>4 DEF Agreed
-----------------------------------------------------------------------------
(* Theorems *)

\* The invariant: do_map keeps the tables in shape and in step with the model.
THEOREM MapInvariant ==
  ASSUME PagesWellFormed, PoolSuffices
  PROVE  Spec => []IInv
<1>1. Init => IInv
  BY InitHolds
<1>2. IInv /\ [Next]_vars => IInv'
  BY StepHolds
<1> QED BY <1>1, <1>2, PTL DEF Spec

\* do_map: the software model and the hardware tables give every page the same
\* frame, or none: a refused walk is rolled back on both sides.
THEOREM ModelAndHardwareAgree ==
  ASSUME PagesWellFormed, PoolSuffices
  PROVE  Spec => []ModelMatchesHardware
<1>1. IInv => ModelMatchesHardware
  <2> SUFFICES ASSUME IInv, NEW s \in Space, NEW v \in Vaddr
               PROVE  HardwareTranslate(s, v) = Translate(s, v)
    BY DEF ModelMatchesHardware
  <2>1. /\ HardwareTranslate(s, v) \in Paddr \cup {None} /\ Translate(s, v) \in Paddr \cup {None}
        /\ \A q \in Paddr : /\ HardwareTranslate(s, v) = q <=> Holds(mappings, s, v, q)
                            /\ Translate(s, v) = q <=> Holds(mappings, s, v, q)
    BY AnswersFollow DEF Answers
  <2>2. \A q \in Paddr : HardwareTranslate(s, v) = q <=> Translate(s, v) = q
    BY <2>1
  <2> QED BY <2>1, <2>2
<1> QED BY <1>1, MapInvariant, PTL

\* map_range: a frame of the pool is linked in exactly one place once it is
\* below the pool's mark, and nowhere before.
THEOREM PoolFramesHaveOneParent ==
  ASSUME PagesWellFormed, PoolSuffices
  PROVE  Spec => []PoolFramesLinkedOnce
<1>1. IInv => PoolFramesLinkedOnce
  <2> SUFFICES ASSUME IInv, NEW n \in 1 .. PoolLen
               PROVE  Cardinality(Links(n)) = IF n <= poolUsed THEN 1 ELSE 0
    BY DEF PoolFramesLinkedOnce
  <2>1. Shape(table, poolUsed) /\ n \in Pool
    BY DEF IInv, Pool
  <2>2. \A l : l \in Links(n) <=> l \in Frame \X Index /\ Link(table, l[1], l[2], n)
    BY DEF Links, Link
  <2>3. n \in Nat /\ poolUsed \in Nat
    BY <2>1, SizeAssumption DEF Shape, TablesTyped
  <2>4. CASE n <= poolUsed
    <3>1. PICK f \in Frame, i \in Index : Link(table, f, i, n)
      BY <2>1, <2>3, <2>4 DEF Shape, Linked
    <3>2. \A l \in Links(n) : l = <<f, i>>
      BY <2>1, <2>2, <3>1 DEF Shape, Once
    <3>3. <<f, i>> \in Links(n)
      BY <2>2, <3>1
    <3>4. Links(n) = {<<f, i>>}
      BY <3>2, <3>3
    <3> QED BY <2>4, <3>4, FS_Singleton
  <2>5. CASE ~ (n <= poolUsed)
    <3>1. Links(n) = {}
      BY <2>1, <2>2, <2>5 DEF Shape, Below
    <3> QED BY <2>5, <3>1, FS_EmptySet
  <2> QED BY <2>4, <2>5
<1> QED BY <1>1, MapInvariant, PTL

\* A page the hardware translates keeps its frame, whatever Map is asked for
\* afterwards, in this space or in another.
THEOREM TranslationsStay ==
  ASSUME PagesWellFormed, PoolSuffices
  PROVE  Spec => TranslationStable
<1>1. IInv => Answers
  BY AnswersFollow
<1>2. IInv /\ Answers /\ Answers' /\ [Next]_vars =>
        [\A s \in Space, v \in Vaddr :
           HardwareTranslate(s, v) # None => HardwareTranslate(s, v)' = HardwareTranslate(s, v)]_vars
  <2> SUFFICES ASSUME IInv, Answers, Answers', Next, NEW r \in Space, NEW w \in Vaddr,
                      HardwareTranslate(r, w) # None, ~ UNCHANGED vars
               PROVE  HardwareTranslate(r, w)' = HardwareTranslate(r, w)
    OBVIOUS
  <2>1. PICK q \in Paddr : HardwareTranslate(r, w) = q /\ Holds(mappings, r, w, q)
    BY DEF Answers
  <2>2. PICK s \in Space, v \in Vaddr, p \in Paddr : Mapped(s, v, p)
    BY FailedStep DEF Next
  <2>3. PICK k : Put(mappings, s, k, v, p, mappings')
    BY <2>2, MappedStep
  <2>4. MapsTyped(mappings) /\ Apart(mappings)
    BY DEF IInv
  <2>5. Holds(mappings', r, w, q)
    <3>1. Holds(mappings', r, w, q) <=> IF r = s /\ w = v THEN q = p ELSE Holds(mappings, r, w, q)
      BY <2>3, <2>4, Putting
    <3>2. ~ Holds(mappings, s, v, q)
      BY <2>3, <2>4, Putting
    <3> QED BY <2>1, <3>1, <3>2
  <2>6. \A x \in Paddr : HardwareTranslate(r, w)' = x <=> Holds(mappings', r, w, x)
    BY DEF Answers
  <2> QED BY <2>1, <2>5, <2>6
<1> QED BY <1>1, <1>2, MapInvariant, PTL DEF Spec, TranslationStable
-----------------------------------------------------------------------------
(* Memory given out *)

\* Every non-empty set of naturals has a least member.
LEMMA LeastNat ==
  ASSUME NEW S \in SUBSET Nat, S # {}
  PROVE  \E x \in S : \A y \in S : x <= y
<1> DEFINE R == {p \in Nat \X Nat : p[1] < p[2]}
<1>1. IsWellFoundedOn(R, Nat)
  BY NatLessThanWellFounded DEF OpToRel
<1>2. PICK x \in S : \A y \in S : ~ (<<y, x>> \in R)
  BY <1>1, WFMin
<1>3. \A y \in S : x \in Nat /\ y \in Nat /\ ~ (y < x)
  BY <1>2
<1> QED BY <1>3

Region == [base : Nat, size : Nat, mark : Nat]

\* The regions, the first k of which the boot left.
RegionsOk(k, V) ==
  /\ k \in Nat /\ V \in Seq(Region) /\ 1 <= Len(V) /\ k <= Len(V) /\ Len(V) <= RegionTable
  /\ \A i \in 1 .. Len(V) : V[i].mark <= V[i].size

\* A piece lies below the watermark of its region, and becomes a later region
\* or none.
PieceOk(k, V, u) ==
  /\ u.lo \in Nat /\ u.hi \in Nat /\ u.of \in 1 .. Len(V)
  /\ u.lo >= V[u.of].base /\ u.hi <= V[u.of].base + V[u.of].mark
  /\ u.lo % PageBytes = 0 /\ u.wrote <= u.hi
  /\ u.child = 0 \/ (u.child \in k + 1 .. Len(V) /\ u.of < u.child)

Overlap(u, v) == u.lo < v.hi /\ v.lo < u.hi

\* Pieces of one region do not overlap.
SiblingsApart(W) == \A u, v \in W : u.of = v.of /\ Overlap(u, v) => u = v

\* A region the boot did not leave is a piece of another.
Founded(k, V, W) ==
  \A i \in k + 1 .. Len(V) :
    \E w \in W : w.child = i /\ w.lo = V[i].base /\ w.hi = V[i].base + V[i].size

RootsApart(k, V) ==
  \A i, j \in 1 .. k :
    i < j => V[i].base + V[i].size <= V[j].base \/ V[j].base + V[j].size <= V[i].base

Given(k, V, W) ==
  /\ RegionsOk(k, V) /\ RootsApart(k, V) /\ Founded(k, V, W) /\ SiblingsApart(W)
  /\ \A u \in W : PieceOk(k, V, u)

Related(u, v) == u = v \/ CarvedFrom(u, v) \/ CarvedFrom(v, u)

LEMMA RegionTyped ==
  ASSUME NEW k, NEW V, RegionsOk(k, V), NEW i \in 1 .. Len(V)
  PROVE  /\ V[i] \in Region /\ V[i].base \in Nat /\ V[i].size \in Nat /\ V[i].mark \in Nat
         /\ V[i].mark <= V[i].size /\ V[i] = [base |-> V[i].base, size |-> V[i].size, mark |-> V[i].mark]
<1>1. V[i] \in Region /\ V[i].mark <= V[i].size
  BY DEF RegionsOk
<1> QED BY <1>1 DEF Region

LEMMA CarvedThrough ==
  ASSUME NEW k, Given(k, untyped, uses), NEW u \in uses, NEW v \in uses, NEW w \in uses,
         w.child = v.of, u = w \/ CarvedFrom(w, u)
  PROVE  CarvedFrom(v, u)
<1> SUFFICES ASSUME NEW S \in SUBSET (1 .. Len(untyped)), v.of \in S, HoldsParents(S)
             PROVE  u.child \in S
  BY DEF CarvedFrom
<1>1. w.of \in S
  BY DEF HoldsParents
<1> QED BY <1>1 DEF CarvedFrom

LEMMA NotFromLater ==
  ASSUME NEW k, Given(k, untyped, uses), NEW u \in uses, NEW w \in uses, u.of < w.child
  PROVE  ~CarvedFrom(u, w)
<1>1. PICK S : S = 1 .. u.of
  OBVIOUS
<1>2. u.of \in 1 .. Len(untyped) /\ Len(untyped) \in Nat /\ k \in Nat
  BY DEF Given, PieceOk, RegionsOk
<1>3. S \in SUBSET (1 .. Len(untyped)) /\ u.of \in S
  BY <1>1, <1>2
<1>4. HoldsParents(S)
  <2> SUFFICES ASSUME NEW x \in uses, x.child \in S PROVE x.of \in S
    BY DEF HoldsParents
  <2>1. PieceOk(k, untyped, x)
    BY DEF Given
  <2>2. x.child \in 1 .. u.of /\ x.of \in 1 .. Len(untyped) /\ x.of < x.child
    BY <1>1, <1>2, <2>1 DEF PieceOk
  <2> QED BY <1>1, <1>2, <2>2
<1>5. w.child \notin S
  BY <1>1, <1>2
<1> QED BY <1>3, <1>4, <1>5 DEF CarvedFrom

\* A piece that overlaps one of a later region overlaps that region's own piece.
LEMMA Deeper ==
  ASSUME NEW k, Given(k, untyped, uses), NEW u \in uses, NEW v \in uses, Overlap(u, v), u.of < v.of,
         \A x, y \in uses : x.of + y.of < u.of + v.of /\ Overlap(x, y) => Related(x, y)
  PROVE  CarvedFrom(v, u)
<1>1. /\ RegionsOk(k, untyped) /\ RootsApart(k, untyped) /\ Founded(k, untyped, uses)
      /\ PieceOk(k, untyped, u) /\ PieceOk(k, untyped, v)
  BY DEF Given
<1>2. PICK p, q \in 1 .. Len(untyped) : p = u.of /\ q = v.of
  BY <1>1 DEF PieceOk
<1>3. Len(untyped) \in Nat /\ k \in Nat /\ p \in Nat /\ q \in Nat /\ p < q
  BY <1>1, <1>2 DEF RegionsOk
<1>4. PICK bp, sp, mp, bq, sq, mq \in Nat :
        /\ bp = untyped[p].base /\ sp = untyped[p].size /\ mp = untyped[p].mark /\ mp <= sp
        /\ bq = untyped[q].base /\ sq = untyped[q].size /\ mq = untyped[q].mark /\ mq <= sq
  <2>1. /\ untyped[p].base \in Nat /\ untyped[p].size \in Nat /\ untyped[p].mark \in Nat
        /\ untyped[p].mark <= untyped[p].size
    BY <1>1, RegionTyped
  <2>2. /\ untyped[q].base \in Nat /\ untyped[q].size \in Nat /\ untyped[q].mark \in Nat
        /\ untyped[q].mark <= untyped[q].size
    BY <1>1, RegionTyped
  <2> QED BY <2>1, <2>2
<1>5. PICK ul, uh, vl, vh \in Nat :
        /\ ul = u.lo /\ uh = u.hi /\ ul >= bp /\ uh <= bp + mp
        /\ vl = v.lo /\ vh = v.hi /\ vl >= bq /\ vh <= bq + mq
        /\ ul < vh /\ vl < uh
  BY <1>1, <1>2, <1>4 DEF PieceOk, Overlap
<1>6. q > k
  <2> SUFFICES ASSUME q <= k PROVE FALSE
    BY <1>3
  <2>1. p \in 1 .. k /\ q \in 1 .. k
    BY <1>3
  <2>2. bp + sp <= bq \/ bq + sq <= bp
    BY <1>1, <1>3, <1>4, <2>1 DEF RootsApart
  <2>3. /\ mp <= sp /\ mq <= sq /\ ul >= bp /\ uh <= bp + mp /\ vl >= bq /\ vh <= bq + mq
        /\ ul < vh /\ vl < uh
    BY <1>4, <1>5
  <2> QED BY <2>2, <2>3
<1>7. PICK w \in uses : w.child = q /\ w.lo = bq /\ w.hi = bq + sq
  <2>1. q \in k + 1 .. Len(untyped)
    BY <1>3, <1>6
  <2> QED BY <1>1, <1>4, <2>1 DEF Founded
<1>8. Overlap(u, w)
  <2>1. ul < bq + sq /\ bq < uh
    <3>1. mq <= sq /\ vl >= bq /\ vh <= bq + mq /\ ul < vh /\ vl < uh
      BY <1>4, <1>5
    <3> QED BY <3>1
  <2> QED BY <1>5, <1>7, <2>1 DEF Overlap
<1>9. w.of \in Nat /\ w.of < q
  <2>1. PieceOk(k, untyped, w)
    BY DEF Given
  <2> QED BY <1>2, <1>3, <1>7, <2>1 DEF PieceOk
<1>10. Related(u, w)
  BY <1>2, <1>3, <1>8, <1>9
<1>11. ~CarvedFrom(u, w)
  BY <1>2, <1>3, <1>7, NotFromLater
<1>12. u = w \/ CarvedFrom(w, u)
  BY <1>10, <1>11 DEF Related
<1> QED BY <1>2, <1>7, <1>12, CarvedThrough

LEMMA OverlapsRelated ==
  ASSUME NEW k, Given(k, untyped, uses)
  PROVE  \A u, v \in uses : Overlap(u, v) => Related(u, v)
<1> DEFINE Bad == {n \in Nat : \E u, v \in uses : u.of + v.of = n /\ Overlap(u, v) /\ ~Related(u, v)}
<1>1. \A u \in uses : u.of \in Nat
  BY DEF Given, PieceOk
<1>2. ASSUME Bad # {} PROVE FALSE
  <2>1. PICK n \in Bad : \A m \in Bad : n <= m
    <3>1. Bad \in SUBSET Nat
      OBVIOUS
    <3> HIDE DEF Bad
    <3> QED BY <1>2, <3>1, LeastNat
  <2>2. PICK u, v \in uses : u.of + v.of = n /\ Overlap(u, v) /\ ~Related(u, v)
    BY <2>1
  <2>3. \A x, y \in uses : x.of + y.of < n /\ Overlap(x, y) => Related(x, y)
    <3> SUFFICES ASSUME NEW x \in uses, NEW y \in uses, x.of + y.of < n, Overlap(x, y), ~Related(x, y)
                 PROVE  FALSE
      OBVIOUS
    <3>1. x.of + y.of \in Bad
      BY <1>1
    <3>2. n <= x.of + y.of /\ n \in Nat
      BY <2>1, <3>1
    <3> QED BY <1>1, <3>2
  <2> HIDE DEF Bad
  <2>4. u.of \in Nat /\ v.of \in Nat /\ u.of + v.of = v.of + u.of
    BY <1>1
  <2>5. CASE u.of = v.of
    BY <2>2, <2>5 DEF Given, SiblingsApart, Related
  <2>6. CASE u.of < v.of
    <3>1. CarvedFrom(v, u)
      BY <2>2, <2>3, <2>6, Deeper
    <3> QED BY <2>2, <3>1 DEF Related
  <2>7. CASE v.of < u.of
    <3>1. Overlap(v, u)
      BY <2>2 DEF Overlap
    <3>2. CarvedFrom(u, v)
      BY <2>2, <2>3, <2>4, <2>7, <3>1, Deeper
    <3> QED BY <2>2, <3>2 DEF Related
  <2> QED BY <2>4, <2>5, <2>6, <2>7
<1>3. ASSUME NEW u \in uses, NEW v \in uses, Overlap(u, v), ~Related(u, v)
      PROVE  FALSE
  <2>1. u.of + v.of \in Bad
    BY <1>1, <1>3
  <2> QED BY <1>2, <2>1
<1> QED BY <1>3

LEMMA GivenIsSafe ==
  ASSUME NEW k, Given(k, untyped, uses)
  PROVE  NoDoubleUse
<1>1. \A u, v \in uses :
        u.lo < v.hi /\ v.lo < u.hi => u = v \/ CarvedFrom(u, v) \/ CarvedFrom(v, u)
  BY OverlapsRelated DEF Overlap, Related
<1>2. ASSUME NEW u \in uses
      PROVE  /\ u.lo >= untyped[u.of].base /\ u.hi <= untyped[u.of].base + untyped[u.of].mark
             /\ untyped[u.of].mark <= untyped[u.of].size /\ u.lo % PageBytes = 0 /\ u.wrote <= u.hi
  <2>1. PieceOk(k, untyped, u) /\ RegionsOk(k, untyped)
    BY DEF Given
  <2> QED BY <2>1 DEF PieceOk, RegionsOk
<1> QED BY <1>1, <1>2 DEF NoDoubleUse
-----------------------------------------------------------------------------
\* What an allocation answers.
LEMMA RoundUpFacts ==
  ASSUME NEW n \in Nat
  PROVE  RoundUp(n) \in Nat /\ RoundUp(n) >= n /\ RoundUp(n) % PageBytes = 0
  BY DEF RoundUp, PageBytes

LEMMA AllocFacts ==
  ASSUME NEW u \in Region, u.mark <= u.size, NEW bytes \in Nat, Alloc(u, bytes).ok
  PROVE  LET g == Alloc(u, bytes) IN
         /\ g.at \in Nat /\ g.mark \in Nat /\ g.at % PageBytes = 0
         /\ g.at >= u.base + u.mark /\ g.at + bytes <= u.base + g.mark
         /\ u.mark <= g.mark /\ g.mark <= u.size
<1>1. PICK b, s, m \in Nat : b = u.base /\ s = u.size /\ m = u.mark /\ m <= s
  BY DEF Region
<1>2. PICK a : a = RoundUp(b + m)
  OBVIOUS
<1>3. a \in Nat /\ a >= b + m /\ a % PageBytes = 0
  BY <1>1, <1>2, RoundUpFacts
<1>4. ~(a > AddrTop \/ a + bytes > AddrTop \/ b + s > AddrTop) /\ ~(a + bytes > b + s)
  BY <1>1, <1>2 DEF Alloc
<1>5. Alloc(u, bytes) = [ok |-> TRUE, at |-> a, mark |-> a + bytes - b]
  BY <1>1, <1>2, <1>4 DEF Alloc
<1>6. /\ a + bytes - b \in Nat /\ a + bytes <= b + (a + bytes - b)
      /\ m <= a + bytes - b /\ a + bytes - b <= s
  BY <1>3, <1>4
<1> QED BY <1>1, <1>3, <1>5, <1>6

\* V is U with the watermark of one region moved to m and regions added.
Grown(U, V, of, m) ==
  /\ V \in Seq(Region) /\ Len(U) <= Len(V) /\ Len(V) <= RegionTable
  /\ of \in 1 .. Len(U) /\ m \in Nat /\ U[of].mark <= m /\ m <= U[of].size
  /\ \A i \in 1 .. Len(U) : V[i] = IF i = of THEN [U[i] EXCEPT !.mark = m] ELSE U[i]
  /\ \A i \in Len(U) + 1 .. Len(V) : V[i].mark <= V[i].size

\* P are pieces of the region between its old and its new watermark, and the
\* regions added.
Pieces(U, V, of, m, P) ==
  /\ SiblingsApart(P)
  /\ \A p \in P :
       /\ p.lo \in Nat /\ p.hi \in Nat /\ p.of = of
       /\ p.lo >= U[of].base + U[of].mark /\ p.hi <= U[of].base + m
       /\ p.lo % PageBytes = 0 /\ p.wrote <= p.hi
       /\ p.child = 0 \/ p.child \in Len(U) + 1 .. Len(V)
  /\ \A i \in Len(U) + 1 .. Len(V) :
       \E p \in P : p.child = i /\ p.lo = V[i].base /\ p.hi = V[i].base + V[i].size

LEMMA GrownRegions ==
  ASSUME NEW k, NEW U, NEW V, NEW of, NEW m, RegionsOk(k, U), RootsApart(k, U), Grown(U, V, of, m)
  PROVE  /\ RegionsOk(k, V) /\ RootsApart(k, V)
         /\ \A i \in 1 .. Len(U) : V[i].base = U[i].base /\ V[i].size = U[i].size /\ V[i].mark >= U[i].mark
         /\ V[of].mark = m
<1>1. Len(U) \in Nat /\ Len(V) \in Nat /\ k \in Nat /\ k <= Len(U) /\ Len(U) <= Len(V) /\ 1 <= Len(U)
  BY DEF RegionsOk, Grown
<1>2. ASSUME NEW i \in 1 .. Len(U)
      PROVE  /\ V[i].base = U[i].base /\ V[i].size = U[i].size /\ V[i].mark >= U[i].mark
             /\ V[i].mark <= V[i].size /\ (i = of => V[i].mark = m)
  <2>1. /\ U[i] \in Region /\ U[i].base \in Nat /\ U[i].size \in Nat /\ U[i].mark \in Nat
        /\ U[i].mark <= U[i].size
    BY RegionTyped
  <2>2. CASE i = of
    <3>1. V[i] = [U[i] EXCEPT !.mark = m] /\ U[i].mark <= m /\ m <= U[i].size /\ m \in Nat
      BY <2>2 DEF Grown
    <3>2. V[i].base = U[i].base /\ V[i].size = U[i].size /\ V[i].mark = m
      BY <2>1, <3>1 DEF Region
    <3> QED BY <2>1, <3>1, <3>2
  <2>3. CASE i # of
    <3>1. V[i] = U[i]
      BY <2>3 DEF Grown
    <3> QED BY <2>1, <2>3, <3>1
  <2> QED BY <2>2, <2>3
<1>3. RegionsOk(k, V)
  <2>1. \A i \in 1 .. Len(V) : V[i].mark <= V[i].size
    <3> SUFFICES ASSUME NEW i \in 1 .. Len(V) PROVE V[i].mark <= V[i].size
      OBVIOUS
    <3>1. CASE i <= Len(U)
      BY <1>1, <1>2, <3>1
    <3>2. CASE i > Len(U)
      BY <1>1, <3>2 DEF Grown
    <3> QED BY <1>1, <3>1, <3>2
  <2> QED BY <1>1, <2>1 DEF RegionsOk, Grown
<1>4. RootsApart(k, V)
  <2>1. \A i \in 1 .. k : V[i].base = U[i].base /\ V[i].size = U[i].size
    BY <1>1, <1>2
  <2> QED BY <2>1 DEF RootsApart
<1>5. V[of].mark = m
  BY <1>2 DEF Grown
<1> QED BY <1>2, <1>3, <1>4, <1>5

LEMMA GivenGrows ==
  ASSUME NEW k, NEW U, NEW W, NEW V, NEW of, NEW m, NEW P,
         Given(k, U, W), Grown(U, V, of, m), Pieces(U, V, of, m, P)
  PROVE  Given(k, V, W \union P)
<1>1. RegionsOk(k, U) /\ RootsApart(k, U) /\ Founded(k, U, W) /\ SiblingsApart(W) /\ \A u \in W : PieceOk(k, U, u)
  BY DEF Given
<1>2. /\ RegionsOk(k, V) /\ RootsApart(k, V)
      /\ \A i \in 1 .. Len(U) : V[i].base = U[i].base /\ V[i].size = U[i].size /\ V[i].mark >= U[i].mark
      /\ V[of].mark = m
  BY <1>1, GrownRegions
<1>3. /\ Len(U) \in Nat /\ Len(V) \in Nat /\ k \in Nat /\ k <= Len(U) /\ Len(U) <= Len(V) /\ of \in 1 .. Len(U)
      /\ m \in Nat /\ U[of].mark <= m
  BY <1>1 DEF RegionsOk, Grown
<1>4. Founded(k, V, W \union P)
  <2> SUFFICES ASSUME NEW i \in k + 1 .. Len(V)
               PROVE  \E w \in W \union P : w.child = i /\ w.lo = V[i].base /\ w.hi = V[i].base + V[i].size
    BY DEF Founded
  <2>1. CASE i <= Len(U)
    <3>1. i \in k + 1 .. Len(U) /\ i \in 1 .. Len(U)
      BY <1>3, <2>1
    <3>2. PICK w \in W : w.child = i /\ w.lo = U[i].base /\ w.hi = U[i].base + U[i].size
      BY <1>1, <3>1 DEF Founded
    <3> QED BY <1>2, <3>1, <3>2
  <2>2. CASE i > Len(U)
    <3>1. i \in Len(U) + 1 .. Len(V)
      BY <1>3, <2>2
    <3> QED BY <3>1 DEF Pieces
  <2> QED BY <1>3, <2>1, <2>2
<1>5. ASSUME NEW u \in W
      PROVE  PieceOk(k, V, u) /\ (u.of = of => u.hi <= U[of].base + U[of].mark) /\ u.lo \in Nat /\ u.hi \in Nat
  <2>1. PieceOk(k, U, u)
    BY <1>1
  <2>2. PICK j \in 1 .. Len(U) : j = u.of
    BY <2>1 DEF PieceOk
  <2>3. PICK b, n, n2 \in Nat : b = U[j].base /\ n = U[j].mark /\ n2 = V[j].mark /\ b = V[j].base /\ n <= n2
    <3>1. U[j].base \in Nat /\ U[j].mark \in Nat
      BY <1>1, RegionTyped
    <3>2. j \in 1 .. Len(V)
      BY <1>3
    <3>3. V[j].mark \in Nat
      BY <1>2, <3>2, RegionTyped
    <3> QED BY <1>2, <3>1, <3>3
  <2>4. u.lo \in Nat /\ u.hi \in Nat /\ u.lo >= b /\ u.hi <= b + n
    BY <2>1, <2>2, <2>3 DEF PieceOk
  <2>5. u.hi <= b + n2
    <3>1. n <= n2
      BY <2>3
    <3> QED BY <2>4, <3>1
  <2>6. u.lo % PageBytes = 0 /\ u.wrote <= u.hi
    BY <2>1 DEF PieceOk
  <2>7. u.child = 0 \/ (u.child \in k + 1 .. Len(V) /\ u.of < u.child)
    <3>1. u.child = 0 \/ (u.child \in k + 1 .. Len(U) /\ u.of < u.child)
      BY <2>1 DEF PieceOk
    <3> QED BY <1>3, <3>1
  <2>8. j \in 1 .. Len(V)
    BY <1>3
  <2>9. PieceOk(k, V, u)
    BY <2>2, <2>3, <2>4, <2>5, <2>6, <2>7, <2>8 DEF PieceOk
  <2> QED BY <2>2, <2>3, <2>4, <2>9
<1>6. ASSUME NEW p \in P
      PROVE  PieceOk(k, V, p) /\ p.of = of /\ p.lo >= U[of].base + U[of].mark /\ p.lo \in Nat /\ p.hi \in Nat
  <2>1. /\ p.lo \in Nat /\ p.hi \in Nat /\ p.of = of
        /\ p.lo >= U[of].base + U[of].mark /\ p.hi <= U[of].base + m
        /\ p.lo % PageBytes = 0 /\ p.wrote <= p.hi
    BY DEF Pieces
  <2>2. p.child = 0 \/ p.child \in Len(U) + 1 .. Len(V)
    BY DEF Pieces
  <2>3. p.child = 0 \/ (p.child \in k + 1 .. Len(V) /\ of < p.child)
    BY <1>3, <2>2
  <2>4. V[of].base = U[of].base /\ V[of].mark = m /\ of \in 1 .. Len(V)
    BY <1>2, <1>3
  <2>5. PICK b, n \in Nat : b = U[of].base /\ n = U[of].mark
    BY <1>1, <1>3, RegionTyped
  <2>6. p.lo >= b + n /\ p.lo >= b
    BY <2>1, <2>5
  <2> QED BY <2>1, <2>3, <2>4, <2>5, <2>6 DEF PieceOk
<1>7. SiblingsApart(W \union P)
  <2> SUFFICES ASSUME NEW u \in W \union P, NEW v \in W \union P, u.of = v.of, Overlap(u, v)
               PROVE  u = v
    BY DEF SiblingsApart
  <2>1. CASE u \in W /\ v \in W
    BY <1>1, <2>1 DEF SiblingsApart
  <2>2. CASE u \in P /\ v \in P
    BY <2>2 DEF SiblingsApart, Pieces
  <2>3. PICK b, n \in Nat : b = U[of].base /\ n = U[of].mark
    BY <1>1, <1>3, RegionTyped
  <2>4. ASSUME NEW x \in W, NEW y \in P, x.of = y.of
        PROVE  x.hi <= y.lo /\ x.hi \in Nat /\ y.lo \in Nat
    <3>1. x.hi <= b + n /\ x.hi \in Nat
      BY <1>5, <1>6, <2>3, <2>4
    <3>2. y.lo >= b + n /\ y.lo \in Nat
      BY <1>6, <2>3
    <3> QED BY <3>1, <3>2
  <2>5. CASE u \in W /\ v \in P
    BY <2>4, <2>5 DEF Overlap
  <2>6. CASE u \in P /\ v \in W
    BY <2>4, <2>6 DEF Overlap
  <2> QED BY <2>1, <2>2, <2>5, <2>6
<1> QED BY <1>2, <1>4, <1>5, <1>6, <1>7 DEF Given
-----------------------------------------------------------------------------
\* A kernel state whose memory was given out soundly and whose tables fit.
Stocked(k, r) ==
  /\ r = [ok |-> r.ok, untyped |-> r.untyped, uses |-> r.uses, tables |-> r.tables, caps |-> r.caps]
  /\ r.ok \in BOOLEAN /\ Given(k, r.untyped, r.uses)
  /\ r.tables \in [Kinds \ {"Untyped"} -> 0 .. ObjectTable] /\ r.caps \in 0 .. CapSlots

LEMMA KeptOk ==
  ASSUME NEW k, NEW r, Stocked(k, r), NEW b \in BOOLEAN
  PROVE  Stocked(k, [r EXCEPT !.ok = b]) /\ [r EXCEPT !.ok = b].ok = b
<1>1. [r EXCEPT !.ok = b] = [ok |-> b, untyped |-> r.untyped, uses |-> r.uses, tables |-> r.tables, caps |-> r.caps]
  BY DEF Stocked
<1>2. PICK q : q = [r EXCEPT !.ok = b]
  OBVIOUS
<1>3. q.ok = b /\ q.untyped = r.untyped /\ q.uses = r.uses /\ q.tables = r.tables /\ q.caps = r.caps
  BY <1>1, <1>2
<1> QED BY <1>1, <1>2, <1>3 DEF Stocked

LEMMA KeptIsBoolean ==
  ASSUME NEW k, NEW r, Stocked(k, r)
  PROVE  r.ok \in BOOLEAN
  BY DEF Stocked

LEMMA TakeEntryKept ==
  ASSUME NEW k, NEW r, Stocked(k, r), NEW kind \in Kinds \ {"Untyped"}
  PROVE  Stocked(k, TakeEntry(r, kind))
<1>1. CASE ~r.ok \/ r.tables[kind] = ObjectTable
  BY <1>1, KeptOk DEF TakeEntry
<1>2. CASE ~(~r.ok \/ r.tables[kind] = ObjectTable)
  <2>1. PICK T : T = [r.tables EXCEPT ![kind] = @ + 1]
    OBVIOUS
  <2>2. T \in [Kinds \ {"Untyped"} -> 0 .. ObjectTable]
    <3>1. r.tables \in [Kinds \ {"Untyped"} -> 0 .. ObjectTable]
      BY DEF Stocked
    <3>2. r.tables[kind] + 1 \in 0 .. ObjectTable
      BY <1>2, <3>1, ObjSizeAssumption
    <3> QED BY <2>1, <3>1, <3>2
  <2>3. PICK q : q = TakeEntry(r, kind)
    OBVIOUS
  <2>4. q = [ok |-> r.ok, untyped |-> r.untyped, uses |-> r.uses, tables |-> T, caps |-> r.caps]
    BY <1>2, <2>1, <2>3 DEF TakeEntry, Stocked
  <2> QED BY <2>2, <2>3, <2>4 DEF Stocked
<1> QED BY <1>1, <1>2

\* One region's watermark moves and one piece is given out of what it covers.
LEMMA PieceGiven ==
  ASSUME NEW k, NEW U, NEW W, Given(k, U, W), NEW of \in 1 .. Len(U), NEW bytes \in Nat,
         NEW g, g = Alloc(U[of], bytes), g.ok, NEW p,
         p.lo = g.at, p.hi = g.at + bytes, p.of = of, p.child = 0, p.wrote <= p.hi
  PROVE  Given(k, [U EXCEPT ![of].mark = g.mark], W \union {p})
<1>1. RegionsOk(k, U)
  BY DEF Given
<1>2. U[of] \in Region /\ U[of].mark <= U[of].size /\ U[of].base \in Nat /\ U[of].mark \in Nat
  BY <1>1, RegionTyped
<1>3. /\ g.at \in Nat /\ g.mark \in Nat /\ g.at % PageBytes = 0
      /\ g.at >= U[of].base + U[of].mark /\ g.at + bytes <= U[of].base + g.mark
      /\ U[of].mark <= g.mark /\ g.mark <= U[of].size
  BY <1>2, AllocFacts
<1>4. PICK e : e = [U[of] EXCEPT !.mark = g.mark]
  OBVIOUS
<1>5. PICK V : V = [U EXCEPT ![of] = e]
  OBVIOUS
<1>6. V = [U EXCEPT ![of].mark = g.mark]
  BY <1>4, <1>5
<1>7. e \in Region
  BY <1>2, <1>3, <1>4 DEF Region
<1>8. U \in Seq(Region) /\ Len(U) \in Nat /\ Len(U) <= RegionTable
  BY <1>1 DEF RegionsOk
<1>9. V \in Seq(Region) /\ Len(V) = Len(U) /\ \A i \in 1 .. Len(U) : V[i] = IF i = of THEN e ELSE U[i]
  BY <1>5, <1>7, <1>8
<1>10. Grown(U, V, of, g.mark)
  <2>1. Len(U) + 1 .. Len(V) = {}
    BY <1>8, <1>9
  <2> QED BY <1>3, <1>4, <1>8, <1>9, <2>1 DEF Grown
<1>11. Pieces(U, V, of, g.mark, {p})
  <2>1. Len(U) + 1 .. Len(V) = {}
    BY <1>8, <1>9
  <2>2. SiblingsApart({p})
    BY DEF SiblingsApart
  <2>3. p.lo \in Nat /\ p.hi \in Nat
    BY <1>3
  <2> QED BY <1>3, <2>1, <2>2, <2>3 DEF Pieces
<1> QED BY <1>6, <1>10, <1>11, GivenGrows

LEMMA UseFields ==
  ASSUME NEW lo, NEW bytes, NEW purpose, NEW of, NEW child
  PROVE  LET p == Use(lo, bytes, purpose, of, child) IN
         p.lo = lo /\ p.hi = lo + bytes /\ p.of = of /\ p.child = child /\ p.wrote = lo
  BY DEF Use

LEMMA CarveKept ==
  ASSUME NEW k, NEW r, Stocked(k, r), NEW bytes \in Nat, NEW purpose
  PROVE  Stocked(k, Carve(r, bytes, purpose)) /\ Stocked(k, CarveNext(r, bytes, purpose))
         /\ Stocked(k, CarveAnyway(r, bytes, purpose))
<1>1. ASSUME NEW q, Stocked(k, q)
      PROVE  Stocked(k, Carve(q, bytes, purpose))
  <2>1. PICK g : g = Alloc(q.untyped[1], bytes)
    OBVIOUS
  <2>2. CASE ~g.ok
    BY <1>1, <2>1, <2>2, KeptOk DEF Carve
  <2>3. CASE g.ok
    <3>1. PICK p : p = Use(g.at, bytes, purpose, 1, 0)
      OBVIOUS
    <3>2. RegionsOk(k, q.untyped) /\ Given(k, q.untyped, q.uses)
      BY <1>1 DEF Stocked, Given
    <3>3. 1 \in 1 .. Len(q.untyped) /\ q.untyped[1] \in Region /\ q.untyped[1].mark <= q.untyped[1].size
      <4>1. 1 \in 1 .. Len(q.untyped)
        BY <3>2 DEF RegionsOk
      <4> QED BY <3>2, <4>1, RegionTyped
    <3>4. g.at \in Nat
      BY <2>1, <2>3, <3>3, AllocFacts
    <3>5. p.lo = g.at /\ p.hi = g.at + bytes /\ p.of = 1 /\ p.child = 0 /\ p.wrote = g.at
      BY <3>1, UseFields
    <3>6. p.wrote <= p.hi
      BY <3>4, <3>5
    <3>7. PICK V : V = [q.untyped EXCEPT ![1].mark = g.mark]
      OBVIOUS
    <3>8. Given(k, V, q.uses \union {p})
      BY <2>1, <2>3, <3>2, <3>3, <3>5, <3>6, <3>7, PieceGiven
    <3>9. PICK z : z = Carve(q, bytes, purpose)
      OBVIOUS
    <3>10. z = [ok |-> q.ok, untyped |-> V, uses |-> q.uses \union {p}, tables |-> q.tables, caps |-> q.caps]
      BY <1>1, <2>1, <2>3, <3>1, <3>7, <3>9 DEF Carve, Stocked
    <3> QED BY <1>1, <3>8, <3>9, <3>10 DEF Stocked
  <2> QED BY <2>2, <2>3
<1>2. Stocked(k, CarveNext(r, bytes, purpose))
  BY <1>1 DEF CarveNext
<1>3. Stocked(k, CarveAnyway(r, bytes, purpose))
  <2>1. PICK q, z : q = [r EXCEPT !.ok = TRUE] /\ z = Carve(q, bytes, purpose)
    OBVIOUS
  <2>2. Stocked(k, q)
    BY <2>1, KeptOk
  <2>3. Stocked(k, z)
    BY <1>1, <2>1, <2>2
  <2>4. PICK b \in BOOLEAN : b = (z.ok /\ r.ok)
    OBVIOUS
  <2>5. CarveAnyway(r, bytes, purpose) = [z EXCEPT !.ok = b]
    BY <2>1, <2>4 DEF CarveAnyway
  <2> QED BY <2>3, <2>5, KeptOk
<1> QED BY <1>1, <1>2, <1>3

LEMMA LoadSegmentKept ==
  ASSUME NEW k, NEW r, Stocked(k, r), NEW image, NEW seg \in [vaddr : Nat, offset : Nat, filesz : Nat, memsz : Nat]
  PROVE  Stocked(k, LoadSegment(r, seg, image))
<1>1. PICK off, bytes, g : /\ off = seg.vaddr % PageBytes /\ bytes = RoundUp(seg.memsz + off)
                           /\ g = Alloc(r.untyped[1], bytes)
  OBVIOUS
<1>2. off \in Nat /\ seg.memsz \in Nat /\ seg.filesz \in Nat
  BY <1>1 DEF PageBytes
<1>3. bytes \in Nat /\ bytes >= seg.memsz + off
  BY <1>1, <1>2, RoundUpFacts
<1>4. CASE ~r.ok \/ bytes = 0
  BY <1>1, <1>4 DEF LoadSegment
<1>5. PICK bad \in BOOLEAN : bad = (seg.offset + seg.filesz > AddrTop \/ seg.filesz > seg.memsz
               \/ seg.offset + seg.filesz > image.len \/ ~g.ok)
  OBVIOUS
<1>6. CASE ~(~r.ok \/ bytes = 0) /\ bad
  <2>1. LoadSegment(r, seg, image) = [r EXCEPT !.ok = FALSE]
    BY <1>1, <1>5, <1>6 DEF LoadSegment
  <2> QED BY <2>1, KeptOk
<1>7. CASE ~(~r.ok \/ bytes = 0) /\ ~bad
  <2>1. g.ok /\ seg.filesz <= seg.memsz
    <3>1. g.ok /\ ~(seg.filesz > seg.memsz)
      BY <1>5, <1>7, Zenon
    <3> QED BY <1>2, <3>1
  <2>2. RegionsOk(k, r.untyped) /\ Given(k, r.untyped, r.uses)
    BY DEF Stocked, Given
  <2>3. 1 \in 1 .. Len(r.untyped) /\ r.untyped[1] \in Region /\ r.untyped[1].mark <= r.untyped[1].size
    <3>1. 1 \in 1 .. Len(r.untyped)
      BY <2>2 DEF RegionsOk
    <3> QED BY <2>2, <3>1, RegionTyped
  <2>4. g.at \in Nat
    BY <1>1, <1>3, <2>1, <2>3, AllocFacts
  <2>5. PICK w : w = g.at + off + seg.filesz
    OBVIOUS
  <2>6. w <= g.at + bytes
    BY <1>2, <1>3, <2>1, <2>4, <2>5
  <2>7. PICK p : p = [Use(g.at, bytes, "segment", 1, 0) EXCEPT !.wrote = w]
    OBVIOUS
  <2>8. p.lo = g.at /\ p.hi = g.at + bytes /\ p.of = 1 /\ p.child = 0 /\ p.wrote = w
    BY <2>7 DEF Use
  <2>9. PICK V : V = [r.untyped EXCEPT ![1].mark = g.mark]
    OBVIOUS
  <2>10. p.wrote <= p.hi
    BY <2>6, <2>8
  <2>11. Given(k, V, r.uses \union {p})
    BY <1>1, <1>3, <2>1, <2>2, <2>3, <2>8, <2>9, <2>10, PieceGiven
  <2>12. PICK z : z = LoadSegment(r, seg, image)
    OBVIOUS
  <2>13. z = [r EXCEPT !.untyped[1].mark = g.mark, !.uses = @ \cup {p}]
    BY <1>1, <1>5, <1>7, <2>5, <2>7, <2>12 DEF LoadSegment
  <2>14. z = [ok |-> r.ok, untyped |-> V, uses |-> r.uses \union {p}, tables |-> r.tables, caps |-> r.caps]
    BY <2>9, <2>13 DEF Stocked
  <2> QED BY <2>11, <2>12, <2>14 DEF Stocked
<1> QED BY <1>4, <1>6, <1>7

\* The recursion of LoadSegments has a solution: the first i segments have one,
\* for the least i that has none would extend the one before.
LEMMA LoadedExists ==
  ASSUME NEW r, NEW image, NEW N \in Nat
  PROVE  \E f : f = [i \in 0 .. N |-> IF i = 0 THEN r ELSE LoadSegment(f[i - 1], image.segs[i], image)]
<1> DEFINE Solves(g, n) == \A i \in 0 .. n : g[i] = IF i = 0 THEN r ELSE LoadSegment(g[i - 1], image.segs[i], image)
<1> DEFINE Bad == {n \in Nat : ~ \E g : Solves(g, n)}
<1>1. Bad = {}
  <2> SUFFICES ASSUME Bad # {} PROVE FALSE
    OBVIOUS
  <2>1. PICK n \in Bad : \A m \in Bad : n <= m
    <3>1. Bad \in SUBSET Nat
      OBVIOUS
    <3> HIDE DEF Bad
    <3> QED BY <3>1, LeastNat
  <2>2. CASE n = 0
    <3>1. PICK g : g = [i \in 0 .. 0 |-> r]
      OBVIOUS
    <3>2. Solves(g, 0)
      BY <3>1
    <3> QED BY <2>1, <2>2, <3>2
  <2>3. CASE n # 0
    <3>1. n - 1 \in Nat /\ n - 1 \notin Bad
      <4>1. n \in Nat
        BY <2>1
      <4> HIDE DEF Bad
      <4> QED BY <2>1, <2>3, <4>1
    <3>2. PICK g : Solves(g, n - 1)
      BY <3>1
    <3>3. PICK h : h = [i \in 0 .. n |-> IF i = n THEN LoadSegment(g[n - 1], image.segs[n], image) ELSE g[i]]
      OBVIOUS
    <3>4. Solves(h, n)
      <4> SUFFICES ASSUME NEW i \in 0 .. n
                   PROVE  h[i] = IF i = 0 THEN r ELSE LoadSegment(h[i - 1], image.segs[i], image)
        OBVIOUS
      <4>1. CASE i = n
        BY <2>3, <3>1, <3>3, <4>1
      <4>2. CASE i # n
        <5>1. i \in 0 .. n - 1 /\ (i # 0 => i - 1 \in 0 .. n - 1 /\ i - 1 # n /\ i - 1 \in 0 .. n)
          BY <3>1, <4>2
        <5>2. g[i] = IF i = 0 THEN r ELSE LoadSegment(g[i - 1], image.segs[i], image)
          BY <3>2, <5>1
        <5>3. h[i] = g[i] /\ (i # 0 => h[i - 1] = g[i - 1])
          BY <3>3, <4>2, <5>1
        <5> QED BY <5>2, <5>3
      <4> QED BY <4>1, <4>2
    <3> QED BY <2>1, <3>4
  <2> QED BY <2>2, <2>3
<1>2. PICK g : Solves(g, N)
  BY <1>1
<1>3. PICK f : f = [i \in 0 .. N |-> g[i]]
  OBVIOUS
<1>4. f = [i \in 0 .. N |-> IF i = 0 THEN r ELSE LoadSegment(f[i - 1], image.segs[i], image)]
  <2> SUFFICES ASSUME NEW i \in 0 .. N
               PROVE  f[i] = IF i = 0 THEN r ELSE LoadSegment(f[i - 1], image.segs[i], image)
    BY <1>3
  <2>1. i # 0 => i - 1 \in 0 .. N
    OBVIOUS
  <2> QED BY <1>2, <1>3, <2>1
<1> QED BY <1>4

LEMMA LoadSegmentsKept ==
  ASSUME NEW k, NEW r, Stocked(k, r), NEW image \in Images
  PROVE  Stocked(k, LoadSegments(r, image))
<1>1. PICK N \in Nat : N = Len(image.segs)
  BY ImagesAssumption
<1>2. PICK L : L = CHOOSE f : f = [i \in 0 .. Len(image.segs) |-> IF i = 0 THEN r ELSE LoadSegment(f[i - 1], image.segs[i], image)]
  OBVIOUS
<1>3. LoadSegments(r, image) = L[N]
  BY <1>1, <1>2 DEF LoadSegments
<1>4. L = [i \in 0 .. N |-> IF i = 0 THEN r ELSE LoadSegment(L[i - 1], image.segs[i], image)]
  BY <1>1, <1>2, LoadedExists
<1>5. \A i \in 1 .. N : image.segs[i] \in [vaddr : Nat, offset : Nat, filesz : Nat, memsz : Nat]
  <2>1. PICK Q : Q = [vaddr : Nat, offset : Nat, filesz : Nat, memsz : Nat]
    OBVIOUS
  <2>2. PICK t : t = image.segs
    OBVIOUS
  <2>3. t \in Seq(Q)
    BY <2>1, <2>2, ImagesAssumption
  <2>4. \A i \in 1 .. Len(t) : t[i] \in Q
    BY <2>3
  <2> QED BY <1>1, <2>1, <2>2, <2>4
<1> DEFINE Bad == {i \in 0 .. N : ~Stocked(k, L[i])}
<1>6. Bad = {}
  <2> SUFFICES ASSUME Bad # {} PROVE FALSE
    OBVIOUS
  <2>1. PICK n \in Bad : \A m \in Bad : n <= m
    <3>1. Bad \in SUBSET Nat
      OBVIOUS
    <3> HIDE DEF Bad
    <3> QED BY <3>1, LeastNat
  <2>2. CASE n = 0
    BY <1>4, <2>1, <2>2
  <2>3. CASE n # 0
    <3>1. n - 1 \in 0 .. N /\ n \in 1 .. N /\ n - 1 \notin Bad
      BY <2>1, <2>3
    <3>2. Stocked(k, L[n - 1])
      BY <3>1
    <3>3. L[n] = LoadSegment(L[n - 1], image.segs[n], image)
      BY <1>4, <2>3, <3>1
    <3>4. Stocked(k, L[n])
      BY <1>5, <3>1, <3>2, <3>3, LoadSegmentKept
    <3> QED BY <2>1, <3>4
  <2> QED BY <2>2, <2>3
<1>7. Stocked(k, L[N])
  BY <1>6
<1> QED BY <1>3, <1>7
-----------------------------------------------------------------------------
\* The regions with one watermark moved.
LEMMA MarkMoved ==
  ASSUME NEW k, NEW U, RegionsOk(k, U), NEW of \in 1 .. Len(U), NEW m \in Nat
  PROVE  LET V == [U EXCEPT ![of].mark = m] IN
         /\ V \in Seq(Region) /\ Len(V) = Len(U)
         /\ \A i \in 1 .. Len(U) : V[i] = IF i = of THEN [U[i] EXCEPT !.mark = m] ELSE U[i]
<1>1. U[of] \in Region
  BY RegionTyped
<1>2. PICK e : e = [U[of] EXCEPT !.mark = m]
  OBVIOUS
<1>3. PICK V : V = [U EXCEPT ![of] = e]
  OBVIOUS
<1>4. V = [U EXCEPT ![of].mark = m]
  BY <1>2, <1>3
<1>5. e \in Region
  BY <1>1, <1>2 DEF Region
<1>6. U \in Seq(Region)
  BY DEF RegionsOk
<1>7. V \in Seq(Region) /\ Len(V) = Len(U) /\ \A i \in 1 .. Len(U) : V[i] = IF i = of THEN e ELSE U[i]
  BY <1>3, <1>5, <1>6
<1> QED BY <1>2, <1>4, <1>7

\* Objects of a page each, from a page boundary on.
ObjectAt(a, i) == a + (i - 1) * PageBytes

LEMMA ObjectsInRow ==
  ASSUME NEW a \in Nat, a % PageBytes = 0, NEW n \in Nat, NEW i \in 1 .. n
  PROVE  /\ ObjectAt(a, i) \in Nat /\ ObjectAt(a, i) >= a /\ ObjectAt(a, i) + PageBytes <= a + n * PageBytes
         /\ ObjectAt(a, i) % PageBytes = 0
         /\ \A j \in 1 .. n : i # j => \/ ObjectAt(a, i) + PageBytes <= ObjectAt(a, j)
                                       \/ ObjectAt(a, j) + PageBytes <= ObjectAt(a, i)
<1>1. ObjectAt(a, i) \in Nat /\ ObjectAt(a, i) >= a /\ ObjectAt(a, i) + PageBytes <= a + n * PageBytes
  BY DEF ObjectAt, PageBytes
<1>2. ObjectAt(a, i) % PageBytes = 0
  BY DEF ObjectAt, PageBytes
<1>3. ASSUME NEW j \in 1 .. n, i # j
      PROVE  \/ ObjectAt(a, i) + PageBytes <= ObjectAt(a, j)
             \/ ObjectAt(a, j) + PageBytes <= ObjectAt(a, i)
  BY <1>3 DEF ObjectAt, PageBytes
<1> QED BY <1>1, <1>2, <1>3

\* The pieces of n objects, the i-th of which becomes region c + i when
\* they are regions.
Row(a, n, kind, of, c) ==
  {Use(ObjectAt(a, i), PageBytes, kind, of, IF kind = "Untyped" THEN c + i ELSE 0) : i \in 1 .. n}

LEMMA RowIsPieces ==
  ASSUME NEW k, NEW U, RegionsOk(k, U), NEW V, NEW of \in 1 .. Len(U), NEW m \in Nat, NEW a \in Nat, NEW n \in Nat,
         NEW kind,
         a % PageBytes = 0, a >= U[of].base + U[of].mark, a + n * PageBytes <= U[of].base + m,
         Len(V) = Len(U) + (IF kind = "Untyped" THEN n ELSE 0),
         \A i \in 1 .. n : kind = "Untyped" => V[Len(U) + i].base = ObjectAt(a, i) /\ V[Len(U) + i].size = PageBytes
  PROVE  Pieces(U, V, of, m, Row(a, n, kind, of, Len(U)))
<1>1. PICK b, h \in Nat : b = U[of].base /\ h = U[of].mark
  BY RegionTyped
<1>2. Len(U) \in Nat
  BY DEF RegionsOk
<1>3. PICK P : P = Row(a, n, kind, of, Len(U))
  OBVIOUS
<1>4. ASSUME NEW p \in P
      PROVE  \E i \in 1 .. n : /\ p = Use(ObjectAt(a, i), PageBytes, kind, of, IF kind = "Untyped" THEN Len(U) + i ELSE 0)
                               /\ p.lo = ObjectAt(a, i) /\ p.hi = ObjectAt(a, i) + PageBytes /\ p.of = of
                               /\ p.child = (IF kind = "Untyped" THEN Len(U) + i ELSE 0) /\ p.wrote = ObjectAt(a, i)
  <2>1. PICK i \in 1 .. n : p = Use(ObjectAt(a, i), PageBytes, kind, of, IF kind = "Untyped" THEN Len(U) + i ELSE 0)
    BY <1>3 DEF Row
  <2> QED BY <2>1, UseFields
<1>5. SiblingsApart(P)
  <2> SUFFICES ASSUME NEW u \in P, NEW v \in P, Overlap(u, v)
               PROVE  u = v
    BY DEF SiblingsApart
  <2>1. PICK i \in 1 .. n : /\ u = Use(ObjectAt(a, i), PageBytes, kind, of, IF kind = "Untyped" THEN Len(U) + i ELSE 0)
                            /\ u.lo = ObjectAt(a, i) /\ u.hi = ObjectAt(a, i) + PageBytes
    BY <1>4
  <2>2. PICK j \in 1 .. n : /\ v = Use(ObjectAt(a, j), PageBytes, kind, of, IF kind = "Untyped" THEN Len(U) + j ELSE 0)
                            /\ v.lo = ObjectAt(a, j) /\ v.hi = ObjectAt(a, j) + PageBytes
    BY <1>4
  <2>3. PICK x, y \in Nat : x = ObjectAt(a, i) /\ y = ObjectAt(a, j)
    BY ObjectsInRow
  <2>4. i # j => x + PageBytes <= y \/ y + PageBytes <= x
    BY <2>3, ObjectsInRow
  <2>5. x < y + PageBytes /\ y < x + PageBytes
    BY <2>1, <2>2, <2>3 DEF Overlap
  <2>6. i = j
    BY <2>4, <2>5 DEF PageBytes
  <2> QED BY <2>1, <2>2, <2>6
<1>6. ASSUME NEW p \in P
      PROVE  /\ p.lo \in Nat /\ p.hi \in Nat /\ p.of = of
             /\ p.lo >= b + h /\ p.hi <= b + m
             /\ p.lo % PageBytes = 0 /\ p.wrote <= p.hi
             /\ p.child = 0 \/ p.child \in Len(U) + 1 .. Len(V)
  <2>1. PICK i \in 1 .. n : /\ p.lo = ObjectAt(a, i) /\ p.hi = ObjectAt(a, i) + PageBytes /\ p.of = of
                            /\ p.child = (IF kind = "Untyped" THEN Len(U) + i ELSE 0) /\ p.wrote = ObjectAt(a, i)
    BY <1>4
  <2>2. PICK x \in Nat : x = ObjectAt(a, i) /\ x >= a /\ x + PageBytes <= a + n * PageBytes /\ x % PageBytes = 0
    BY ObjectsInRow
  <2>3. a >= b + h /\ a + n * PageBytes <= b + m
    BY <1>1
  <2>4. x >= b + h /\ x + PageBytes <= b + m /\ x <= x + PageBytes /\ x + PageBytes \in Nat
    <3>1. PICK y \in Nat : y = a + n * PageBytes /\ y <= b + m /\ x + PageBytes <= y
      BY <2>2, <2>3 DEF PageBytes
    <3>2. x >= a /\ a >= b + h
      BY <2>2, <2>3
    <3> QED BY <3>1, <3>2 DEF PageBytes
  <2>5. p.child = 0 \/ p.child \in Len(U) + 1 .. Len(V)
    BY <1>2, <2>1
  <2> QED BY <2>1, <2>2, <2>4, <2>5
<1>7. ASSUME NEW i \in Len(U) + 1 .. Len(V)
      PROVE  \E p \in P : p.child = i /\ p.lo = V[i].base /\ p.hi = V[i].base + V[i].size
  <2>1. PICK j \in 1 .. n : i = Len(U) + j /\ kind = "Untyped"
    <3>1. kind = "Untyped"
      BY <1>2
    <3>2. i - Len(U) \in 1 .. n /\ i = Len(U) + (i - Len(U))
      BY <1>2, <3>1
    <3> QED BY <3>1, <3>2
  <2>2. V[i].base = ObjectAt(a, j) /\ V[i].size = PageBytes
    BY <2>1
  <2>3. PICK p : p = Use(ObjectAt(a, j), PageBytes, kind, of, IF kind = "Untyped" THEN Len(U) + j ELSE 0)
    OBVIOUS
  <2>4. p \in P
    BY <1>3, <2>3 DEF Row
  <2>5. p.lo = ObjectAt(a, j) /\ p.hi = ObjectAt(a, j) + PageBytes /\ p.child = (IF kind = "Untyped" THEN Len(U) + j ELSE 0)
    BY <2>3, UseFields
  <2> QED BY <2>1, <2>2, <2>4, <2>5
<1> QED BY <1>1, <1>3, <1>5, <1>6, <1>7 DEF Pieces

LEMMA AtMostFacts ==
  ASSUME NEW a \in Nat, NEW b \in Nat
  PROVE  AtMost(a, b) \in Nat /\ AtMost(a, b) <= a /\ AtMost(a, b) <= b
  BY DEF AtMost

LEMMA RetypeKept ==
  ASSUME NEW k, NEW r, Stocked(k, r), NEW of \in 1 .. Len(r.untyped), NEW kind \in Kinds, NEW count \in Nat
  PROVE  Stocked(k, Retype(r, of, kind, count))
<1>1. PICK g : g = RetypeGrant(r.untyped[of], count)
  OBVIOUS
<1>2. CASE ~r.ok \/ ~g.ok
  BY <1>1, <1>2, KeptOk DEF Retype
<1>3. CASE r.ok /\ g.ok
  <2>1. PICK U : U = r.untyped
    OBVIOUS
  <2>2. RegionsOk(k, U) /\ Given(k, U, r.uses) /\ of \in 1 .. Len(U)
    BY <2>1 DEF Stocked, Given
  <2>3. U[of] \in Region /\ U[of].mark <= U[of].size
    BY <2>2, RegionTyped
  <2>4. g = Alloc(U[of], count * PageBytes)
    BY <1>1, <1>3, <2>1 DEF RetypeGrant
  <2>5. count * PageBytes \in Nat
    BY DEF PageBytes
  <2>6. /\ g.at \in Nat /\ g.mark \in Nat /\ g.at % PageBytes = 0
        /\ g.at >= U[of].base + U[of].mark /\ g.at + count * PageBytes <= U[of].base + g.mark
        /\ U[of].mark <= g.mark /\ g.mark <= U[of].size
    BY <1>3, <2>3, <2>4, <2>5, AllocFacts
  <2>7. PICK slots \in Nat : slots = CapSlots - r.caps
    BY ObjSizeAssumption DEF Stocked
  <2>8. PICK room \in Nat : room = RoomFor(r, kind) /\ (kind = "Untyped" => Len(U) + room <= RegionTable)
                            /\ (kind # "Untyped" => r.tables[kind] + room <= ObjectTable)
    <3>1. CASE kind = "Untyped"
      <4>1. Len(U) \in Nat /\ Len(U) <= RegionTable /\ RegionTable \in Nat
        BY <2>2, ObjSizeAssumption DEF RegionsOk
      <4>2. RoomFor(r, kind) = RegionTable - Len(U)
        BY <2>1, <3>1 DEF RoomFor
      <4>3. RegionTable - Len(U) \in Nat /\ Len(U) + (RegionTable - Len(U)) <= RegionTable
        BY <4>1
      <4> QED BY <3>1, <4>2, <4>3
    <3>2. CASE kind # "Untyped"
      <4>1. r.tables[kind] \in 0 .. ObjectTable
        BY <3>2 DEF Stocked
      <4> QED BY <3>2, <4>1, ObjSizeAssumption DEF RoomFor
    <3> QED BY <3>1, <3>2
  <2>9. PICK n \in Nat : n = AtMost(count, AtMost(RoomFor(r, kind), slots + 1)) /\ n <= count /\ n <= room
    <3>1. PICK t \in Nat : t = AtMost(room, slots + 1) /\ t <= room
      <4>1. slots + 1 \in Nat
        OBVIOUS
      <4>2. AtMost(room, slots + 1) \in Nat /\ AtMost(room, slots + 1) <= room
        BY <4>1, AtMostFacts
      <4> QED BY <4>2
    <3>2. AtMost(count, t) \in Nat /\ AtMost(count, t) <= count /\ AtMost(count, t) <= t
      BY AtMostFacts
    <3> QED BY <2>8, <3>1, <3>2
  <2>11. PICK M, E : /\ M = [U EXCEPT ![of].mark = g.mark]
                     /\ E = [i \in 1 .. n |-> [base |-> ObjectAt(g.at, i), size |-> PageBytes, mark |-> 0]]
    OBVIOUS
  <2>12. PICK V : V = IF kind = "Untyped" THEN M \o E ELSE M
    OBVIOUS
  <2>13. /\ M \in Seq(Region) /\ Len(M) = Len(U)
         /\ \A i \in 1 .. Len(U) : M[i] = IF i = of THEN [U[i] EXCEPT !.mark = g.mark] ELSE U[i]
    BY <2>2, <2>6, <2>11, MarkMoved
  <2>14. /\ E \in Seq(Region) /\ Len(E) = n
         /\ \A i \in 1 .. n : E[i].base = ObjectAt(g.at, i) /\ E[i].size = PageBytes /\ E[i].mark = 0
    <3>1. \A i \in 1 .. n : ObjectAt(g.at, i) \in Nat
      BY <2>6, ObjectsInRow
    <3>2. \A i \in 1 .. n : [base |-> ObjectAt(g.at, i), size |-> PageBytes, mark |-> 0] \in Region
      BY <3>1 DEF Region, PageBytes
    <3>3. E \in [1 .. n -> Region]
      BY <2>11, <3>2
    <3>4. E \in Seq(Region) /\ Len(E) = n
      BY <3>3
    <3>5. ASSUME NEW i \in 1 .. n
          PROVE  E[i].base = ObjectAt(g.at, i) /\ E[i].size = PageBytes /\ E[i].mark = 0
      <4>1. E[i] = [base |-> ObjectAt(g.at, i), size |-> PageBytes, mark |-> 0]
        BY <2>11
      <4> QED BY <4>1
    <3> QED BY <3>4, <3>5
  <2>15. /\ V \in Seq(Region) /\ Len(V) = Len(U) + (IF kind = "Untyped" THEN n ELSE 0)
         /\ \A i \in 1 .. Len(U) : V[i] = M[i]
         /\ \A i \in 1 .. n : kind = "Untyped" => V[Len(U) + i] = E[i]
    <3>1. CASE kind = "Untyped"
      <4>1. V = M \o E
        BY <2>12, <3>1
      <4>2. V \in Seq(Region) /\ Len(V) = Len(M) + Len(E)
            /\ \A i \in 1 .. Len(M) + Len(E) : V[i] = IF i <= Len(M) THEN M[i] ELSE E[i - Len(M)]
        <5>1. M \in Seq(Region) /\ E \in Seq(Region)
          BY <2>13, <2>14
        <5>2. /\ M \o E \in Seq(Region) /\ Len(M \o E) = Len(M) + Len(E)
              /\ \A i \in 1 .. Len(M) + Len(E) : (M \o E)[i] = IF i <= Len(M) THEN M[i] ELSE E[i - Len(M)]
          BY <5>1, ConcatProperties
        <5> QED BY <4>1, <5>2
      <4>3. Len(U) \in Nat
        BY <2>2 DEF RegionsOk
      <4>4. \A i \in 1 .. Len(U) : V[i] = M[i]
        BY <2>13, <2>14, <4>2, <4>3
      <4>5. \A i \in 1 .. n : V[Len(U) + i] = E[i]
        <5> SUFFICES ASSUME NEW i \in 1 .. n PROVE V[Len(U) + i] = E[i]
          OBVIOUS
        <5>1. Len(U) + i \in 1 .. Len(M) + Len(E) /\ ~(Len(U) + i <= Len(M)) /\ (Len(U) + i) - Len(M) = i
          BY <2>13, <2>14, <4>3
        <5> QED BY <4>2, <5>1
      <4> QED BY <2>13, <2>14, <3>1, <4>2, <4>4, <4>5
    <3>2. CASE kind # "Untyped"
      <4>1. V = M /\ Len(U) \in Nat
        BY <2>2, <2>12, <3>2 DEF RegionsOk
      <4> QED BY <2>13, <3>2, <4>1
    <3> QED BY <3>1, <3>2
  <2>16. Len(U) \in Nat /\ Len(U) <= RegionTable /\ Len(V) \in Nat
    BY <2>2, <2>15 DEF RegionsOk
  <2>17. Grown(U, V, of, g.mark)
    <3>1. Len(U) <= Len(V) /\ Len(V) <= RegionTable
      <4>1. CASE kind = "Untyped"
        BY <2>8, <2>9, <2>15, <2>16, <4>1, ObjSizeAssumption
      <4>2. CASE kind # "Untyped"
        BY <2>15, <2>16, <4>2, ObjSizeAssumption
      <4> QED BY <4>1, <4>2
    <3>2. \A i \in 1 .. Len(U) : V[i] = IF i = of THEN [U[i] EXCEPT !.mark = g.mark] ELSE U[i]
      BY <2>13, <2>15
    <3>3. ASSUME NEW i \in Len(U) + 1 .. Len(V)
          PROVE  V[i].mark <= V[i].size
      <4>1. PICK j \in 1 .. n : i = Len(U) + j /\ kind = "Untyped"
        <5>1. kind = "Untyped"
          BY <2>15, <2>16
        <5>2. i - Len(U) \in 1 .. n /\ i = Len(U) + (i - Len(U))
          BY <2>15, <2>16, <5>1
        <5> QED BY <5>1, <5>2
      <4>2. V[i].mark = 0 /\ V[i].size = PageBytes
        BY <2>14, <2>15, <4>1
      <4> QED BY <4>2 DEF PageBytes
    <3> QED BY <2>2, <2>6, <2>15, <3>1, <3>2, <3>3 DEF Grown
  <2>18. PICK P : P = Row(g.at, n, kind, of, Len(U))
    OBVIOUS
  <2>19. Pieces(U, V, of, g.mark, P)
    <3>1. g.at + n * PageBytes <= U[of].base + g.mark
      <4>1. PICK b \in Nat : b = U[of].base
        BY <2>2, RegionTyped
      <4>2. g.at + n * PageBytes <= g.at + count * PageBytes
        BY <2>6, <2>9 DEF PageBytes
      <4>3. g.at + count * PageBytes <= b + g.mark /\ g.at + n * PageBytes \in Nat
        BY <2>6, <4>1 DEF PageBytes
      <4> QED BY <2>5, <2>6, <4>1, <4>2, <4>3
    <3>2. \A i \in 1 .. n : kind = "Untyped" => V[Len(U) + i].base = ObjectAt(g.at, i) /\ V[Len(U) + i].size = PageBytes
      BY <2>14, <2>15
    <3> QED BY <2>2, <2>6, <2>15, <2>18, <3>1, <3>2, RowIsPieces
  <2>20. Given(k, V, r.uses \union P)
    BY <2>2, <2>17, <2>19, GivenGrows
  <2>21. PICK T : T = IF kind = "Untyped" THEN r.tables ELSE [r.tables EXCEPT ![kind] = @ + n]
    OBVIOUS
  <2>22. T \in [Kinds \ {"Untyped"} -> 0 .. ObjectTable]
    <3>1. r.tables \in [Kinds \ {"Untyped"} -> 0 .. ObjectTable]
      BY DEF Stocked
    <3>2. CASE kind = "Untyped"
      BY <2>21, <3>1, <3>2
    <3>3. CASE kind # "Untyped"
      <4>1. r.tables[kind] \in 0 .. ObjectTable
        BY <3>1, <3>3
      <4>2. r.tables[kind] + n \in 0 .. ObjectTable
        BY <2>8, <2>9, <3>3, <4>1, ObjSizeAssumption
      <4> QED BY <2>21, <3>1, <3>3, <4>2
    <3> QED BY <3>2, <3>3
  <2>23. PICK c : c = r.caps + AtMost(n, slots)
    OBVIOUS
  <2>24. c \in 0 .. CapSlots
    <3>1. AtMost(n, slots) \in Nat /\ AtMost(n, slots) <= slots
      BY AtMostFacts
    <3>2. r.caps \in 0 .. CapSlots
      BY DEF Stocked
    <3> QED BY <2>7, <2>23, <3>1, <3>2, ObjSizeAssumption
  <2>25. PICK z, ok : z = Retype(r, of, kind, count) /\ ok = (n = count /\ count <= slots)
    OBVIOUS
  <2>26. z = [ok |-> ok, untyped |-> V, uses |-> r.uses \union P, tables |-> T, caps |-> c]
    <3>1. Retype(r, of, kind, count) =
           [ok      |-> n = count /\ count <= slots,
            untyped |-> IF kind = "Untyped"
                        THEN [r.untyped EXCEPT ![of].mark = g.mark] \o [i \in 1 .. n |-> [base |-> ObjectAt(g.at, i), size |-> PageBytes, mark |-> 0]]
                        ELSE [r.untyped EXCEPT ![of].mark = g.mark],
            uses    |-> r.uses \union Row(g.at, n, kind, of, Len(r.untyped)),
            tables  |-> IF kind = "Untyped" THEN r.tables ELSE [r.tables EXCEPT ![kind] = @ + n],
            caps    |-> r.caps + AtMost(n, slots)]
      <4>1. r.ok /\ g.ok /\ g = RetypeGrant(r.untyped[of], count) /\ slots = CapSlots - r.caps
            /\ n = AtMost(count, AtMost(RoomFor(r, kind), slots + 1))
        BY <1>1, <1>3, <2>7, <2>9
      <4> QED BY <4>1, Zenon DEF Retype, Row, ObjectAt
    <3> QED BY <2>1, <2>11, <2>12, <2>18, <2>21, <2>23, <2>25, <3>1, Zenon
  <2>27. ok \in BOOLEAN
    BY <2>25
  <2> QED BY <2>20, <2>22, <2>24, <2>25, <2>26, <2>27 DEF Stocked
<1> QED BY <1>2, <1>3
-----------------------------------------------------------------------------
GivenInv ==
  /\ \E k \in Nat : Given(k, untyped, uses)
  /\ tables \in [Kinds \ {"Untyped"} -> 0 .. ObjectTable] /\ caps \in 0 .. CapSlots

LEMMA NowKept ==
  ASSUME GivenInv
  PROVE  \E k \in Nat : Stocked(k, Now)
<1>1. PICK k \in Nat : Given(k, untyped, uses)
  BY DEF GivenInv
<1>2. PICK r : r = Now
  OBVIOUS
<1>3. r = [ok |-> TRUE, untyped |-> untyped, uses |-> uses, tables |-> tables, caps |-> caps]
  BY <1>2 DEF Now
<1>4. Stocked(k, r)
  BY <1>1, <1>3 DEF Stocked, GivenInv
<1> QED BY <1>2, <1>4

LEMMA BecomeKept ==
  ASSUME NEW k \in Nat, NEW r, Stocked(k, r), Become(r)
  PROVE  GivenInv'
  BY DEF Become, Stocked, GivenInv

\* A state that also fails for a reason of its own.
LEMMA KeptAnd ==
  ASSUME NEW k, NEW r, Stocked(k, r), NEW c
  PROVE  Stocked(k, [r EXCEPT !.ok = @ /\ c])
<1>1. PICK b \in BOOLEAN : b = (r.ok /\ c)
  OBVIOUS
<1>2. [r EXCEPT !.ok = @ /\ c] = [r EXCEPT !.ok = b]
  BY <1>1
<1> QED BY <1>2, KeptOk

LEMMA KindsOfTables ==
  /\ "PageTable" \in Kinds \ {"Untyped"} /\ "CapabilitySpace" \in Kinds \ {"Untyped"}
  /\ "ThreadControlBlock" \in Kinds \ {"Untyped"} /\ "Endpoint" \in Kinds /\ "Untyped" \in Kinds
  BY DEF Kinds

LEMMA PageSizes == PageBytes \in Nat /\ 2 * PageBytes \in Nat
  BY DEF PageBytes

\* Retyping the first region, which there always is.
LEMMA RetypeFirst ==
  ASSUME NEW k, NEW r, Stocked(k, r), NEW kind \in Kinds
  PROVE  Stocked(k, Retype(r, 1, kind, 1))
<1>1. 1 \in 1 .. Len(r.untyped)
  BY DEF Stocked, Given, RegionsOk
<1> QED BY <1>1, RetypeKept

LEMMA DemoKept ==
  ASSUME NEW k, NEW r, Stocked(k, r)
  PROVE  Stocked(k, InKernelDemo(r))
<1>1. ASSUME NEW q, Stocked(k, q) PROVE Stocked(k, DemoThreads(q))
  <2>1. PICK ep : ep = Retype(q, 1, "Endpoint", 1)
    OBVIOUS
  <2>2. PICK z : z = [ep EXCEPT !.ok = @ /\ ep.caps + 2 <= CapSlots]
    OBVIOUS
  <2>3. Stocked(k, ep)
    BY <1>1, <2>1, RetypeFirst, KindsOfTables
  <2>4. Stocked(k, z)
    BY <2>2, <2>3, KeptAnd
  <2>5. Stocked(k, Retype(z, 1, "ThreadControlBlock", 1))
    BY <2>4, RetypeFirst, KindsOfTables
  <2> QED BY <2>1, <2>2, <2>5 DEF DemoThreads
<1>2. ASSUME NEW q, Stocked(k, q) PROVE Stocked(k, DemoBench(q))
  <2>1. Stocked(k, Retype(q, 1, "ThreadControlBlock", 1))
    BY <1>2, RetypeFirst, KindsOfTables
  <2>2. q.ok \in BOOLEAN
    BY <1>2, KeptIsBoolean
  <2> QED BY <2>1, <2>2, KeptOk DEF DemoBench
<1>3. ASSUME NEW q, Stocked(k, q) PROVE Stocked(k, DemoSpaces(q))
  <2>1. PICK f : f = Retype(q, 1, "Untyped", 1)
    OBVIOUS
  <2>2. Stocked(k, f)
    BY <1>3, <2>1, RetypeFirst, KindsOfTables
  <2>3. PICK x : x = CarveNext(f, PageBytes, "root table")
    OBVIOUS
  <2>4. Stocked(k, x)
    BY <2>2, <2>3, CarveKept, PageSizes
  <2>5. PICK y : y = CarveNext(x, PageBytes, "root table")
    OBVIOUS
  <2>6. Stocked(k, y)
    BY <2>4, <2>5, CarveKept, PageSizes
  <2>7. PICK z : z = CarveNext(y, PageBytes, "table pool")
    OBVIOUS
  <2>8. Stocked(k, z)
    BY <2>6, <2>7, CarveKept, PageSizes
  <2>9. q.ok \in BOOLEAN
    BY <1>3, KeptIsBoolean
  <2>10. DemoSpaces(q) = [z EXCEPT !.ok = q.ok]
    BY <2>1, <2>3, <2>5, <2>7 DEF DemoSpaces
  <2> QED BY <2>8, <2>9, <2>10, KeptOk
<1>4. Stocked(k, DemoThreads(r))
  BY <1>1
<1>5. Stocked(k, DemoBench(DemoThreads(r)))
  BY <1>2, <1>4
<1>6. Stocked(k, DemoSpaces(DemoBench(DemoThreads(r))))
  BY <1>3, <1>5
<1> QED BY <1>6 DEF InKernelDemo

LEMMA SetupKept ==
  ASSUME NEW k, NEW r, Stocked(k, r), NEW mapped \in BOOLEAN
  PROVE  Stocked(k, SetupTwoProcess(r, mapped))
<1>1. PICK w : w = Carve(r, PageBytes, "shared")
  OBVIOUS
<1>2. Stocked(k, w)
  BY <1>1, CarveKept, PageSizes
<1>3. PICK x : x = CarveAnyway(w, 2 * PageBytes, "root table")
  OBVIOUS
<1>4. Stocked(k, x)
  BY <1>2, <1>3, CarveKept, PageSizes
<1>5. PICK y : y = CarveAnyway(x, PageBytes, "table pool")
  OBVIOUS
<1>6. Stocked(k, y)
  BY <1>4, <1>5, CarveKept, PageSizes
<1>7. PICK z : z = CarveAnyway(y, PageBytes, "stack")
  OBVIOUS
<1>8. Stocked(k, z)
  BY <1>6, <1>7, CarveKept, PageSizes
<1>9. PICK a : a = [z EXCEPT !.ok = @ /\ mapped]
  OBVIOUS
<1>10. Stocked(k, a)
  BY <1>8, <1>9, KeptAnd
<1>11. Stocked(k, TakeEntry(TakeEntry(a, "PageTable"), "ThreadControlBlock"))
  BY <1>10, TakeEntryKept, KindsOfTables
<1>12. SetupTwoProcess(r, mapped) = TakeEntry(TakeEntry(a, "PageTable"), "ThreadControlBlock")
  BY <1>1, <1>3, <1>5, <1>7, <1>9 DEF SetupTwoProcess
<1> QED BY <1>11, <1>12

\* The frames that both spawns begin with.
LEMMA FramesKept ==
  ASSUME NEW k, NEW r, Stocked(k, r)
  PROVE  Stocked(k, CarveNext(CarveNext(CarveNext(r, 2 * PageBytes, "root table"), PageBytes, "table pool"),
                           PageBytes, "stack"))
<1>1. Stocked(k, CarveNext(r, 2 * PageBytes, "root table"))
  BY CarveKept, PageSizes
<1>2. Stocked(k, CarveNext(CarveNext(r, 2 * PageBytes, "root table"), PageBytes, "table pool"))
  BY <1>1, CarveKept, PageSizes
<1> QED BY <1>2, CarveKept, PageSizes

LEMMA TakeProcessKept ==
  ASSUME NEW k, NEW r, Stocked(k, r), NEW mapped
  PROVE  Stocked(k, TakeProcess([r EXCEPT !.ok = @ /\ mapped]))
<1>1. PICK q : q = [r EXCEPT !.ok = @ /\ mapped]
  OBVIOUS
<1>2. Stocked(k, q)
  BY <1>1, KeptAnd
<1>3. Stocked(k, TakeEntry(q, "PageTable"))
  BY <1>2, TakeEntryKept, KindsOfTables
<1>4. Stocked(k, TakeEntry(TakeEntry(q, "PageTable"), "CapabilitySpace"))
  BY <1>3, TakeEntryKept, KindsOfTables
<1>5. Stocked(k, TakeEntry(TakeEntry(TakeEntry(q, "PageTable"), "CapabilitySpace"), "ThreadControlBlock"))
  BY <1>4, TakeEntryKept, KindsOfTables
<1> QED BY <1>1, <1>5 DEF TakeProcess

LEMMA EnterKeeps ==
  ASSUME GivenInv, NEW m \in BOOLEAN, NEW n \in BOOLEAN, Enter(m, n)
  PROVE  GivenInv'
<1>1. PICK k \in Nat : Stocked(k, Now)
  BY NowKept
<1>2. PICK s : s = InKernelDemo(Now)
  OBVIOUS
<1>3. Stocked(k, s)
  BY <1>1, <1>2, DemoKept
<1>4. PICK t : t = Carve(s, 2 * PageBytes, "root table")
  OBVIOUS
<1>5. Stocked(k, t)
  BY <1>3, <1>4, CarveKept, PageSizes
<1>6. PICK p : p = CarveAnyway(t, PageBytes, "table pool")
  OBVIOUS
<1>7. Stocked(k, p)
  BY <1>5, <1>6, CarveKept, PageSizes
<1>8. PICK y : y = CarveNext(p, PageBytes, "map pool")
  OBVIOUS
<1>9. Stocked(k, y)
  BY <1>7, <1>8, CarveKept, PageSizes
<1>10. Stocked(k, SetupTwoProcess(y, n))
  BY <1>9, SetupKept
<1>11. Become(s) \/ Become(y) \/ Become(SetupTwoProcess(y, n))
  BY <1>2, <1>4, <1>6, <1>8, Zenon DEF Enter
<1> QED BY <1>3, <1>9, <1>10, <1>11, BecomeKept

LEMMA GivenInvInit == ObjInit => GivenInv
<1> SUFFICES ASSUME ObjInit PROVE GivenInv
  OBVIOUS
<1>1. PICK rs \in Regions :
       /\ untyped = [i \in DOMAIN rs |-> [base |-> rs[i].base, size |-> rs[i].size, mark |-> 0]]
       /\ caps = Len(rs)
  BY DEF ObjInit
<1>2. /\ rs \in Seq([base : Nat, size : Nat]) /\ Len(rs) \in 1 .. RegionTable /\ Len(rs) <= CapSlots
      /\ \A i, j \in 1 .. Len(rs) :
           i < j => \/ rs[i].base + rs[i].size <= rs[j].base
                    \/ rs[j].base + rs[j].size <= rs[i].base
  BY RegionsAssumption
<1>3. PICK k \in Nat : k = Len(rs) /\ 1 <= k /\ k <= RegionTable /\ k <= CapSlots
  BY <1>2, ObjSizeAssumption
<1>4. ASSUME NEW i \in 1 .. k
      PROVE  rs[i].base \in Nat /\ rs[i].size \in Nat
  <2>1. PICK Q : Q = [base : Nat, size : Nat]
    OBVIOUS
  <2>2. rs \in Seq(Q) /\ i \in 1 .. Len(rs)
    BY <1>2, <1>3, <2>1
  <2>3. rs[i] \in Q
    BY <2>2
  <2> QED BY <2>1, <2>3
<1>5. DOMAIN rs = 1 .. k
  BY <1>2, <1>3
<1>6. untyped \in Seq(Region) /\ Len(untyped) = k
      /\ \A i \in 1 .. k : untyped[i].base = rs[i].base /\ untyped[i].size = rs[i].size /\ untyped[i].mark = 0
  <2>1. \A i \in 1 .. k : [base |-> rs[i].base, size |-> rs[i].size, mark |-> 0] \in Region
    BY <1>4 DEF Region
  <2>2. untyped \in [1 .. k -> Region]
    BY <1>1, <1>5, <2>1
  <2>3. untyped \in Seq(Region) /\ Len(untyped) = k
    BY <2>2
  <2>4. ASSUME NEW i \in 1 .. k
        PROVE  untyped[i].base = rs[i].base /\ untyped[i].size = rs[i].size /\ untyped[i].mark = 0
    <3>1. untyped[i] = [base |-> rs[i].base, size |-> rs[i].size, mark |-> 0]
      BY <1>1, <1>5
    <3> QED BY <3>1
  <2> QED BY <2>3, <2>4
<1>7. RegionsOk(k, untyped)
  <2>1. \A i \in 1 .. Len(untyped) : untyped[i].mark <= untyped[i].size
    BY <1>4, <1>6
  <2> QED BY <1>3, <1>6, <2>1 DEF RegionsOk
<1>8. RootsApart(k, untyped)
  BY <1>2, <1>3, <1>6 DEF RootsApart
<1>9. uses = {}
  BY DEF ObjInit
<1>10. Founded(k, untyped, uses)
  <2>1. k + 1 .. Len(untyped) = {}
    BY <1>6
  <2> QED BY <2>1 DEF Founded
<1>11. Given(k, untyped, uses)
  BY <1>7, <1>8, <1>9, <1>10 DEF Given, SiblingsApart
<1>12. caps \in 0 .. CapSlots
  BY <1>1, <1>3, ObjSizeAssumption
<1>13. tables \in [Kinds \ {"Untyped"} -> 0 .. ObjectTable]
  <2>1. 0 \in 0 .. ObjectTable /\ 1 \in 0 .. ObjectTable
    BY ObjSizeAssumption
  <2>2. \A c \in Kinds \ {"Untyped"} :
          (IF c \in {"PageTable", "CapabilitySpace", "ThreadControlBlock"} THEN 1 ELSE 0) \in 0 .. ObjectTable
    BY <2>1
  <2> QED BY <2>2 DEF ObjInit
<1> QED BY <1>11, <1>12, <1>13 DEF GivenInv

LEMMA GivenInvNext == GivenInv /\ [ObjNext]_objVars => GivenInv'
<1> SUFFICES ASSUME GivenInv, [ObjNext]_objVars PROVE GivenInv'
  OBVIOUS
<1>1. PICK k \in Nat : Stocked(k, Now)
  BY NowKept
<1>2. CASE \E m, n \in BOOLEAN : Enter(m, n)
  BY <1>2, EnterKeeps
<1>3. ASSUME NEW m \in BOOLEAN, SpawnProcess(m) PROVE GivenInv'
  <2>1. PICK c : c = CarveNext(CarveNext(CarveNext(Now, 2 * PageBytes, "root table"),
                                         PageBytes, "table pool"), PageBytes, "stack")
    OBVIOUS
  <2>2. Stocked(k, c)
    BY <1>1, <2>1, FramesKept
  <2>3. Become(TakeProcess([c EXCEPT !.ok = @ /\ m]))
    BY <1>3, <2>1 DEF SpawnProcess
  <2> QED BY <2>2, <2>3, TakeProcessKept, BecomeKept
<1>4. ASSUME NEW image \in Images, NEW m \in BOOLEAN, SpawnProcessFromElf(image, m) PROVE GivenInv'
  <2>1. PICK c : c = CarveNext(CarveNext(CarveNext(Now, 2 * PageBytes, "root table"),
                                         PageBytes, "table pool"), PageBytes, "stack")
    OBVIOUS
  <2>2. Stocked(k, c)
    BY <1>1, <2>1, FramesKept
  <2>3. PICK l : l = LoadSegments(c, image)
    OBVIOUS
  <2>4. Stocked(k, l)
    BY <2>2, <2>3, LoadSegmentsKept
  <2>5. Become(TakeProcess([l EXCEPT !.ok = @ /\ m]))
    BY <1>4, <2>1, <2>3 DEF SpawnProcessFromElf
  <2> QED BY <2>4, <2>5, TakeProcessKept, BecomeKept
<1>5. ASSUME NEW of \in 1 .. Len(untyped), NEW c \in RetypeKinds, NEW n \in 0 .. MaxRetype, DoRetype(of, c, n)
      PROVE  GivenInv'
  <2>1. Become(Retype(Now, of, c, n))
    BY <1>5 DEF DoRetype
  <2>2. c \in Kinds /\ n \in Nat /\ of \in 1 .. Len(Now.untyped)
    BY ObjSizeAssumption DEF Now
  <2>3. Stocked(k, Retype(Now, of, c, n))
    BY <1>1, <2>2, RetypeKept
  <2> QED BY <2>1, <2>3, BecomeKept
<1>6. CASE UNCHANGED objVars
  BY <1>6 DEF GivenInv, objVars
<1> QED BY <1>2, <1>3, <1>4, <1>5, <1>6 DEF ObjNext

(***************************************************************************)
(* No byte of physical memory is given out twice, for any regions the boot *)
(* leaves, any images and tables of any size: whatever fails half way, two *)
(* pieces overlap only if one became the region that the other was carved  *)
(* from, and every piece lies on pages below its region's watermark.       *)
(***************************************************************************)
THEOREM MemoryGivenOnce == ObjSpec => []NoDoubleUse
<1>1. ObjSpec => []GivenInv
  BY GivenInvInit, GivenInvNext, PTL DEF ObjSpec
<1>2. GivenInv => NoDoubleUse
  BY GivenIsSafe DEF GivenInv
<1> QED BY <1>1, <1>2, PTL
=============================================================================
