--------------------------- MODULE KernelObjects ---------------------------
(***************************************************************************)
(* How the kernel gives physical memory out: UntypedMemory's watermark,    *)
(* the Retype syscall, and the frames that entering user mode and spawning *)
(* processes carve out of the first untyped region.  Nothing is ever given *)
(* back: a call that fails half way keeps what it took.                    *)
(*                                                                         *)
(* Addresses count half pages.  Whether a mapping fits its table pool is   *)
(* PageTables' subject and a free choice here.                             *)
(***************************************************************************)
EXTENDS Naturals, Sequences, FiniteSets

CONSTANTS
  AddrTop,        \* addresses end here: a sum beyond it overflows
  RegionTable,    \* MAX_UNTYPED
  ObjectTable,    \* entries of each of the other object tables
  CapSlots,       \* slots of the root capability space
  Regions,        \* the untyped regions a boot may leave: sequences of [base, size]
  Images,         \* the ELF images a process may be spawned from
  RetypeKinds,    \* bound: what the Retype syscall is asked for
  MaxRetype       \* bound: and how many of it

\* The boot leaves at least one region and a slot for each, and no two of them
\* overlap: they are the fragments of the usable memory (BootMemory).
ASSUME RegionsAssumption ==
  \A rs \in Regions :
    /\ rs \in Seq([base : Nat, size : Nat]) /\ Len(rs) \in 1 .. RegionTable /\ Len(rs) <= CapSlots
    /\ \A i, j \in 1 .. Len(rs) :
         i < j => \/ rs[i].base + rs[i].size <= rs[j].base
                 \/ rs[j].base + rs[j].size <= rs[i].base

\* Whatever the numbers in an image's headers are.
ASSUME ImagesAssumption ==
  \A image \in Images :
    image.len \in Nat /\ image.segs \in Seq([vaddr : Nat, offset : Nat, filesz : Nat, memsz : Nat])

VARIABLES
  phase,      \* "entering", "running" or "halted"
  untyped,    \* the untyped table: base, size and watermark
  uses,       \* what memory was given out: range, purpose, the region it is of
  tables,     \* entries taken of the other object tables
  caps        \* slots taken of the root capability space

objVars == <<phase, untyped, uses, tables, caps>>

PageBytes == 2
RoundUp(n) == ((n + PageBytes - 1) \div PageBytes) * PageBytes

Kinds == {"Endpoint", "Notification", "PageTable", "CapabilitySpace", "ThreadControlBlock",
          "Untyped", "SharedRegion"}

ASSUME ObjSizeAssumption ==
  /\ AddrTop \in Nat /\ RegionTable \in Nat /\ ObjectTable \in Nat \ {0} /\ CapSlots \in Nat
  /\ RetypeKinds \subseteq Kinds /\ MaxRetype \in Nat
-----------------------------------------------------------------------------
\* UntypedMemory::alloc, page-aligned: the address and the new watermark.
\* mutant of Alloc: the watermark leaves the alignment gap out
AllocWithoutGap(u, bytes) ==
  LET at == RoundUp(u.base + u.mark)
  IN IF at > AddrTop \/ at + bytes > AddrTop \/ u.base + u.size > AddrTop THEN [ok |-> FALSE]
     ELSE IF at + bytes > u.base + u.size THEN [ok |-> FALSE]
     ELSE [ok |-> TRUE, at |-> at, mark |-> u.mark + bytes]

Alloc(u, bytes) ==
  LET at == RoundUp(u.base + u.mark)
  IN IF at > AddrTop \/ at + bytes > AddrTop \/ u.base + u.size > AddrTop THEN [ok |-> FALSE]
     ELSE IF at + bytes > u.base + u.size THEN [ok |-> FALSE]
     ELSE [ok |-> TRUE, at |-> at, mark |-> at + bytes - u.base]

\* UntypedMemory::retype: count objects of a page each.
RetypeGrant(u, count) == IF count = 0 THEN [ok |-> FALSE] ELSE Alloc(u, count * PageBytes)

\* A piece given out; `wrote` is how far the kernel itself fills it.
Use(lo, bytes, purpose, of, child) ==
  [lo |-> lo, hi |-> lo + bytes, purpose |-> purpose, of |-> of, child |-> child, wrote |-> lo]

\* Entries that are left in the table of a kind of objects.
RoomFor(r, kind) ==
  IF kind = "Untyped" THEN RegionTable - Len(r.untyped) ELSE ObjectTable - r.tables[kind]

AtMost(a, b) == IF a <= b THEN a ELSE b

\* do_retype: the watermark moves first and stays, whatever fails later.  Each
\* object then takes an entry of its table and a slot, until one is refused: a
\* full table ends the loop before the object, a full capability space leaves
\* its entry taken.
Retype(r, of, kind, count) ==
  LET grant  == RetypeGrant(r.untyped[of], count)
      slots  == CapSlots - r.caps
      made   == AtMost(count, AtMost(RoomFor(r, kind), slots + 1))
      At(i)  == grant.at + (i - 1) * PageBytes
      marked == [r.untyped EXCEPT ![of].mark = grant.mark]
      Child(i) == IF kind = "Untyped" THEN Len(r.untyped) + i ELSE 0
  IN IF ~r.ok \/ ~grant.ok THEN [r EXCEPT !.ok = FALSE]
     ELSE [ok      |-> made = count /\ count <= slots,
           untyped |-> IF kind = "Untyped"
                       THEN marked \o [i \in 1 .. made |-> [base |-> At(i), size |-> PageBytes, mark |-> 0]]
                       ELSE marked,
           uses    |-> r.uses \cup {Use(At(i), PageBytes, kind, of, Child(i)) : i \in 1 .. made},
           tables  |-> IF kind = "Untyped" THEN r.tables ELSE [r.tables EXCEPT ![kind] = @ + made],
           caps    |-> r.caps + AtMost(made, slots)]

Now == [ok |-> TRUE, untyped |-> untyped, uses |-> uses, tables |-> tables, caps |-> caps]

Become(r) == untyped' = r.untyped /\ uses' = r.uses /\ tables' = r.tables /\ caps' = r.caps

\* The Retype syscall.
DoRetype(of, kind, count) ==
  /\ phase = "running"
  /\ Become(Retype(Now, of, kind, count))
  /\ UNCHANGED phase
-----------------------------------------------------------------------------
\* carve: frames of the first region.  After a failure `?` carves no more.
Carve(r, bytes, purpose) ==
  LET got == Alloc(r.untyped[1], bytes)
  IN IF ~got.ok THEN [r EXCEPT !.ok = FALSE]
     ELSE [r EXCEPT !.untyped[1].mark = got.mark,
                    !.uses = @ \cup {Use(got.at, bytes, purpose, 1, 0)}]

CarveNext(r, bytes, purpose) == IF r.ok THEN Carve(r, bytes, purpose) ELSE r

\* An entry of an object table, or failure.
TakeEntry(r, kind) ==
  IF ~r.ok \/ r.tables[kind] = ObjectTable THEN [r EXCEPT !.ok = FALSE]
  ELSE [r EXCEPT !.tables[kind] = @ + 1]

\* A carve that is tried after a failed one too; they fail together.
CarveAnyway(r, bytes, purpose) ==
  [Carve([r EXCEPT !.ok = TRUE], bytes, purpose) EXCEPT !.ok = @ /\ r.ok]

\* setup_two_process: all four carves are tried; a failed one, a failed mapping
\* or a full table leaves the single process.
SetupTwoProcess(r, mapped) ==
  LET shared == Carve(r, PageBytes, "shared")
      table  == CarveAnyway(shared, 2 * PageBytes, "root table")
      pool   == CarveAnyway(table, PageBytes, "table pool")
      stack  == CarveAnyway(pool, PageBytes, "stack")
  IN TakeEntry(TakeEntry([stack EXCEPT !.ok = @ /\ mapped], "PageTable"), "ThreadControlBlock")

\* inkernel_demo, in three parts.  An endpoint, two derived capabilities that
\* are revoked again, and a second thread: without these the machine parks.
DemoThreads(r) ==
  LET ep == Retype(r, 1, "Endpoint", 1)
  IN Retype([ep EXCEPT !.ok = @ /\ ep.caps + 2 <= CapSlots], 1, "ThreadControlBlock", 1)

\* A thread to measure with: what a failure took is not given back.
DemoBench(r) == [Retype(r, 1, "ThreadControlBlock", 1) EXCEPT !.ok = r.ok]

\* A frame, and two address spaces with the pool that maps it in both.
DemoSpaces(r) ==
  LET frame == Retype(r, 1, "Untyped", 1)
  IN [CarveNext(CarveNext(CarveNext(frame, PageBytes, "root table"), PageBytes, "root table"),
                PageBytes, "table pool") EXCEPT !.ok = r.ok]

InKernelDemo(r) == DemoSpaces(DemoBench(DemoThreads(r)))

\* enter: the demonstration, the root table and its pool (both tried), the map
\* pool, the mappings of the user image; then the two-process setup, which may
\* fail.
Enter(mappedImage, mappedWorker) ==
  /\ phase = "entering"
  /\ LET shown   == InKernelDemo(Now)
         tables0 == Carve(shown, 2 * PageBytes, "root table")
         pooled  == CarveAnyway(tables0, PageBytes, "table pool")
         ready   == CarveNext(pooled, PageBytes, "map pool")
     IN IF ~shown.ok THEN phase' = "halted" /\ Become(shown)
        ELSE IF ~ready.ok \/ ~mappedImage THEN phase' = "halted" /\ Become(ready)
        ELSE phase' = "running" /\ Become(SetupTwoProcess(ready, mappedWorker))

\* The end of both spawns: a page table, a capability space and a thread, each
\* of which stays taken when the next is refused.
TakeProcess(r) ==
  TakeEntry(TakeEntry(TakeEntry(r, "PageTable"), "CapabilitySpace"), "ThreadControlBlock")

\* spawn_process.
SpawnProcess(mapped) ==
  /\ phase = "running"
  /\ LET carved == CarveNext(CarveNext(CarveNext(Now, 2 * PageBytes, "root table"),
                                       PageBytes, "table pool"), PageBytes, "stack")
     IN Become(TakeProcess([carved EXCEPT !.ok = @ /\ mapped]))
  /\ UNCHANGED phase

\* One PT_LOAD segment of spawn_process_from_elf: frames for the pages it
\* touches, zeroed, and the file's bytes at its offset in the first page.
LoadSegment(r, seg, image) ==
  LET off == seg.vaddr % PageBytes
      bytes == RoundUp(seg.memsz + off)
      got == Alloc(r.untyped[1], bytes)
  IN IF ~r.ok \/ bytes = 0 THEN r
     ELSE IF seg.offset + seg.filesz > AddrTop \/ seg.filesz > seg.memsz
               \/ seg.offset + seg.filesz > image.len \/ ~got.ok
     THEN [r EXCEPT !.ok = FALSE]
     ELSE [r EXCEPT !.untyped[1].mark = got.mark,
                    !.uses = @ \cup {[Use(got.at, bytes, "segment", 1, 0)
                                        EXCEPT !.wrote = got.at + off + seg.filesz]}]

\* The segments in the order of the program headers.
LoadSegments(r, image) ==
  LET Loaded[i \in 0 .. Len(image.segs)] ==
        IF i = 0 THEN r ELSE LoadSegment(Loaded[i - 1], image.segs[i], image)
  IN  Loaded[Len(image.segs)]

\* spawn_process_from_elf: tables, pool and stack are carved before the first
\* segment is looked at.
SpawnProcessFromElf(image, mapped) ==
  /\ phase = "running" /\ image.parses
  /\ LET carved == CarveNext(CarveNext(CarveNext(Now, 2 * PageBytes, "root table"),
                                       PageBytes, "table pool"), PageBytes, "stack")
     IN Become(TakeProcess([LoadSegments(carved, image) EXCEPT !.ok = @ /\ mapped]))
  /\ UNCHANGED phase

ObjInit ==
  /\ phase = "entering"
  /\ \E rs \in Regions :
       /\ untyped = [i \in DOMAIN rs |-> [base |-> rs[i].base, size |-> rs[i].size, mark |-> 0]]
       /\ caps = Len(rs)
  /\ uses = {}
  /\ tables = [k \in Kinds \ {"Untyped"} |->
                 IF k \in {"PageTable", "CapabilitySpace", "ThreadControlBlock"} THEN 1 ELSE 0]

ObjNext ==
  \/ \E m, n \in BOOLEAN : Enter(m, n)
  \/ \E m \in BOOLEAN : SpawnProcess(m)
  \/ \E i \in Images, m \in BOOLEAN : SpawnProcessFromElf(i, m)
  \/ \E of \in 1 .. Len(untyped), k \in RetypeKinds, n \in 0 .. MaxRetype :
       DoRetype(of, k, n)

ObjSpec == ObjInit /\ [][ObjNext]_objVars
-----------------------------------------------------------------------------
(***************************************************************************)
(* "watermark: bytes already handed out": two pieces of memory given out   *)
(* never share a byte, unless one of them is an untyped region and the     *)
(* other was given out of that region; every piece lies in its region and  *)
(* below its watermark, starts on a page, and holds all the kernel itself  *)
(* writes into it.  Regions, and what processes and page tables live in,   *)
(* come from failed calls as well as from successful ones.                 *)
(***************************************************************************)
\* v was carved from u: the region u became holds v's region, through however
\* many regions in between.
HoldsParents(S) == \A w \in uses : w.child \in S => w.of \in S
CarvedFrom(v, u) ==
  \A S \in SUBSET (1 .. Len(untyped)) : v.of \in S /\ HoldsParents(S) => u.child \in S

NoDoubleUse ==
  /\ \A u, v \in uses :
       u.lo < v.hi /\ v.lo < u.hi => u = v \/ CarvedFrom(u, v) \/ CarvedFrom(v, u)
  /\ \A u \in uses :
       LET r == untyped[u.of]
       IN /\ u.lo >= r.base /\ u.hi <= r.base + r.mark /\ r.mark <= r.size
          /\ u.lo % PageBytes = 0 /\ u.wrote <= u.hi
=============================================================================
