----------------------------- MODULE MCRootTask -----------------------------
(***************************************************************************)
(* The boot script of RootTask, and the parts it is built from on their    *)
(* own: the codecs, the file system, the registries of the memory service  *)
(* and the mount table.  part names what a behaviour is about; the         *)
(* variables of the others hold Unused, memfs its initial value and sent   *)
(* nothing.                                                                *)
(***************************************************************************)
EXTENDS RootTask

CONSTANTS
  Unused,
  MaxEntries,    \* entries of a registry or mount table
  MaxPath        \* characters of a mount prefix; a looked-up path has one more

VARIABLES part, st

all == <<vars, part, st, memfs, sent>>

GreetingBytes == <<1>>
AllArch       == {"riscv64", "x86_64", "aarch64"}

\* What may fail: every step of the starts the code does not guard, and of
\* each other service its device, or memory at an early or a late step.
MCFailable ==
  ({"fs"} \X Range(FsDemoStart)) \cup ({"ns"} \X Range(SpawnNetstackService))
    \cup {<<"blk", "device">>, <<"net", "device">>, <<"comp", "grant">>, <<"mm", "endpoint">>, <<"blk", "irq">>,
          <<"srv", "spawn">>}

Threads3 == 1 .. 3
MemRequests ==
  Variant("Register", Threads3 \X (1 .. 2) \X ReclaimClass) \cup Variant("Unregister", One(Threads3))
SwapRequests ==
  Variant("RegisterSwapRegion", (1 .. 2) \X (1 .. 2) \X (1 .. 2) \X (1 .. 2))
    \cup Variant("UnregisterSwapRegion", (1 .. 2) \X (1 .. 2))
PoolRequests == Variant("RegisterComputePool", Threads3 \X (0 .. 1) \X {2} \X (0 .. 3))

MCFsCalls ==
  Variant("Open", (0 .. 1) \X {0, 2, 6}) \cup Variant("Stat", One({0})) \cup Variant("Close", One(0 .. MaxHandles))
    \cup Variant("Read", (0 .. 1) \X (0 .. 2) \X (1 .. FsDataLen + 1) \X {SharedCapSlot})
    \cup Variant("Write", (0 .. 1) \X {0, 1, 2, MAX} \X (0 .. FsDataLen) \X {SharedCapSlot})

Chars    == {Slash, "a", "b"}
Paths(n) == UNION {[1 .. k -> Chars] : k \in 0 .. n}

Init ==
  \/ part = "script" /\ ScriptInit /\ st = Unused /\ FsInit /\ sent = <<>>
  \/ /\ part \in {"codec", "fs", "mem", "swap", "pools", "mounts"}
     /\ FsInit /\ IF part = "codec" THEN CodecInit ELSE sent = <<>>
     /\ st = CASE part \in {"codec", "fs"} -> Unused [] part = "mounts" -> <<>> [] OTHER -> MmState
     /\ arch = Unused /\ pc = Unused /\ reg = Unused /\ cpu = Unused /\ ready = Unused /\ waiting = Unused
     /\ senders = Unused /\ parked = Unused /\ at = Unused /\ from = Unused /\ page = Unused /\ svc = Unused
     /\ done = Unused /\ expected = Unused /\ hand = Unused /\ mishap = Unused

Bounded(mm) == Len(mm.mem) <= MaxEntries /\ Len(mm.swap) <= MaxEntries /\ Len(mm.pools) <= MaxEntries
MmStep(p, requests) ==
  part = p /\ \E req \in requests : Bounded(HandleMm(st, req).svc) /\ st' = HandleMm(st, req).svc
MountStep ==
  /\ part = "mounts"
  /\ \E p \in Paths(MaxPath) :
       \/ Len(st) < MaxEntries /\ st' = Mount(st, p, Len(st) + 1)
       \/ st' = Unmount(st, p)

Next ==
  \/ part = "script" /\ ScriptNext /\ UNCHANGED <<part, st, memfs, sent>>
  \/ part = "fs" /\ FsNext /\ UNCHANGED <<vars, part, st, sent>>
  \/ /\ MmStep("mem", MemRequests) \/ MmStep("swap", SwapRequests) \/ MmStep("pools", PoolRequests) \/ MountStep
          \/ (part = "codec" /\ UNCHANGED st)
     /\ UNCHANGED <<vars, part, memfs, sent>>

(***************************************************************************)
(* Fairness: the thread on the core goes on executing.                     *)
(***************************************************************************)
Spec == Init /\ [][Next]_all /\ WF_all(part = "script" /\ Advance /\ UNCHANGED <<part, st, memfs, sent>>)
-----------------------------------------------------------------------------
(***************************************************************************)
(* The registries hold no key twice, and the victim, the region to swap    *)
(* out and the pool chosen are the ones a comparison of all entries names, *)
(* whatever order they were registered, changed and removed in.            *)
(***************************************************************************)
BestOf(vec, Key(_)) == {i \in DOMAIN vec : \A j \in DOMAIN vec : Key(vec[i]) >= Key(vec[j])}
MemKey(p)  == (p.class * 8 + p.resident) * 8 + (7 - p.thread)
SwapKey(r) == (((7 - r.touched) * 8 + r.bytes) * 8 + (7 - r.thread)) * 8 + (7 - r.region)
PoolKey(p) == FreeBytes(p) * 8 + (7 - p.id)

PoolExact(bytes, kind) ==
  LET fits == SelectSeq(st.pools, LAMBDA p : FreeBytes(p) >= bytes)
      mine == SelectSeq(fits, LAMBDA p : <<p.kind>> = kind)
      from_ == IF mine = <<>> THEN fits ELSE mine
  IN  ChooseComputePool(st.pools, bytes, kind)
        = IF from_ = <<>> THEN <<>> ELSE <<from_[CHOOSE i \in BestOf(from_, PoolKey) : TRUE]>>

ChoicesExact ==
  part \in {"mem", "swap", "pools"} =>
    /\ \A i, j \in DOMAIN st.mem : st.mem[i].thread = st.mem[j].thread => i = j
    /\ \A i, j \in DOMAIN st.swap :
         st.swap[i].thread = st.swap[j].thread /\ st.swap[i].region = st.swap[j].region => i = j
    /\ \A i, j \in DOMAIN st.pools : st.pools[i].id = st.pools[j].id => i = j
    /\ ChooseOomVictim(st.mem) = IF st.mem = <<>> THEN <<>> ELSE <<st.mem[CHOOSE i \in BestOf(st.mem, MemKey) : TRUE].thread>>
    /\ ChooseSwapVictim(st.swap)
         = IF st.swap = <<>> THEN <<>> ELSE <<st.swap[CHOOSE i \in BestOf(st.swap, SwapKey) : TRUE]>>
    /\ \A bytes \in 0 .. 2, kind \in Option(0 .. 1) : PoolExact(bytes, kind)

(***************************************************************************)
(* vfs-router: a path goes to the mount that shares the most leading       *)
(* components with it, a component being what stands between two slashes.  *)
(***************************************************************************)
Cuts(p)       == {i \in DOMAIN p : p[i] = Slash} \cup {Len(p) + 1}
Components(p) ==   \* of a path that starts with a slash
  IF Normalize(p) = <<Slash>> THEN <<>>
  ELSE LET q    == Normalize(p)
           cuts == SetToSortSeq(Cuts(q), <)
       IN  [k \in 1 .. Len(cuts) - 1 |-> SubSeq(q, cuts[k] + 1, cuts[k + 1] - 1)]

ResolvesLongest ==
  part = "mounts" =>
    \A p \in {q \in Paths(MaxPath + 1) : q # <<>> /\ q[1] = Slash} :
      LET covers == {i \in DOMAIN st : IsPrefix(Components(st[i].prefix), Components(p))}
          best   == {i \in covers : \A j \in covers :
                       Len(Components(st[i].prefix)) >= Len(Components(st[j].prefix))}
      IN  /\ Cardinality(best) <= 1
          /\ Resolve(st, p) = IF best = {} THEN <<>> ELSE <<st[CHOOSE i \in best : TRUE]>>

\* The properties of the script, in its own behaviours.
BootResultIsAnswer == part = "script" => ResultIsAnswer
BootNoMishap       == part = "script" => NoMishap
BootScriptEnds     == part = "script" ~> (part = "script" /\ Settled)
=============================================================================
