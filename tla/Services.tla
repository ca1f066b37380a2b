------------------------------ MODULE Services ------------------------------
(***************************************************************************)
(* The user-mode services behind the message protocols: the in-memory file *)
(* system (fs-native), the compositor and the memory service, as functions *)
(* from a state and a decoded request to the next state and the response;  *)
(* and the mount table of the VFS router.  Messages are those of Codec.    *)
(* Byte contents are abstracted to a value per byte, mixed-in padding of a *)
(* grown file being 0.                                                     *)
(***************************************************************************)
EXTENDS Codec, FiniteSets, SequencesExt

CONSTANTS
  FsDataLen,     \* bytes of the shared fs data page (FS_DATA_LEN)
  MaxFileBytes,  \* MAX_FILE_BYTES
  FrameMax,      \* bytes of the compositor's frame buffer (FRAME_MAX)
  Greeting,      \* the bytes fs-native seeds /greeting with
  FsCalls,       \* the requests clients of fs-native make
  MaxHandles     \* handles given out at most, short of the counter's wrap

ASSUME SizeAssumption ==
  /\ FsDataLen \in Nat /\ MaxFileBytes \in Nat /\ FrameMax \in u32
  /\ Len(Greeting) <= MaxFileBytes
  /\ FsCalls \subseteq FsRequest /\ MaxHandles \in u32

VARIABLE memfs   \* the state of fs-native, serving its clients on its own

MaxU32 == U32 - 1

\* A service step: its next state and its response.
Respond(svc, tag, fields) == [svc |-> svc, resp |-> [tag |-> tag, f |-> fields]]
-----------------------------------------------------------------------------
(***************************************************************************)
(* fs-native.  index: path to file id; files: id to bytes; open: handle to *)
(* [file, write]; data: the data page shared with the client; panicked:    *)
(* the process is in its panic handler's loop.                             *)
(***************************************************************************)
WRITE  == 1     \* the bit numbers of OpenFlags
CREATE == 2
HasFlag(flags, bit) == (flags \div 2^bit) % 2 = 1

FsErrors == [NotFound |-> 1, Denied |-> 2, BadHandle |-> 3, BadPath |-> 4, Unsupported |-> 5,
             BadSharedRegion |-> 6, Io |-> 7]
FsError(fs, e) == Respond(fs, "Error", <<FsErrors[e]>>)

MemFs == [index |-> <<>>, files |-> <<>>, open |-> <<>>, nextFile |-> 0, nextHandle |-> 0,
          data |-> [i \in 1 .. FsDataLen |-> 0], panicked |-> FALSE]

Put(f, k, v) == [x \in DOMAIN f \cup {k} |-> IF x = k THEN v ELSE f[x]]
Drop(f, k)   == [x \in DOMAIN f \ {k} |-> f[x]]

Create(fs, path) ==
  IF path \in DOMAIN fs.index THEN [fs EXCEPT !.files = Put(@, fs.index[path], <<>>)]
  ELSE [fs EXCEPT !.index = Put(@, path, fs.nextFile), !.files = Put(@, fs.nextFile, <<>>),
                  !.nextFile = @ + 1]

\* mutant of OpenFile: the number of open files names the handle
OpenFileCounted(fs, path, write) ==
  [fs EXCEPT !.open = Put(@, Cardinality(DOMAIN fs.open), [file |-> fs.index[path], write |-> write]),
             !.nextHandle = @ + 1]

OpenFile(fs, path, write) ==
  [fs EXCEPT !.open = Put(@, fs.nextHandle, [file |-> fs.index[path], write |-> write]),
             !.nextHandle = @ + 1]

\* MemFs::open and MemFs::close answering a request
FsOpen(fs, path, write, create) ==
  IF path \in DOMAIN fs.index THEN Respond(OpenFile(fs, path, write), "Opened", <<fs.nextHandle>>)
  ELSE IF create THEN Respond(OpenFile(Create(fs, path), path, write), "Opened", <<fs.nextHandle>>)
  ELSE FsError(fs, "NotFound")

FsClose(fs, h) ==
  IF h \in DOMAIN fs.open THEN Respond([fs EXCEPT !.open = Drop(@, h)], "Closed", <<>>)
  ELSE FsError(fs, "BadHandle")

FsRead(fs, h, offset, len) ==
  IF h \notin DOMAIN fs.open THEN FsError(fs, "BadHandle")
  ELSE LET bytes == fs.files[fs.open[h].file]
           start == IF offset < Len(bytes) THEN offset ELSE Len(bytes)
           n     == IF len < Len(bytes) - start THEN len ELSE Len(bytes) - start
       IN  Respond([fs EXCEPT !.data = [i \in DOMAIN @ |-> IF i <= n THEN bytes[start + i] ELSE @[i]]],
                  "Read", <<n>>)

Overwritten(bytes, offset, src) ==
  [i \in 1 .. (IF Len(bytes) < offset + Len(src) THEN offset + Len(src) ELSE Len(bytes)) |->
     IF i > offset /\ i <= offset + Len(src) THEN src[i - offset]
     ELSE IF i <= Len(bytes) THEN bytes[i] ELSE 0]

\* offset as usize + src.len() may overflow: a debug build panics there, a
\* release build wraps and panics at the slice offset..end.
FsWrite(fs, h, offset, src) ==
  IF h \notin DOMAIN fs.open THEN FsError(fs, "BadHandle")
  ELSE IF ~fs.open[h].write THEN FsError(fs, "Denied")
  ELSE IF offset + Len(src) >= U64 THEN Respond([fs EXCEPT !.panicked = TRUE], "Panic", <<>>)
  ELSE IF offset + Len(src) > MaxFileBytes THEN FsError(fs, "Io")
  ELSE Respond([fs EXCEPT !.files = Put(@, fs.open[h].file, Overwritten(@[fs.open[h].file], offset, src))],
              "Written", <<Len(src)>>)

\* Stat opens the file, asks for its size and closes it again.
FsStat(fs, path) ==
  LET opened == FsOpen(fs, path, FALSE, FALSE) IN
    IF opened.resp.tag = "Error" THEN opened
    ELSE Respond(FsClose(opened.svc, opened.resp.f[1]).svc, "Stat",
                <<Len(fs.files[fs.index[path]]), 0>>)

\* resolve_path: the only registered PathId
Path == [id \in {0} |-> "/greeting"]

HandleFs(fs, req) ==
  LET f == req.f IN
    CASE req.tag \in {"Open", "Stat"} /\ f[1] \notin DOMAIN Path -> FsError(fs, "BadPath")
      [] req.tag = "Open"  -> FsOpen(fs, Path[f[1]], HasFlag(f[2], WRITE), HasFlag(f[2], CREATE))
      [] req.tag = "Stat"  -> FsStat(fs, Path[f[1]])
      [] req.tag = "Close" -> FsClose(fs, f[1])
      [] req.tag \in {"Read", "Write"} /\ f[3] > FsDataLen -> FsError(fs, "BadSharedRegion")
      [] req.tag = "Read"  -> FsRead(fs, f[1], f[2], f[3])
      [] req.tag = "Write" -> FsWrite(fs, f[1], f[2], SubSeq(fs.data, 1, f[3]))
      [] OTHER             -> FsError(fs, "Unsupported")      \* not decoded

\* fs-native before its loop: /greeting is created and seeded, its handle closed.
FsBooted ==
  LET opened == FsOpen(Create(MemFs, "/greeting"), "/greeting", TRUE, FALSE)
      h      == opened.resp.f[1]
  IN  FsClose(FsWrite(opened.svc, h, 0, Greeting).svc, h).svc

\* fs-native's loop: one request after the other, until the handles run out
\* or it panics.
FsInit == memfs = FsBooted
FsNext ==
  \/ /\ ~memfs.panicked
     /\ \E req \in FsCalls :
          HandleFs(memfs, req).svc.nextHandle <= MaxHandles /\ memfs' = HandleFs(memfs, req).svc
  \/ memfs.panicked /\ UNCHANGED memfs
FsSpec == FsInit /\ [][FsNext]_memfs

(***************************************************************************)
(* A handle names one opening for good: an open handle keeps its file and  *)
(* its mode, and a handle that was closed never opens again, so a stale    *)
(* one cannot reach another file.                                          *)
(***************************************************************************)
HandleKept(now, next) ==
  /\ \A h \in DOMAIN now.open : h \in DOMAIN next.open => next.open[h] = now.open[h]
  /\ \A h \in 0 .. now.nextHandle - 1 : h \in DOMAIN next.open => h \in DOMAIN now.open

HandlesNeverReused == [][HandleKept(memfs, memfs')]_memfs
-----------------------------------------------------------------------------
(***************************************************************************)
(* The compositor.  surfaces: handle to [width, height, commits]; frame    *)
(* and confirm: the shared frame buffer and the page a commit copies it to.*)
(***************************************************************************)
Compositor == [surfaces |-> <<>>, nextSurface |-> 0, frame |-> 0, confirm |-> 0]

DisplayErrors == [BadSurface |-> 1, BadBuffer |-> 2, Unsupported |-> 3]
DisplayError(c, e) == Respond(c, "Error", <<DisplayErrors[e]>>)

SaturatingMul(a, b) == IF a * b > MaxU32 THEN MaxU32 ELSE a * b

CreateSurface(c) ==
  Respond([c EXCEPT !.surfaces = Put(@, c.nextSurface, [width |-> 0, height |-> 0, commits |-> 0]),
                   !.nextSurface = @ + 1], "SurfaceCreated", <<c.nextSurface>>)

\* A frame of no bytes copies nothing.
CommitBuffer(c, surface, width, height) ==
  LET len == SaturatingMul(SaturatingMul(width, height), 4) IN
    IF len > FrameMax THEN DisplayError(c, "BadBuffer")
    ELSE IF surface \notin DOMAIN c.surfaces THEN DisplayError(c, "BadSurface")
    ELSE Respond([c EXCEPT !.surfaces = Put(@, surface, [width |-> width, height |-> height,
                                                        commits |-> @[surface].commits + 1]),
                          !.confirm = IF len > 0 THEN c.frame ELSE @], "Committed", <<>>)

HandleDisplay(c, req) ==
  CASE req.tag = "CreateSurface"  -> CreateSurface(c)
    [] req.tag = "CommitBuffer"   -> CommitBuffer(c, req.f[1], req.f[3], req.f[4])
    [] req.tag = "DestroySurface" ->
         IF req.f[1] \notin DOMAIN c.surfaces THEN DisplayError(c, "BadSurface")
         ELSE Respond([c EXCEPT !.surfaces = Drop(@, req.f[1])], "Destroyed", <<>>)
    [] OTHER -> DisplayError(c, "Unsupported")   \* SubscribeInput, QueryOutputs, not decoded
-----------------------------------------------------------------------------
(***************************************************************************)
(* The memory service: three registries, vectors searched in order.        *)
(***************************************************************************)
MmState == [mem |-> <<>>, swap |-> <<>>, pools |-> <<>>]

Upsert(vec, Same(_), entry) ==
  IF \E i \in DOMAIN vec : Same(vec[i])
  THEN [vec EXCEPT ![CHOOSE i \in DOMAIN vec : Same(vec[i]) /\ \A j \in 1 .. i - 1 : ~Same(vec[j])] = entry]
  ELSE Append(vec, entry)

\* Iterator::reduce: <<>> of nothing, else the entry no later one beats.
Reduce(vec, Beats(_, _)) ==
  IF vec = <<>> THEN <<>>
  ELSE <<FoldLeft(LAMBDA a, b : IF Beats(b, a) THEN b ELSE a, Head(vec), Tail(vec))>>

\* choose_oom_victim: the largest of the least valued class, the lower thread
\* on a tie.
\* mutant of LargerFootprint: a tie keeps the entry registered later
LargerOrLater(b, a) == b.resident >= a.resident

LargerFootprint(b, a) ==
  b.resident > a.resident \/ (b.resident = a.resident /\ b.thread < a.thread)

Sacrificial == 2  \* ReclaimClass numbers, Normal = 1 and Protected = 0 below
ChooseOomVictim(procs) ==
  LET best(class) == Reduce(SelectSeq(procs, LAMBDA p : p.class = class), LargerFootprint)
      classes     == <<Sacrificial, 1, 0>>
      found       == SelectSeq(classes, LAMBDA class : best(class) # <<>>)
  IN  IF found = <<>> THEN <<>> ELSE <<best(found[1])[1].thread>>

TotalResident(procs) == FoldLeft(LAMBDA sum, p : sum + p.resident, 0, procs)

\* choose_swap_victim: least recently touched, then larger, then lower key.
StalerRegion(b, a) ==
  \/ b.touched < a.touched
  \/ b.touched = a.touched /\ b.bytes > a.bytes
  \/ /\ b.touched = a.touched /\ b.bytes = a.bytes
     /\ b.thread < a.thread \/ (b.thread = a.thread /\ b.region < a.region)

ChooseSwapVictim(regions) == Reduce(regions, StalerRegion)

FreeBytes(p) == IF p.capacity > p.used THEN p.capacity - p.used ELSE 0

BestFit(pools, bytes) ==
  Reduce(SelectSeq(pools, LAMBDA p : FreeBytes(p) >= bytes),
         LAMBDA b, a : FreeBytes(b) > FreeBytes(a) \/ (FreeBytes(b) = FreeBytes(a) /\ b.id < a.id))

\* choose_compute_pool: a pool of the preferred kind if one fits, else any.
ChooseComputePool(pools, bytes, preferred) ==
  LET ofKind == IF preferred = <<>> THEN <<>> ELSE SelectSeq(pools, LAMBDA p : p.kind = preferred[1])
      fit    == BestFit(ofKind, bytes)
  IN  IF fit # <<>> THEN fit ELSE BestFit(pools, bytes)

\* unwrap_or(u32::MAX)
OrMax(option) == IF option = <<>> THEN MaxU32 ELSE option[1]

HandleMm(mm, req) ==
  LET f == req.f IN
    CASE req.tag = "Register" ->
           Respond([mm EXCEPT !.mem = Upsert(@, LAMBDA p : p.thread = f[1],
                     [thread |-> f[1], resident |-> f[2], class |-> f[3]])], "Registered", <<>>)
      [] req.tag = "Unregister" ->
           Respond([mm EXCEPT !.mem = SelectSeq(@, LAMBDA p : p.thread # f[1])], "Unregistered", <<>>)
      [] req.tag = "QueryVictim" -> Respond(mm, "Victim", <<OrMax(ChooseOomVictim(mm.mem))>>)
      [] req.tag = "QueryTotalResident" -> Respond(mm, "TotalResident", <<TotalResident(mm.mem) % U64>>)
      [] req.tag = "RegisterSwapRegion" ->
           Respond([mm EXCEPT !.swap = Upsert(@, LAMBDA r : r.thread = f[1] /\ r.region = f[2],
                     [thread |-> f[1], region |-> f[2], bytes |-> f[3], touched |-> f[4]])],
                  "SwapRegionRegistered", <<>>)
      [] req.tag = "UnregisterSwapRegion" ->
           Respond([mm EXCEPT !.swap = SelectSeq(@, LAMBDA r : r.thread # f[1] \/ r.region # f[2])],
                  "SwapRegionUnregistered", <<>>)
      [] req.tag = "QuerySwapVictim" ->
           LET v == ChooseSwapVictim(mm.swap) IN
             Respond(mm, "SwapVictim", IF v = <<>> THEN <<MaxU32, MaxU32>> ELSE <<v[1].thread, v[1].region>>)
      [] req.tag = "RegisterComputePool" ->
           Respond([mm EXCEPT !.pools = Upsert(@, LAMBDA p : p.id = f[1],
                     [id |-> f[1], kind |-> f[2], capacity |-> f[3], used |-> f[4]])],
                  "ComputePoolRegistered", <<>>)
      [] req.tag = "QueryComputePool" ->
           LET v == ChooseComputePool(mm.pools, f[1], f[2]) IN
             Respond(mm, "ComputePoolChosen", <<IF v = <<>> THEN MaxU32 ELSE v[1].id>>)
      [] OTHER -> Respond(mm, "Error", <<1>>)                  \* not decoded: Unsupported
-----------------------------------------------------------------------------
(***************************************************************************)
(* vfs-router: mount prefixes as character sequences.                      *)
(***************************************************************************)
Slash == "/"

\* mutant of Normalize: paths are taken as they are
NormalizeNot(p) == p

Normalize(p) ==
  LET kept == {i \in DOMAIN p : p[i] # Slash} IN
    IF kept = {} THEN <<Slash>>
    ELSE SubSeq(p, 1, CHOOSE i \in kept : \A j \in kept : j <= i)

Mount(mounts, prefix, backend) ==
  IF prefix = <<>> \/ prefix[1] # Slash THEN mounts
  ELSE IF \E i \in DOMAIN mounts : mounts[i].prefix = Normalize(prefix) THEN mounts
  ELSE Append(mounts, [prefix |-> Normalize(prefix), backend |-> backend])

Unmount(mounts, prefix) == SelectSeq(mounts, LAMBDA m : m.prefix # Normalize(prefix))

\* path_under
\* mutant of PathUnder: a prefix need not end at a component
PathUnderBytes(path, prefix) ==
  \/ prefix = <<Slash>>
  \/ Len(path) >= Len(prefix) /\ SubSeq(path, 1, Len(prefix)) = prefix

PathUnder(path, prefix) ==
  \/ prefix = <<Slash>> \/ path = prefix
  \/ /\ Len(path) > Len(prefix)
     /\ SubSeq(path, 1, Len(prefix)) = prefix /\ path[Len(prefix) + 1] = Slash

Resolve(mounts, path) ==
  Reduce(SelectSeq(mounts, LAMBDA m : PathUnder(Normalize(path), m.prefix)),
         LAMBDA b, a : Len(b.prefix) > Len(a.prefix))
=============================================================================
