------------------------------ MODULE RootTask ------------------------------
(***************************************************************************)
(* The boot script of the Root Task and the processes it starts: worker B, *)
(* the IPC server, fs-native, the two virtio drivers, the network stack,   *)
(* the compositor and the memory service, on one core that is handed from  *)
(* thread to thread by the trap handlers (no timer before the last step).  *)
(* Requests and answers travel through a shared page per service.  The     *)
(* three ports are separate code: each has its own scripts and trap arms.  *)
(***************************************************************************)
EXTENDS Services

CONSTANTS
  Iters,       \* FS_BENCH_ITERS, ITERS, SAMPLES: rounds of each benchmark
  MaxPolls,    \* MAX_POLL_ATTEMPTS of the network stack
  Failable,    \* the <<service, start step>> pairs that may fail
  Arch         \* the ports considered

Root    == "root"
Served  == {"fs", "blk", "net", "ns", "comp", "mm"}  \* with a request page
Started == Served \cup {"srv"}
Threads == Started \cup {Root, "b"}
Nobody  == "nobody"

MAX  == U64 - 1                   \* usize::MAX
AsU32(v) == v % U32               \* v as u32

VARIABLES
  arch,      \* the port
  pc,        \* position in the script
  reg,       \* the script's variables
  cpu,       \* the thread on the core
  ready,     \* the threads the scheduler holds Ready
  waiting,   \* the threads in state BlockedOnReply
  senders,   \* queued callers of each endpoint
  parked,    \* how often each service stands in its endpoint's receive queue
  at,        \* where each thread is in its own code
  from,      \* the caller a service believes it serves
  page,      \* the request page of each service
  svc,       \* the state of each service
  done,      \* the completed steps of each service's start
  expected,  \* the answer due for the latest request to each service
  hand,      \* the word A and B share
  mishap     \* "wild": a write through a pointer never set; "lost": the core
             \* stays with a blocked thread; "halt": nobody left to run

sched  == <<cpu, ready, waiting>>
queues == <<senders, parked>>
server == <<at, from, page, svc>>
vars   == <<arch, pc, reg, sched, queues, server, done, expected, hand, mishap>>
-----------------------------------------------------------------------------
(***************************************************************************)
(* The scripts: a step is a syscall with its argument registers and the    *)
(* register its result goes to.  UNLESS skips the next steps when a        *)
(* register holds a value.                                                 *)
(***************************************************************************)
Sys(op, a, b, dst) == [op |-> op, a |-> a, b |-> b, dst |-> dst, bad |-> 0, skip |-> 0]
Do(op)          == Sys(op, "zero", "zero", "none")
With(op, a)     == Sys(op, a, "zero", "none")
Get(op, dst)    == Sys(op, "zero", "zero", dst)
Report          == Do("REPORT")
Unless(a, bad, steps) == <<[Sys("UNLESS", a, "zero", "none") EXCEPT !.bad = bad, !.skip = Len(steps)]>> \o steps
Repeat(n, steps)      == FlattenSeq([i \in 1 .. n |-> steps])

\* "all" is a length of a page, "t100" and "t200" the demo's thread numbers.
Registers ==
  [zero |-> 0, one |-> 1, two |-> 2, all |-> FsDataLen, t100 |-> 1, t200 |-> 2, none |-> 0,
   ep |-> 0, started |-> 0, handle |-> 0, written |-> 0, surface |-> 0, granted |-> 0, after |-> 0]

\* umode_root up to the drivers.
ProveIsolation ==
  <<Do("ALIVE"), Do("RETYPE_ENDPOINT"), Do("MAP_PAGE"), Do("MAP_ALIAS"), Do("XCHECK")>>
Handshake == <<Do("STORE_C0DE"), Do("P2_YIELD"), Get("LOAD", "after"), With("P2_REPORT_A", "after")>>
IpcDemo   == <<Do("IPC_DEMO_START"), Do("IPC_ENDPOINT_CAP"), Do("IPC_CALL"), Report>>

Timed(call, result) == <<Do("NOW_NS")>> \o call \o <<result, Do("NOW_NS")>>

FsDemo ==
  <<Do("FS_DEMO_START"), Sys("FS_OPEN", "zero", "two", "none"), Get("FS_OPEN_RESULT", "handle"), Report,
    With("FS_STAT", "zero"), Do("FS_STAT_RESULT"), Report,
    With("FS_WRITE", "handle"), Get("FS_WRITE_RESULT", "written"), Report,
    Sys("FS_READ", "handle", "written", "none"), Do("FS_READ_RESULT"), Report>>
FsBench ==
  Repeat(Iters, Timed(<<With("FS_WRITE", "handle")>>, Do("FS_WRITE_RESULT"))) \o <<Do("FS_WRITE_THROUGHPUT_SUMMARY")>>
    \o Repeat(Iters, Timed(<<Sys("FS_READ", "handle", "all", "none")>>, Do("FS_READ_RESULT_QUIET")))
    \o <<Do("FS_READ_THROUGHPUT_SUMMARY"), With("FS_CLOSE", "handle"), Do("FS_CLOSE_RESULT"), Report>>

BlkDemo ==
  <<Get("DRV_BLK_DEMO_START", "ep"), Report>> \o Unless("ep", MAX,
    <<Do("DRV_BLK_PROBE"), Do("DRV_BLK_PROBE_RESULT"), Report, Do("DRV_BLK_WRITE"), Do("DRV_BLK_WRITE_RESULT"),
      Report, Do("DRV_BLK_READ"), Do("DRV_BLK_READ_RESULT"), Report>>)

\* A poll that finds 0 is repeated, but the poller keeps the core: one poll
\* stands for all of them.
NetDemo ==
  <<Get("DRV_NET_DEMO_START", "ep"), Report>> \o Unless("ep", MAX,
    <<Get("NET_DEMO_START", "started"), Report>> \o Unless("started", MAX, <<Do("NET_STATUS_POLL"), Report>>))

CompositorDemo ==
  <<Get("COMPOSITOR_DEMO_START", "ep"), Report>> \o Unless("ep", MAX,
    <<Do("COMPOSITOR_CREATE_SURFACE"), Get("COMPOSITOR_CREATE_SURFACE_RESULT", "surface"), Report>>
      \o Unless("surface", MAX,
           <<With("COMPOSITOR_COMMIT_BUFFER", "surface"), Do("COMPOSITOR_COMMIT_VERIFY"), Report,
             With("COMPOSITOR_DESTROY_SURFACE", "surface"), Do("COMPOSITOR_DESTROY_RESULT"), Report>>))

MmBench ==
  Repeat(Iters, Timed(<<Do("MM_QUERY_TOTAL_RESIDENT")>>, Do("MM_QUERY_TOTAL_RESIDENT_RESULT_QUIET")))
    \o <<Report, Report, Report>>
MmDemo(bench) ==
  <<Get("MM_DEMO_START", "ep"), Report>> \o Unless("ep", MAX,
    <<With("MM_REGISTER", "zero"), Do("MM_REGISTER_RESULT"), Report,
      With("MM_REGISTER", "one"), Do("MM_REGISTER_RESULT"), Report,
      Do("MM_QUERY_TOTAL_RESIDENT"), Do("MM_QUERY_TOTAL_RESIDENT_RESULT"), Report,
      Do("MM_QUERY_VICTIM"), Do("MM_QUERY_VICTIM_RESULT"), Report>> \o bench
    \o <<With("MM_UNREGISTER", "t100"), Do("MM_UNREGISTER_RESULT"), Report,
         With("MM_UNREGISTER", "t200"), Do("MM_UNREGISTER_RESULT"), Report>>)

\* The reports of an empty sample are left in.
NetBypassDemo ==
  <<Do("NET_BYPASS_REQUEST"), Get("NET_BYPASS_REQUEST_RESULT", "granted"), Report>> \o Unless("granted", 0,
    Repeat(Iters, Timed(<<Do("NET_STANDARD_SEND_REQUEST")>>, Do("NET_STANDARD_SEND_REQUEST_RESULT")))
      \o <<Report>> \o Repeat(Iters, <<Do("NET_BYPASS_SEND")>>) \o <<Report, Do("NET_LATENCY_SUMMARY")>>)

NetDemoRiscv64        == NetDemo
CompositorDemoRiscv64 == CompositorDemo
MmDemoRiscv64         == MmDemo(MmBench)
MmBenchRiscv64        == MmBench
NetBypassDemoRiscv64  == NetBypassDemo
NetDemoX86_64         == NetDemo
CompositorDemoX86_64  == CompositorDemo
MmBenchX86_64         == MmBench
MmDemoX86_64          == MmDemo(MmBenchX86_64)
NetBypassDemoX86_64   == NetBypassDemo
NetDemoAarch64        == NetDemo
CompositorDemoAarch64 == CompositorDemo
MmBenchAarch64        == MmBench
MmDemoAarch64         == MmDemo(MmBenchAarch64)
NetBypassDemoAarch64  == NetBypassDemo

UmodeRootRiscv64 ==
  ProveIsolation \o Handshake \o IpcDemo \o FsDemo \o FsBench \o BlkDemo \o NetDemoRiscv64
    \o CompositorDemoRiscv64 \o MmDemoRiscv64 \o NetBypassDemoRiscv64
UmodeRootX86_64 ==
  <<Do("ALIVE"), Report>> \o Handshake \o IpcDemo \o FsDemo \o FsBench \o BlkDemo \o NetDemoX86_64
    \o CompositorDemoX86_64 \o MmDemoX86_64 \o NetBypassDemoX86_64
UmodeRootAarch64 ==
  <<Do("ALIVE"), Report>> \o Handshake \o IpcDemo \o FsDemo \o FsBench \o BlkDemo \o NetDemoAarch64
    \o CompositorDemoAarch64 \o MmDemoAarch64 \o NetBypassDemoAarch64

\* The last step of every port hands over to the preemptive phase.
Script == [riscv64 |-> UmodeRootRiscv64, x86_64 |-> UmodeRootX86_64, aarch64 |-> UmodeRootAarch64]
Step   == Script[arch][pc]
Ended  == pc > Len(Script[arch])
-----------------------------------------------------------------------------
(***************************************************************************)
(* The trap arms: what an opcode does, on which service, and what the trap *)
(* returns when the operation fails.                                       *)
(***************************************************************************)
Arm(does, s, none) == [does |-> does, svc |-> s, none |-> none]
Starts(s, none)    == Arm("start", s, none)
Calls(s)           == Arm("call", s, 0)
Answers(s)         == Arm("result", s, 0)
Kernel             == Arm("kernel", Root, 0)      \* returns at once

IpcArms ==
  [IPC_DEMO_START |-> Starts("srv", 0), IPC_CALL |-> Arm("bare", "srv", 0), IPC_ENDPOINT_CAP |-> Kernel]
FsArms ==
  [FS_DEMO_START |-> Starts("fs", MAX), FS_OPEN |-> Calls("fs"), FS_OPEN_RESULT |-> Answers("fs"),
   FS_STAT |-> Calls("fs"), FS_STAT_RESULT |-> Answers("fs"), FS_CLOSE |-> Calls("fs"),
   FS_CLOSE_RESULT |-> Answers("fs"), FS_WRITE |-> Calls("fs"), FS_WRITE_RESULT |-> Answers("fs"),
   FS_READ |-> Calls("fs"), FS_READ_RESULT |-> Answers("fs"), FS_READ_RESULT_QUIET |-> Answers("fs")]
BlkArms ==
  [DRV_BLK_DEMO_START |-> Starts("blk", MAX), DRV_BLK_PROBE |-> Calls("blk"), DRV_BLK_PROBE_RESULT |-> Answers("blk"),
   DRV_BLK_WRITE |-> Calls("blk"), DRV_BLK_WRITE_RESULT |-> Answers("blk"), DRV_BLK_READ |-> Calls("blk"),
   DRV_BLK_READ_RESULT |-> Answers("blk")]
NetArms ==
  [DRV_NET_DEMO_START |-> Starts("net", MAX), NET_DEMO_START |-> Starts("ns", MAX), NET_STATUS_POLL |-> Kernel]
CompositorArms ==
  [COMPOSITOR_DEMO_START |-> Starts("comp", MAX), COMPOSITOR_CREATE_SURFACE |-> Calls("comp"),
   COMPOSITOR_CREATE_SURFACE_RESULT |-> Answers("comp"), COMPOSITOR_COMMIT_BUFFER |-> Calls("comp"),
   COMPOSITOR_COMMIT_VERIFY |-> Answers("comp"), COMPOSITOR_DESTROY_SURFACE |-> Calls("comp"),
   COMPOSITOR_DESTROY_RESULT |-> Answers("comp")]
MmArms ==
  [MM_DEMO_START |-> Starts("mm", MAX), MM_REGISTER |-> Calls("mm"), MM_REGISTER_RESULT |-> Answers("mm"),
   MM_UNREGISTER |-> Calls("mm"), MM_UNREGISTER_RESULT |-> Answers("mm"), MM_QUERY_VICTIM |-> Calls("mm"),
   MM_QUERY_VICTIM_RESULT |-> Answers("mm"), MM_QUERY_TOTAL_RESIDENT |-> Calls("mm"),
   MM_QUERY_TOTAL_RESIDENT_RESULT |-> Answers("mm")]
BypassArms ==
  [NET_BYPASS_REQUEST |-> Calls("ns"), NET_BYPASS_REQUEST_RESULT |-> Answers("ns"),
   NET_STANDARD_SEND_REQUEST |-> Calls("ns"), NET_STANDARD_SEND_REQUEST_RESULT |-> Answers("ns"),
   MM_QUERY_TOTAL_RESIDENT_RESULT_QUIET |-> Answers("mm"), NET_LATENCY_SUMMARY |-> Kernel,
   NET_BYPASS_SEND |-> Kernel, NOW_NS |-> Kernel]
LogArms   == [P2_REPORT_A |-> Kernel, P2_REPORT_B |-> Kernel, ALIVE |-> Kernel, REPORT |-> Kernel,
              FS_WRITE_THROUGHPUT_SUMMARY |-> Kernel, FS_READ_THROUGHPUT_SUMMARY |-> Kernel]

IpcArmsRiscv64        == IpcArms
FsArmsRiscv64         == FsArms
BlkArmsRiscv64        == BlkArms
NetArmsRiscv64        == NetArms
CompositorArmsRiscv64 == CompositorArms
MmArmsRiscv64         == MmArms
BypassArmsRiscv64     == BypassArms
\* Only riscv64 serves the isolation proof.
ProofArmsRiscv64 ==
  [RETYPE_ENDPOINT |-> Kernel, MAP_PAGE |-> Kernel, MAP_ALIAS |-> Kernel, XCHECK |-> Kernel,
   TRANSLATE |-> Kernel, DEBUG_LOG |-> Kernel]

IpcArmsX86_64         == IpcArms
FsArmsX86_64          == FsArms
BlkArmsX86_64         == BlkArms
NetArmsX86_64         == NetArms
CompositorArmsX86_64  == CompositorArms
MmArmsX86_64          == MmArms
BypassArmsX86_64      == BypassArms

IpcArmsAarch64        == IpcArms
FsArmsAarch64         == FsArms
BlkArmsAarch64        == BlkArms
NetArmsAarch64        == NetArms
CompositorArmsAarch64 == CompositorArms
MmArmsAarch64         == MmArms
BypassArmsAarch64     == BypassArms

\* The instructions of the script that make no trap.
UserArms == [UNLESS |-> Arm("branch", Root, 0), STORE_C0DE |-> Arm("store", Root, 0),
             LOAD |-> Arm("load", Root, 0), P2_YIELD |-> Arm("yield", Root, 0)]

Arms ==
  [riscv64 |-> UserArms @@ LogArms @@ IpcArmsRiscv64 @@ FsArmsRiscv64 @@ BlkArmsRiscv64 @@ NetArmsRiscv64
     @@ CompositorArmsRiscv64 @@ MmArmsRiscv64 @@ BypassArmsRiscv64 @@ ProofArmsRiscv64,
   x86_64 |-> UserArms @@ LogArms @@ IpcArmsX86_64 @@ FsArmsX86_64 @@ BlkArmsX86_64 @@ NetArmsX86_64
     @@ CompositorArmsX86_64 @@ MmArmsX86_64 @@ BypassArmsX86_64,
   aarch64 |-> UserArms @@ LogArms @@ IpcArmsAarch64 @@ FsArmsAarch64 @@ BlkArmsAarch64 @@ NetArmsAarch64
     @@ CompositorArmsAarch64 @@ MmArmsAarch64 @@ BypassArmsAarch64]
-----------------------------------------------------------------------------
(***************************************************************************)
(* kernel-arch-glue: the request a call arm writes into the page ...       *)
(***************************************************************************)
Req(tag, fields) == [tag |-> tag, f |-> fields]
SharedCapSlot    == 1
FsDemoWriteData  == <<2, 3>>
DemoFrame        == 7              \* COMPOSITOR_DEMO_FRAME, one pixel

FsOpenCall(a, b)  == Req("Open", <<AsU32(a), IF AsU32(b) \in OpenFlags THEN AsU32(b) ELSE 0>>)
FsStatCall(a)     == Req("Stat", <<AsU32(a)>>)
FsCloseCall(a)    == Req("Close", <<AsU32(a)>>)
FsWriteCall(a)    == Req("Write", <<AsU32(a), 0, Len(FsDemoWriteData), SharedCapSlot>>)
FsReadCall(a, b)  == Req("Read", <<AsU32(a), 0, AsU32(b), SharedCapSlot>>)

CompositorCreateSurfaceCall == Req("CreateSurface", <<>>)
CompositorCommitCall(a)     == Req("CommitBuffer", <<AsU32(a), 0, 1, 1>>)
CompositorDestroyCall(a)    == Req("DestroySurface", <<AsU32(a)>>)

\* MM_DEMO_PROCS: a large Normal process and a smaller Sacrificial one
MmDemoProcs          == << <<1, 4, 1>>, <<2, 3, 2>> >>
MmRegisterCall(a)    == Req("Register", MmDemoProcs[IF a > 1 THEN 2 ELSE a + 1])
MmUnregisterCall(a)  == Req("Unregister", <<AsU32(a)>>)
MmQueryVictimCall    == Req("QueryVictim", <<>>)
MmQueryTotalCall     == Req("QueryTotalResident", <<>>)

DrvBlkProbeCall    == Req("Probe", <<>>)
DrvBlkWriteCall(a) == Req("WriteBlocks", <<a, 1, 0>>)
DrvBlkReadCall(a)  == Req("ReadBlocks", <<a, 1, 0>>)

NetBypassRequestCall == Req("RequestDirectNic", <<0>>)
NetStandardSendCall  == Req("RelayFrame", <<>>)

Request(op, a, b) ==
  CASE op = "FS_OPEN"  -> FsOpenCall(a, b)
    [] op = "FS_STAT"  -> FsStatCall(a)
    [] op = "FS_CLOSE" -> FsCloseCall(a)
    [] op = "FS_WRITE" -> FsWriteCall(a)
    [] op = "FS_READ"  -> FsReadCall(a, b)
    [] op = "COMPOSITOR_CREATE_SURFACE"  -> CompositorCreateSurfaceCall
    [] op = "COMPOSITOR_COMMIT_BUFFER"   -> CompositorCommitCall(a)
    [] op = "COMPOSITOR_DESTROY_SURFACE" -> CompositorDestroyCall(a)
    [] op = "MM_REGISTER"     -> MmRegisterCall(a)
    [] op = "MM_UNREGISTER"   -> MmUnregisterCall(a)
    [] op = "MM_QUERY_VICTIM" -> MmQueryVictimCall
    [] op = "MM_QUERY_TOTAL_RESIDENT" -> MmQueryTotalCall
    [] op = "DRV_BLK_PROBE" -> DrvBlkProbeCall
    [] op = "DRV_BLK_WRITE" -> DrvBlkWriteCall(a)
    [] op = "DRV_BLK_READ"  -> DrvBlkReadCall(a)
    [] op = "NET_BYPASS_REQUEST"        -> NetBypassRequestCall
    [] op = "NET_STANDARD_SEND_REQUEST" -> NetStandardSendCall

\* ... with the data it stages in the service's other shared memory ...
Staged(op, state) ==
  CASE op = "FS_WRITE" -> [state EXCEPT !.data = FsDemoWriteData \o SubSeq(@, Len(FsDemoWriteData) + 1, FsDataLen)]
    [] op = "COMPOSITOR_COMMIT_BUFFER" -> [state EXCEPT !.frame = DemoFrame]
    [] OTHER -> state

\* ... and what a result arm makes of the answer found there.
FieldOf(tag)   == [tag |-> tag, hit |-> {}, miss |-> MAX]
TruthOf(tag)   == [tag |-> tag, hit |-> {1}, miss |-> 0]
FsOpenResult   == FieldOf("Opened")
FsStatResult   == FieldOf("Stat")
FsCloseResult  == TruthOf("Closed")
FsWriteResult  == FieldOf("Written")
FsReadResult   == FieldOf("Read")
CompositorCreateSurfaceResult == FieldOf("SurfaceCreated")
CompositorCommitVerify        == TruthOf("Committed")
CompositorDestroyResult       == TruthOf("Destroyed")
MmRegisterResult      == TruthOf("Registered")
MmUnregisterResult    == TruthOf("Unregistered")
MmQueryVictimResult   == FieldOf("Victim")
MmQueryTotalResult    == FieldOf("TotalResident")
DrvBlkProbeResult     == [FieldOf("Ready") EXCEPT !.miss = MaxU32]
DrvBlkWriteResult     == FieldOf("Completed")
NetBypassRequestResult == TruthOf("Granted")
NetStandardSendResult  == TruthOf("Relayed")

ResultOf ==
  [FS_OPEN_RESULT |-> FsOpenResult, FS_STAT_RESULT |-> FsStatResult, FS_CLOSE_RESULT |-> FsCloseResult,
   FS_WRITE_RESULT |-> FsWriteResult, FS_READ_RESULT |-> FsReadResult, FS_READ_RESULT_QUIET |-> FsReadResult,
   COMPOSITOR_CREATE_SURFACE_RESULT |-> CompositorCreateSurfaceResult,
   COMPOSITOR_COMMIT_VERIFY |-> CompositorCommitVerify, COMPOSITOR_DESTROY_RESULT |-> CompositorDestroyResult,
   MM_REGISTER_RESULT |-> MmRegisterResult, MM_UNREGISTER_RESULT |-> MmUnregisterResult,
   MM_QUERY_VICTIM_RESULT |-> MmQueryVictimResult, MM_QUERY_TOTAL_RESIDENT_RESULT |-> MmQueryTotalResult,
   MM_QUERY_TOTAL_RESIDENT_RESULT_QUIET |-> MmQueryTotalResult, DRV_BLK_PROBE_RESULT |-> DrvBlkProbeResult,
   DRV_BLK_WRITE_RESULT |-> DrvBlkWriteResult, DRV_BLK_READ_RESULT |-> DrvBlkWriteResult,
   NET_BYPASS_REQUEST_RESULT |-> NetBypassRequestResult,
   NET_STANDARD_SEND_REQUEST_RESULT |-> NetStandardSendResult]

Result(op, m) ==
  LET r == ResultOf[op] IN
    IF m.tag # r.tag THEN r.miss ELSE IF r.hit = {} THEN m.f[1]
    ELSE IF op = "COMPOSITOR_COMMIT_VERIFY" /\ svc.comp.confirm # DemoFrame THEN 0 ELSE 1
-----------------------------------------------------------------------------
\* The wire of each service: its namespace and its four codec tables.
Wire(ns, req, take, resp, read) == [ns |-> ns, req |-> req, take |-> take, resp |-> resp, read |-> read]
Driver == Wire("Driver", EncodeDriverRequest, DecodeDriverRequest, EncodeDriverResponse, DecodeDriverResponse)
Wires ==
  [fs   |-> Wire("Fs", EncodeFsRequest, DecodeFsRequest, EncodeFsResponse, DecodeFsResponse),
   comp |-> Wire("Display", EncodeDisplayRequest, DecodeDisplayRequest, EncodeDisplayResponse, DecodeDisplayResponse),
   mm   |-> Wire("Mm", EncodeMmRequest, DecodeMmRequest, EncodeMmResponse, DecodeMmResponse),
   ns   |-> Wire("NetBypass", EncodeNetBypassRequest, DecodeNetBypassRequest,
                 EncodeNetBypassResponse, DecodeNetBypassResponse),
   blk  |-> Driver, net |-> Driver]

ZeroedPage    == [ns |-> "", version |-> 0, op |-> 0, words |-> <<0, 0, 0, 0, 0, 0>>]
WriteReq(s, m)  == OverPage(Encode(Wires[s].req, Wires[s].ns, m))
WriteResp(s, m) == OverPage(Encode(Wires[s].resp, Wires[s].ns, m))
ReadReq(s)      == Decode(Wires[s].take, Wires[s].ns, page[s])
ReadResp(s)     == Decode(Wires[s].read, Wires[s].ns, page[s])

(***************************************************************************)
(* What a service may answer.  The devices decide for the drivers: a probe *)
(* may have failed, an operation may be given up.                          *)
(***************************************************************************)
DriverErrors == [ProbeFailed |-> 1, OutOfRange |-> 2, BadSharedRegion |-> 3, DeviceIo |-> 4,
                 Unsupported |-> 5, NoData |-> 6, DriverBusy |-> 7]
Failed(e)    == Req("Failed", <<DriverErrors[e]>>)

BlkAnswers(req) ==
  CASE req.tag = "Probe" -> {Req("Ready", <<1, 1>>), Failed("ProbeFailed")}
    [] req.tag \in {"ReadBlocks", "WriteBlocks"} ->
         {Failed("ProbeFailed"), Failed("DeviceIo"), Req("Completed", <<1>>)}
    [] OTHER -> {Failed("Unsupported")}
NetAnswers(req) ==
  CASE req.tag = "SendFrame" -> {Failed("ProbeFailed"), Failed("DeviceIo"), Req("FrameSent", <<>>)}
    [] req.tag = "PollFrame" -> {Failed("ProbeFailed"), Failed("NoData"), Req("FrameReceived", <<1>>)}
    [] OTHER -> {Failed("Unsupported")}

\* handle_bypass_request, RelayFrame apart
NsAnswer(req) ==
  CASE req.tag = "RequestDirectNic" -> Req("Granted", <<1, 0, 0, 4>>)
    [] req.tag = "Release"          -> Req("Released", <<>>)
    [] OTHER                        -> Req("Denied", <<>>)       \* not decoded

MayAnswer(s, state, req) ==
  CASE s = "fs"   -> {HandleFs(state, req)}
    [] s = "comp" -> {HandleDisplay(state, req)}
    [] s = "mm"   -> {HandleMm(state, req)}
    [] s = "blk"  -> {[svc |-> state, resp |-> m] : m \in BlkAnswers(req)}
    [] s = "net"  -> {[svc |-> state, resp |-> m] : m \in NetAnswers(req)}
    [] s = "ns"   -> {[svc |-> state, resp |-> NsAnswer(req)]}

\* What a service's process starts with.
Netstack == [phase |-> "arp", sent |-> FALSE, polls |-> 0, verdict |-> 0]
Fresh == [fs |-> FsBooted, comp |-> Compositor, mm |-> MmState, blk |-> <<>>, net |-> <<>>, ns |-> Netstack]
-----------------------------------------------------------------------------
(***************************************************************************)
(* The scheduler as the trap handlers use it.                              *)
(***************************************************************************)
Switch(n, rdy) == cpu' = n /\ ready' = rdy \ {n}

\* The core goes to n; with nobody Ready the trap returns to the blocked
\* caller instead.
SwitchIfAny(n, rdy) ==
  /\ cpu'    = IF rdy = {} THEN cpu ELSE n
  /\ ready'  = rdy \ {n}
  /\ mishap' = IF rdy = {} THEN "lost" ELSE mishap

\* pick_next: any Ready thread.
Pick(rdy) == \E n \in IF rdy = {} THEN {cpu} ELSE rdy : SwitchIfAny(n, rdy)

\* p2_ipc_call: straight to a parked receiver, which finds the caller in its
\* register, else queued and the core to whomever pick_next names.
BareCall(c, s) ==
  /\ waiting' = waiting \cup {c}
  /\ IF parked[s] > 0
     THEN /\ parked' = [parked EXCEPT ![s] = @ - 1]
          /\ from'   = [from EXCEPT ![s] = c]
          /\ SwitchIfAny(s, ready \cup {s})
          /\ UNCHANGED senders
     ELSE /\ senders' = [senders EXCEPT ![s] = Append(@, c)]
          /\ Pick(ready)
          /\ UNCHANGED <<parked, from>>

\* fs_ipc_call and its siblings: the core goes to the service's own thread
\* in either case, its register unchanged.
\* mutant of WrappedCall: a queued call trusts pick_next
WrappedCallTrusting(s) ==
  /\ waiting' = waiting \cup {Root}
  /\ IF parked[s] > 0
     THEN /\ parked' = [parked EXCEPT ![s] = @ - 1]
          /\ SwitchIfAny(s, ready \cup {s})
          /\ UNCHANGED senders
     ELSE /\ senders' = [senders EXCEPT ![s] = Append(@, Root)]
          /\ Pick(ready)
          /\ UNCHANGED parked

WrappedCall(s) ==
  /\ waiting' = waiting \cup {Root}
  /\ IF parked[s] > 0
     THEN /\ parked' = [parked EXCEPT ![s] = @ - 1]
          /\ SwitchIfAny(s, ready \cup {s})
          /\ UNCHANGED senders
     ELSE /\ senders' = [senders EXCEPT ![s] = Append(@, Root)]
          /\ SwitchIfAny(s, ready)
          /\ UNCHANGED parked

\* What a parked service finds in its register when nothing was poked: the
\* endpoint's slot number taken for a thread id (0 is the Root Task, 1 worker
\* B), or the opcode, which is no thread, on x86_64.
Unpoked(s) == IF arch = "x86_64" THEN Nobody ELSE IF s = "ns" THEN "b" ELSE Root
-----------------------------------------------------------------------------
(***************************************************************************)
(* The Root Task's steps.                                                  *)
(***************************************************************************)
RootRuns(does) == cpu = Root /\ mishap = "none" /\ ~Ended /\ Arms[arch][Step.op].does = does
Target         == Arms[arch][Step.op].svc
Continue(v)    == pc' = pc + 1 /\ reg' = [reg EXCEPT ![Step.dst] = IF Step.dst = "none" THEN 0 ELSE v]

Branch ==
  /\ RootRuns("branch")
  /\ pc' = pc + 1 + (IF reg[Step.a] = Step.bad THEN Step.skip ELSE 0)
  /\ UNCHANGED <<arch, reg, sched, queues, server, done, expected, hand, mishap>>

KernelStep ==
  /\ RootRuns("kernel") /\ Continue(0)
  /\ UNCHANGED <<arch, sched, queues, server, done, expected, hand, mishap>>

Store ==
  /\ RootRuns("store") /\ Continue(0) /\ hand' = 1
  /\ UNCHANGED <<arch, sched, queues, server, done, expected, mishap>>

Load ==
  /\ RootRuns("load") /\ Continue(hand)
  /\ UNCHANGED <<arch, sched, queues, server, done, expected, hand, mishap>>

P2Yield ==
  /\ RootRuns("yield") /\ Continue(0)
  /\ \E n \in IF ready = {} THEN {Root} ELSE ready : Switch(n, ready \cup {Root})
  /\ UNCHANGED <<arch, waiting, queues, server, done, expected, hand, mishap>>

(***************************************************************************)
(* The starts, in the order of the code; a failed step leaves the earlier  *)
(* ones done.  "spawn" makes the thread Ready.                             *)
(***************************************************************************)
P2IpcDemoStart         == <<"endpoint", "spawn">>
FsDemoStart            == <<"endpoint", "spawn", "grant", "page", "data">>
CompositorDemoStart    == <<"endpoint", "spawn", "grant", "page", "frame", "confirm">>
MmDemoStart            == <<"endpoint", "spawn", "grant", "page">>
SpawnVirtioBlkDriver   == <<"device", "endpoint", "spawn", "grant", "mmio", "page", "irq">>
SpawnVirtioNetDriver   == <<"device", "endpoint", "spawn", "grant", "mmio", "page", "tx", "irq">>
SpawnNetstackService   == <<"spawn", "drvgrant", "endpoint", "rx", "tx", "page", "status", "windows">>
StartSteps ==
  [srv |-> P2IpcDemoStart, fs |-> FsDemoStart, comp |-> CompositorDemoStart, mm |-> MmDemoStart,
   blk |-> SpawnVirtioBlkDriver, net |-> SpawnVirtioNetDriver, ns |-> SpawnNetstackService]

\* What a process touches before its first Recv.
Needs ==
  [srv |-> {}, fs |-> {"page", "data"}, comp |-> {"page", "frame", "confirm"}, mm |-> {"page"},
   blk |-> {"mmio", "page"}, net |-> {"mmio", "page", "tx"}, ns |-> {"rx", "tx", "page", "status"}]

Complete(s) == done[s] = Range(StartSteps[s])

\* Before it spawns the network stack the kernel ends the threads that would
\* spin on the core and blocks the file system.
\* mutant of Retire: worker B goes on
RetireServer(s) == IF s = "ns" THEN {"srv", "fs"} ELSE {}

Retire(s) == IF s = "ns" THEN {"srv", "b", "fs"} ELSE {}

Start ==
  LET s     == Target
      steps == StartSteps[s]
      kept  == ready \ Retire(s)
  IN
    /\ RootRuns("start")
    /\ \E k \in {Len(steps)} \cup {j \in 0 .. Len(steps) - 1 : <<s, steps[j + 1]>> \in Failable} :
         LET ok   == k = Len(steps)
             did  == Range(SubSeq(steps, 1, k))
             live == IF "spawn" \in did THEN kept \cup {s} ELSE kept
         IN
           /\ done' = [done EXCEPT ![s] = did]
           /\ at'   = [t \in Threads |->
                         IF t = s /\ "spawn" \in did THEN "boot"
                         ELSE IF t \in Retire(s) \ {"fs"} THEN "dead" ELSE at[t]]
           /\ Continue(IF ok THEN 0 ELSE Arms[arch][Step.op].none)
           /\ IF ok THEN Switch(s, live \cup {Root}) ELSE Switch(Root, live)
    /\ UNCHANGED <<arch, waiting, queues, from, page, svc, expected, hand, mishap>>

\* A call arm: shared data, page, then the wrapper.  The statics a start sets
\* decide what is found: without the memory it writes to the write goes astray
\* (the statics hold usize::MAX), without the endpoint (cap 0 is no endpoint)
\* the call is refused.
WritesTo(op) == IF op = "FS_WRITE" THEN {"data", "page"} ELSE {"page"}
Reachable(s) == IF s = "ns" THEN "endpoint" \in done[s] ELSE Complete(s)

\* net_bypass_request_call and net_standard_send_call look at the endpoint
\* before they write; the others do not.
\* mutant of Unserved: nobody looks
UnservedNever(s) == FALSE

Unserved(s) == s = "ns" /\ "endpoint" \notin done[s]

CallUnserved ==
  /\ RootRuns("call") /\ Unserved(Target) /\ Continue(0)
  /\ UNCHANGED <<arch, sched, queues, server, done, expected, hand, mishap>>

Call ==
  LET s     == Target
      req   == Request(Step.op, reg[Step.a], reg[Step.b])
      state == Staged(Step.op, svc[s])
  IN
    /\ RootRuns("call") /\ ~Unserved(s) /\ Continue(0)
    /\ IF ~(WritesTo(Step.op) \subseteq done[s])
       THEN mishap' = "wild" /\ UNCHANGED <<sched, queues, server, expected>>
       ELSE /\ page' = [page EXCEPT ![s] = WriteReq(s, req)]
            /\ svc'  = [svc EXCEPT ![s] = state]
            /\ expected' = [expected EXCEPT ![s] = {x.resp : x \in MayAnswer(s, state, req)}]
            /\ IF Reachable(s) THEN WrappedCall(s) /\ UNCHANGED <<at, from>>
               ELSE UNCHANGED <<sched, queues, at, from, mishap>>
    /\ UNCHANGED <<arch, done, hand>>

\* IPC_CALL to the demo's server; without it cap 0 is refused.
CallServer ==
  /\ RootRuns("bare") /\ Continue(0)
  /\ IF Complete("srv") THEN BareCall(Root, "srv") ELSE UNCHANGED <<sched, queues, from, mishap>>
  /\ UNCHANGED <<arch, at, page, svc, done, expected, hand>>

TakeResult ==
  LET s == Target IN
    /\ RootRuns("result")
    /\ Continue(IF "page" \in done[s] THEN Result(Step.op, ReadResp(s)) ELSE 0)
    /\ mishap' = IF "page" \notin done[s] /\ s # "ns" THEN "wild" ELSE mishap
    /\ UNCHANGED <<arch, sched, queues, server, done, expected, hand>>
-----------------------------------------------------------------------------
(***************************************************************************)
(* The other threads.                                                      *)
(***************************************************************************)
Runs(t, where) == cpu = t /\ mishap = "none" /\ at[t] \in where

\* umode_worker: look at the shared word, answer, yield, then spin.
UmodeWorker ==
  /\ Runs("b", {"boot"})
  /\ hand' = 2 /\ at' = [at EXCEPT !["b"] = "spin"]
  /\ \E n \in IF ready = {} THEN {"b"} ELSE ready : Switch(n, ready \cup {"b"})
  /\ UNCHANGED <<arch, pc, reg, waiting, queues, from, page, svc, done, expected, mishap>>

\* A process reaches its loop, or touches what was never mapped and is
\* terminated.
Boot(s) ==
  /\ Runs(s, {"boot"}) /\ s # "ns"
  /\ IF Needs[s] \subseteq done[s]
     THEN at' = [at EXCEPT ![s] = "recv"] /\ UNCHANGED <<cpu, ready, mishap>>
     ELSE at' = [at EXCEPT ![s] = "dead"] /\ Pick(ready)
  /\ UNCHANGED <<arch, pc, reg, waiting, queues, from, page, svc, done, expected, hand>>

\* IPC_RECV: a queued caller at once, else parked and the core to the Root
\* Task.
Recv(s) ==
  /\ Runs(s, {"recv"})
  /\ IF senders[s] # <<>>
     THEN /\ senders' = [senders EXCEPT ![s] = Tail(@)]
          /\ from'    = [from EXCEPT ![s] = Head(senders[s])]
          /\ ready'   = ready \cup {Head(senders[s])}
          /\ at'      = [at EXCEPT ![s] = "serve"]
          /\ UNCHANGED <<cpu, parked, mishap>>
     ELSE /\ parked' = [parked EXCEPT ![s] = @ + 1]
          /\ from'   = [from EXCEPT ![s] = Unpoked(s)]
          /\ at'     = [at EXCEPT ![s] = "parked"]
          /\ SwitchIfAny(Root, ready)
          /\ UNCHANGED senders
  /\ UNCHANGED <<arch, pc, reg, waiting, page, svc, done, expected, hand>>

\* Back from Recv, called or merely resumed: the request is whatever the page
\* holds.
Serve(s) ==
  /\ Runs(s, {"serve", "parked"})
  /\ IF s = "srv" THEN UNCHANGED <<page, svc>>
     ELSE \E x \in MayAnswer(s, svc[s], ReadReq(s)) :
            /\ page' = [page EXCEPT ![s] = WriteResp(s, x.resp)]
            /\ svc'  = [svc EXCEPT ![s] = x.svc]
  /\ at' = [at EXCEPT ![s] = "reply"]
  /\ UNCHANGED <<arch, pc, reg, sched, queues, from, done, expected, hand, mishap>>

\* IPC_REPLY: straight to the caller if it awaits a reply.  The demo's server
\* answers once and spins.
Reply(s) ==
  /\ Runs(s, {"reply"})
  /\ at' = [at EXCEPT ![s] = IF s = "srv" THEN "spin" ELSE "recv"]
  /\ IF from[s] \in waiting
     THEN waiting' = waiting \ {from[s]} /\ Switch(from[s], ready \cup {s})
     ELSE UNCHANGED sched
  /\ UNCHANGED <<arch, pc, reg, queues, from, page, svc, done, expected, hand, mishap>>
-----------------------------------------------------------------------------
(***************************************************************************)
(* The network stack: ARP, then an echo, each a SendFrame and a bounded    *)
(* number of PollFrames to the driver; then its loop, where a RelayFrame   *)
(* is one more SendFrame.                                                  *)
(***************************************************************************)
SendFrame == Req("SendFrame", <<1>>)
PollFrame == Req("PollFrame", <<>>)

CallDriver(req, state) ==
  /\ page' = [page EXCEPT !["net"] = WriteReq("net", req)]
  /\ svc'  = [svc EXCEPT !["ns"] = state]
  /\ at'   = [at EXCEPT !["ns"] = "wait"]
  /\ BareCall("ns", "net")

Park(verdict) ==
  /\ svc' = [svc EXCEPT !["ns"].verdict = verdict]
  /\ at'  = [at EXCEPT !["ns"] = "recv"]
  /\ UNCHANGED <<sched, queues, from, page, mishap>>

NsBoot ==
  /\ Runs("ns", {"boot"})
  /\ IF Needs["ns"] \subseteq done["ns"] THEN CallDriver(SendFrame, Netstack)
     ELSE at' = [at EXCEPT !["ns"] = "dead"] /\ Pick(ready) /\ UNCHANGED <<waiting, queues, from, page, svc>>
  /\ UNCHANGED <<arch, pc, reg, done, expected, hand>>

\* send_then_poll came to nothing, or parsed a reply.
NsGivesUp(ns)   == Park(IF ns.phase = "arp" THEN 1 ELSE 2)
NsSucceeds(ns)  == IF ns.phase = "arp" THEN CallDriver(SendFrame, [ns EXCEPT !.phase = "echo", !.sent = FALSE])
                   ELSE Park(3)
NsPolls(ns)     == IF ns.polls = MaxPolls THEN NsGivesUp(ns)
                   ELSE CallDriver(PollFrame, [ns EXCEPT !.sent = TRUE, !.polls = @ + 1])

\* Back from the driver, with its answer or merely resumed.
NsResume ==
  LET ns == svc["ns"]
      m  == ReadResp("net")
  IN
    /\ Runs("ns", {"wait"}) /\ ns.phase # "relay"
    /\ IF ~ns.sent
       THEN IF m.tag = "FrameSent" THEN NsPolls([ns EXCEPT !.polls = 0]) ELSE NsGivesUp(ns)
       ELSE \/ m.tag = "FrameReceived" /\ NsSucceeds(ns)            \* parsed
            \/ m.tag = "FrameReceived" /\ NsPolls(ns)               \* somebody else's
            \/ m = Failed("NoData") /\ NsPolls(ns)
            \/ m.tag # "FrameReceived" /\ m # Failed("NoData") /\ NsGivesUp(ns)
    /\ UNCHANGED <<arch, pc, reg, done, expected, hand>>

NsRelay ==
  /\ Runs("ns", {"serve", "parked"}) /\ ReadReq("ns").tag = "RelayFrame"
  /\ CallDriver(SendFrame, [svc["ns"] EXCEPT !.phase = "relay"])
  /\ UNCHANGED <<arch, pc, reg, done, expected, hand>>

NsRelayed ==
  /\ Runs("ns", {"wait"}) /\ svc["ns"].phase = "relay"
  /\ page' = [page EXCEPT !["ns"] = WriteResp("ns", Req(IF ReadResp("net").tag = "FrameSent" THEN "Relayed" ELSE "Denied", <<>>))]
  /\ at'   = [at EXCEPT !["ns"] = "reply"]
  /\ UNCHANGED <<arch, pc, reg, sched, queues, from, svc, done, expected, hand, mishap>>

NsServe == Serve("ns") /\ ReadReq("ns").tag # "RelayFrame"
-----------------------------------------------------------------------------
\* The thread on the core changes nothing any more: the script is done, or a
\* loop that never yields has the core.
Spin ==
  /\ mishap = "none" => IF cpu = Root THEN Ended ELSE at[cpu] \in {"spin", "dead"}
  /\ UNCHANGED vars

ScriptInit ==
  /\ arch \in Arch /\ pc = 1 /\ reg = Registers
  /\ cpu = Root /\ ready = {"b"} /\ waiting = {}
  /\ senders = [s \in Started |-> <<>>] /\ parked = [s \in Started |-> 0]
  /\ at   = [t \in Threads |-> IF t = "b" THEN "boot" ELSE "none"]
  /\ from = [s \in Started |-> Nobody]
  /\ page = [s \in Served |-> ZeroedPage] /\ svc = Fresh
  /\ done = [s \in Started |-> {}] /\ expected = [s \in Served |-> {}]
  /\ hand = 0 /\ mishap = "none"

Advance ==
  \/ Branch \/ KernelStep \/ Store \/ Load \/ P2Yield \/ Start \/ CallUnserved \/ Call \/ CallServer \/ TakeResult
  \/ UmodeWorker
  \/ \E s \in Started : Boot(s) \/ Recv(s) \/ Reply(s)
  \/ \E s \in Started \ {"ns"} : Serve(s)
  \/ NsBoot \/ NsResume \/ NsRelay \/ NsRelayed \/ NsServe

ScriptNext == Advance \/ Spin
-----------------------------------------------------------------------------
(***************************************************************************)
(* When the script takes a result of the file system, the compositor or    *)
(* the memory service, and that service was started, the page holds the    *)
(* answer to the request before it, on every port and whatever the         *)
(* scheduler picked meanwhile.  (A file system whose start failed after    *)
(* its page was set is still asked: the call is refused and the request    *)
(* itself is read back as the response with the same opcode.)              *)
(***************************************************************************)
ResultIsAnswer ==
  cpu = Root /\ ~Ended /\ Arms[arch][Step.op].does = "result" /\ Target \in {"fs", "comp", "mm"} /\ Complete(Target)
    => ReadResp(Target) \in expected[Target]

(***************************************************************************)
(* No step of the boot writes through a pointer that was never set, leaves *)
(* the core with a blocked thread, or runs out of threads, whichever start *)
(* failed at whichever step, but for two the code does not guard: the      *)
(* script ignores FS_DEMO_START's result and writes its requests to the    *)
(* page and the data page all the same, and the calls to the network stack *)
(* look at its endpoint, which is set before its page and the status       *)
(* region it writes first.                                                 *)
(***************************************************************************)
FsUnguarded == ~Complete("fs") /\ Arms[arch][Script[arch][pc - 1].op].svc = "fs"   \* the call just made
NsUnguarded == "endpoint" \in done["ns"] /\ ~(Needs["ns"] \subseteq done["ns"])
NsRefused   == at["b"] = "dead" /\ "spawn" \notin done["ns"]
NoMishap ==
  mishap # "none" => FsUnguarded \/ NsUnguarded \/ (mishap = "lost" /\ arch = "x86_64" /\ NsRefused)

(***************************************************************************)
(* The boot script reaches its last step: no thread keeps the core for     *)
(* good, although three of them end in a loop that never yields; only a    *)
(* mishap ends the boot before, or a call to a network stack that died on  *)
(* what its start never mapped: the Root Task waits for its reply for ever.*)
(***************************************************************************)
Settled    == (cpu = Root /\ Ended) \/ mishap # "none" \/ (NsUnguarded /\ Root \in Range(senders["ns"]))
ScriptEnds == <>Settled
=============================================================================
