# Simurgh OS: a TLA+ verification

Simurgh OS is a capability microkernel written in Rust with its services in
user mode. This directory holds TLA+ specifications of it, from the firmware's
memory map to the boot script of the first process, the TLC configurations that
check them on small instances, and TLAPS proofs, for instances of any size, of
the capability tables, in-kernel and user-mode IPC, the scheduler and the
preemptive phase it runs, user contexts, driver recovery, the carving of untyped
memory, the Map syscall, the virtio drivers' binding, queues and waits, the
message codecs and the file system's handles. Source paths are relative to
`src/`.

## Inventory

### Capability tables (`kernel/kernel-cap`)

State: one `CapTable<N>` per capability space: an array of slots, a LIFO free
list through the empty slots, a count of occupied ones. A slot holds a
`Capability` (object, rights, badge) and an optional parent, a `GlobalCapId`
(space, slot) that may name a slot of another space. There are no child
pointers: a subtree is found by walking upwards.
Operations: `insert_root`, `derive_child`, `derive_child_cross_space`,
`revoke`, `revoke_cross_space`.
Hard: links between tables, revocation that marks first and releases after,
slots reused while stale indices to them may exist, the walk's step bound.
Correct when: rights never grow along a derivation, a badge once given is kept,
no link dangles or forms a cycle, revoking takes the subtree and nothing else,
and no slot is lost or handed out twice.

### Endpoints, threads and the syscall dispatcher (`kernel/kernel-ipc`, `kernel/kernel-core`)

State: `Endpoint` (bounded FIFO of queued senders with message and kind,
bounded FIFO of parked receivers), `Tcb` (state, `pending_msg`,
`pending_from`), the scheduler's entities. Operations: `dispatch` of Send,
Call, Recv, Reply, Signal, Wait, Poll, CapGrant, CapRevoke, Retype, Map,
IrqBind, Yield.
Hard: a blocked thread's state lives in four places (TCB, entity, queue,
pending message) written by different handlers; the caller of `dispatch` has to
carry out the `Reschedule` it is answered with, and several callers do so
differently.
Correct when: a Call returns with a reply to it, a Recv with a message, a
blocked thread is queued once, the thread on the core is the one the scheduler
calls running, and a dead thread never runs.

### Kernel/user glue (`kernel/kernel-arch-glue`, `kernel/kernel/src/main.rs`)

State: saved contexts, the fixed thread ids of the services, `PENDING_CRASH`,
`WATCHED_DRIVER_TID`, `DM_TID`, tick counters. Operations: the trap handlers
`IPC_CALL`, `IPC_RECV`, `IPC_REPLY`, the `*_ipc_call` wrappers of the services,
`P2_YIELD`, the timer tick, `p2_fault`, the crash hand-off to the device
manager, `DRV_IRQ_WAIT` and the device interrupt; spawning of processes, wiring
of PCI devices, and one trap arm per service opcode, written once per port.
Hard: an interrupt between any two traps, a fault of any process, direct
switches that bypass `pick_next`, pages shared with a service that hold the
request before and the answer after, starts that fail halfway.
Correct when: every result the Root Task reads is the answer to the request it
made, nothing is written through an address that was never set, the script
reaches its end, every crash of the watched driver is counted once.

### Traps and user contexts (`hal/hal-*/src/cpu.rs`)

State: the frame a vector pushed, the core's return registers, one
`UserContext` buffer per thread. Operations: system call, tick and fault entry,
the outcomes `Resume`, `Resume2`, `SwitchTo`, `SwitchToFast`, `Terminate`,
`poke_saved_a0_a1`, `init_user_context`.
Hard: two pairs of save and restore use one buffer and leave different parts of
it alone; an interrupt inside a waiting system call overwrites the return
registers; three ports, in assembly, each with its own convention for the
program counter and the stack pointer.
Correct when a thread that runs again finds its place, its registers and its
answer, and never another thread's values.

### Scheduler (`kernel/kernel-sched`)

State: an entity per thread (run state, mode, priorities, virtual runtime,
group), chain groups with a shared runtime, the running thread. Operations:
`admit`, `remove`, `note_ready`, `note_blocked`, `inherit_priority`,
`restore_priority`, `create_group`, `join_group`, `leave_group`, `account`,
`pick_next`, `dispatch`.
Correct when: `running` names an admitted entity that is Running, members and
groups name each other, an urgent interactive thread is served.

### Memory (`uefi-bootloader`, `hal/hal-*/src/memory.rs`, `kernel/kernel-core/src/state.rs`, `kernel/kernel-mm`)

The boot loader loads the kernel's segments and copies the firmware's memory
map into a handoff block; a HAL classifies it into the bounded tables of the
hardware manifest; the kernel cuts the holes out and makes `Untyped` objects of
the rest. `Untyped`: a region with a watermark. Object tables, capability
spaces, page tables, stacks and segments are carved from it, and nothing is
given back. `AddressSpace`: a bounded table of disjoint mappings, kept next to
the hardware's tables.
Hard: overlapping and nested holes, tables that fill, failures halfway, ranges
that end inside a page, a walk that runs out of frames.
Correct when: what becomes Untyped is usable memory that nobody holds and no
more of it is lost than the tables force; no two uses of a page overlap; the
software's and the hardware's translation agree.

### Services and drivers (`subsystems`, `ipc-protocol`)

Device manager (restart policy, request log), memory service (OOM and swap
victims), VFS router (mount table), native file system, compositor, network
stack, virtio drivers. Each is a single-threaded loop around Recv and Reply,
with hand-written encoders and decoders for its messages.
Hard: a request given up on that the device completes later, indices that wrap,
the kernel using a driver's ring behind its back, restart windows, encoder and
decoder that are separate tables.

### Platform (`hal`)

Interrupt controllers, timers, power, direct hardware access: register access.

## How the parts interact

A process traps into the kernel; `simurgh_syscall` (`kernel/kernel/src/main.rs`)
decodes the opcode and calls `kernel-arch-glue`, which calls
`KernelState::dispatch` and then performs the context switch the answer asks
for, or one it decided on itself. `dispatch` resolves capabilities in the
caller's table, changes endpoints, notifications, address spaces and TCBs, and
tells the scheduler. Device interrupts enter through a trampoline registered by
`IrqBind`, which signals the bound notification. Everything runs on one core;
concurrency is the interleaving of threads at traps, of interrupts wherever they
are enabled, and of devices.

## Modules and the code

| module | models | run |
|---|---|---|
| `CapSpec` | the capability forest, abstractly | `caps` |
| `CapTable`, `MCCaps` | slot tables, free lists, the upward walk; implements `CapSpec` | `caps` |
| `CapSpecProofs` | theorems about `CapSpec` | |
| `CapTableProofs` | the tables implement the forest; free lists | |
| `IpcCore` | the kernel's IPC operations and the IPC properties | |
| `Ipc`, `MCIpc` | in-kernel threads using `IpcCore` | `ipc`, `ipc_queued_call` |
| `IpcProofs` | theorems about `Ipc` | |
| `UserIpc`, `MCUserIpc` | processes using `IpcCore` through traps | `user_ipc`, `user_dead_service`, `user_ipc_x86` |
| `UserIpcProofs` | theorems about `UserIpc` | |
| `BootMemory` | boot loader, HAL discovery, manifest, `subtract_holes` | `memory` |
| `KernelObjects` | untyped memory, Retype, object tables, process loading | `memory` |
| `PageTables`, `MCPageTables` | the Map syscall | `memory`, `map_pool_exhausted` |
| `MemoryProofs` | theorems about `PageTables` and `KernelObjects` | |
| `MCMemory` | the three above and `TrapContext`, each on its own | `memory` |
| `IrqWait` | a driver waiting for its interrupt | `irq_wait`, `irq_wait_riscv` |
| `VirtioQueue` | rings and completions of both virtio drivers, the bypass | `irq_wait` |
| `Virtio` | PCI wiring and probing of a device | `irq_wait` |
| `DeviceProofs` | theorems about `IrqWait`, `VirtioQueue` and `Virtio` | |
| `MCDevices` | wait, queues and binding | `irq_wait` |
| `Scheduler`, `SchedApi` | the scheduler as a value; any sequence of its calls | `processes` |
| `Supervision` | ticks, faults, crash hand-off and respawn, traps of services left ready | `processes` |
| `SchedProofs` | theorems about `SchedApi` and `Supervision` | |
| `DriverRecovery` | restart policy and request log | `processes` |
| `TrapContext` | registers across traps and switches, three ports | `memory` |
| `ProcessProofs` | theorems about `DriverRecovery`, `TrapContext`, `Codec` and `Services` | |
| `MCProcesses` | scheduler, supervision and recovery, each on its own | `processes` |
| `Codec` | every request and response of every protocol | `root_task` |
| `Services` | file system, compositor, memory service, mount table | `root_task` |
| `RootTask`, `MCRootTask` | the boot script of each port against all services | `root_task` |

`PROJECT.json` maps every definition to its source lines. Where several parts
share a run they share no state: a variable `part` says which one a behaviour is
about, and each is explored completely.

**CapSpec / CapTable.** `CapSpec` has two functions over (space, slot) nodes:
the capability in it and its parent. Its three actions are insertion of a root,
derivation (rights intersected, badge kept once set) and revocation of a
subtree. `CapTable` adds what the code has: spaces created one after another,
the LIFO free list, the count, and `is_descendant_of`, a walk of one step more
than there are slots at most. `ImplementsForest` is `CapSpec`'s specification under
the mapping that reads the slots.

**IpcCore, Ipc, UserIpc.** State: per thread the TCB (`state`, `pendingMsg`,
`pendingFrom`) and the scheduling entity; per endpoint the two queues; which
thread the core executes (`cpu`) and which the scheduler calls running
(`running`), which are different things in this code; and, for the properties,
what each thread is inside of (`inside`) and whom a server owes a reply
(`client`). `IpcCore` holds what `dispatch` does. The two users of it differ in
how they act on `Reschedule`: in-kernel threads call `yield_to`; the traps
switch to a thread of their own choice (the Root Task after a blocking Recv, the
service's thread after a call wrapper), whatever `pick_next` said. Here `pick_next`
is any Ready thread (`Scheduler` has the real choice). The opcode `Yield` has no consumer. Where `running` is not
the thread on the core the trap would act for somebody else; the model follows
no further there.

**PageTables.** One action for a Map that succeeds and one for a Map whose
hardware walk fails; refused calls change nothing. The tables are explicit, with
a small fan-out and the frame pool; `Translate` is the software model's answer
and `HardwareTranslate` the processor's. Addresses count pages and wrap at
`Pages`. Pages the boot code maps without telling the software model are not
among `Vaddr`, except for the kernel's superpage leaves (`BootLeaf`).

**IrqWait.** `pc` is where the driver's thread is: in its own code, before a
Wait, or in one of the places of the idle loop. The device completes requests
and raises its line; other interrupts may wake the core. `Arch` selects the
idle primitive: x86_64 cannot be interrupted between enabling and sleeping,
aarch64 is redirected past `wfi`, riscv64 returns to it. A Wait that finds the
list full leaves `running()` without a thread: the driver goes on, its next trap
is taken for the Root Task's, and its reply and its receive are refused again and
again (place `refused`).

**VirtioQueue, Virtio.** A driver owns one descriptor chain per queue, private
copies of the indices it published, and the test "used equals what I published
last". The device takes and finishes requests whenever it likes. A request given
up on stays with the device; `net_bypass_direct_send` advances the transmit ring
without the driver. `Virtio` is a function of the hardware: capability list, BAR
windows, MSI-X, the header left for the driver, and `do_probe` over either
transport, with table pools running out anywhere. The variable `hw` holds the
device and the number of pools left, `Hardware` the devices there may be; the
registers' width is `WordMod`.

**BootMemory.** A map of small pages with UEFI types; the loader's own
allocations change it between the two calls; classification, coalescing and the
bounded tables are the HAL's, for UEFI on x86_64 and aarch64 and for the device
tree on riscv64, with the ACPI, PCI and virtio-mmio discovery that fills the
peripheral table. `subtract_holes` and the seeding of Untyped objects follow.

**KernelObjects.** Addresses count half pages, so that a segment may start inside
a page. Every use of memory is recorded with its owner: kernel objects made by
Retype, page-table roots and pools, stacks, segments, the in-kernel
demonstration's spaces. A call that fails keeps what it took. Retype's loop over
the objects is written in closed form: how many of them the object table and the
capability space take before it stops, and the row of pages they lie in.
`CarvedFrom` says that one piece of memory lies in a region another became, over
any number of regions in between.

**Scheduler, SchedApi, Supervision.** A scheduler is a record, its methods are
operators on it, and the decisions of `preempt.rs` compose them in the code's
order. `SchedApi` lets the thread on the core and the handlers call them in any
order, with virtual runtimes kept relative to the smallest. `Supervision` is the
preemptive phase: the Device Manager, the driver that faults on its first
instruction, processes B and C, the fresh thread of A and the services under
ticks and faults. It starts in any state the boot script can leave: with a network
stack (which has retired B and the demonstration's server and blocked fs-native)
or without one, every service ready or parked, requests of the stack still queued
at its driver. A service left ready by its last reply traps IPC_RECV once a tick
picks it, and `p2_ipc_recv` hands the core to the Root Task, which
`P2_PREEMPT_START` has removed: the dispatch fails unseen and the core continues
in the Root Task's saved context with nobody running. So the model keeps apart the
thread the scheduler names (`pSched.running`), the thread whose program has the
core (`pCore`), and whose program each saved context holds (`saved`): a tick that
finds nobody running dispatches a thread and leaves the core where it is, and the
next one saves the Root Task's loop over that thread's context.

**DriverRecovery.** `Supervised` against a clock, and `RequestLog` with clients
that resend and answers that come late.

**TrapContext.** Registers are grouped by what the save and restore pairs do with
them: kept by the calling convention, scratch, return registers, sp. A value
names its thread and a version, so that a stale or foreign one is seen. One
operator per port for the vector, the in-place return, the full save, the set of
registers of the fast save and the set the fast restore zeroes. The fast path is
taken before and after the timer is armed, and may resume a thread that a tick
stopped (an IPC_CALL that is queued switches to whatever `pick_next` chose). The
Root Task's retirement and the stray hand-over to it (`RecvIntoRetired`) are
actions; as in `Supervision`, `named` is what the scheduler says and `running`
whose program has the core, and `seen` is what a stopped thread must find again.

**Codec, Services, RootTask.** A message is a variant with its fields; encoder
and decoder are two tables, with words of a small width so that narrowing shows.
Services are functions from a state and a request to a state and a response.
The messages and the file system also have specifications of their own, for
the properties about them alone: `CodecSpec` sends one message of one type
(`sent`), and `FsSpec` is the loop of fs-native (`memfs`) under any requests of
`FsCalls`, until `MaxHandles` handles were given out.
`RootTask` runs the script of each port, opcode by opcode, against them: the trap
arms, the call wrappers with their direct switches, the shared pages with stale
contents, the starts that may be refused at any of their steps, the polls of the
network stack. A call writes to the pages its service's start was to set
(`WritesTo`), set or not; a write through one that was not ends the model as a
`mishap`.

## Runs

| run | result | states | what it shows |
|---|---|---|---|
| `caps` | pass | 33,883 | The slot tables with free lists and the bounded upward walk implement the abstract capability forest: they lose or share no slot, never widen authority, grow no cycle and revoke whole subtrees across tables and nothing else. (`NeverAmplified`, `Acyclic`, `FreeListExact`, `RevocationComplete`, `ImplementsForest`) |
| `ipc` | pass | 721,050 | In-kernel threads that send and call at any time, and ones that call only a parked receiver: endpoints, running thread and receivers stay sound; with parked receivers also TCBs, scheduler and queues agree and every Call returns with its reply. (`Rendezvous`, `RecvReturnsMessage`, `ParkedAgree`, `ParkedCallReturnsReply`, `ParkedNoOverwrite`) |
| `ipc_queued_call` | violation |  | A Call that had to be queued returns without its reply: Recv makes the caller ready before anybody answered it. (`CallReturnsReply`) |
| `user_ipc` | pass | 308,311 | The Root Task uses two services through the call wrappers, in half of the behaviours with bare calls and threads dying at any time: while nobody dies every call returns, with a reply, on the thread the scheduler calls running. (`CalmRunningIsOnCpu`, `CalmCallReturnsReply`, `CallAnswered`) |
| `user_dead_service` | violation |  | Handing the core to a fixed thread without asking whether it lives resumes the saved context of a terminated thread. (`DeadNeverRuns`) |
| `user_ipc_x86` | violation |  | On x86_64 the first wrapped call to a parked service leaves the opcode in the register the service takes its caller from; it cannot reply, and the call returns without a reply. (`CalmCallReturnsReply`) |
| `memory` | pass | 405,868 | What a process is made of, four parts in one run: the boot loader, the three HALs and the kernel turn every small firmware map into untyped memory; retypes, process spawns and their failures carve it up; two address spaces map pages over a sufficient table pool; and a thread finds its registers again on all three ports, across any mix of traps, full and fast switches before and after the timer is armed, nested interrupts, terminations and stray hand-overs to the retired Root Task. (`ModelMatchesHardware`, `PoolFramesLinkedOnce`, `BootMemoryExact`, `NoDoubleUse`, `TranslationStable`, `RegistersKept`) |
| `map_pool_exhausted` | violation |  | A walk that runs out of pool frames halfway leaves a frame linked that the pool still counts as free; the next Map uses it twice. (`ModelMatchesHardware`) |
| `irq_wait` | pass | 463,099 | The virtio drivers. Waiting on aarch64, with spurious device interrupts, unrelated wakeups that fill the waiter list and a driver that gives up: no signal is slept through, and until the list fills the scheduler knows who runs and every request is answered; after that the answer may be refused for ever. The queues, with a device that finishes in any order, requests given up on, indices that wrap and the kernel sending behind the driver: what the driver answers is what the device did. Binding, over every capability list of three entries: the driver reaches its own device. (`NeverSleepsOnSignal`, `SleeperIsQueued`, `RunsAsItself`, `NoStaleWaiter`, `AnswersMatchDevice`, `BoundToItsDevice`, `RequestAnswered`) |
| `irq_wait_riscv` | violation |  | riscv64 unmasks before wfi and returns to wfi: an interrupt taken in between is slept through for ever. (`RequestAnswered`) |
| `processes` | pass | 521,460 | Threads and their supervision: any sequence of scheduler calls keeps one running thread and its groups and serves urgent threads; the restart policy and the request log alone; and the preemptive phase, in which services left ready trap IPC_RECV into the retired Root Task's context: crashes of a driver are counted whoever runs, faults and traps find the right thread, and without such a stray the driver is given up and every fresh process runs. (`SchedulerAgrees`, `CoreIsRunning`, `CrashesCounted`, `LogExact`, `RestartsRationed`, `InteractiveServed`, `DriverGivenUp`) |
| `root_task` | pass | 351,969 | The boot script of every port against all its services, with devices missing, any scheduling choice and starts failing, every step of the file system's and the network stack's included: a result read from a started service is the answer to the request before it, nothing is written astray except behind those two starts, which the code does not guard, and otherwise the script reaches its end; and, on their own, the codecs carry every message, the registries choose exactly, mounts resolve by component and file handles are never reused. (`CodecsExact`, `ChoicesExact`, `ResolvesLongest`, `BootResultIsAnswer`, `BootNoMishap`, `HandlesNeverReused`, `BootScriptEnds`) |

**Bounds.** Two spaces of two slots give derivations across spaces, chains of
four, and reuse of a released slot. Three clients and one server with queues of
two fill a queue, leave several callers waiting and let a bystander be picked
instead of the answered thread. Two services let one call nothing while the
other serves. Fan-out 2 gives a three-level walk with shared and separate
intermediate tables; the pool is large enough in `memory` and one short in
`map_pool_exhausted`. Boot maps of a few pages over all types give every overlap
and nesting of two holes, full region and peripheral tables, and a final map
longer than the exploratory one; regions of 5 to 46 half pages exhaust Retype and
process loading at each of their steps. A waiter list of two, three unrelated
wakeups and three requests reach the full list, the give-up and a completion
that arrives late; indices wrap at 4 with a ring of 2. Retype makes up to two
endpoints or untyped regions at a time (`MaxRetype`, `RetypeKinds`), which fills
the tables and nests regions. Words of 8 bits instead of 32 (`WordMod`) put a
wide BAR's base into both of its halves, and 2 or 9 table pools run out before,
between and after the windows. A restart budget of 2, six
ticks and one fault of another process reach the give-up with the manager
blocked, woken and preempted; a window of 2 in a time of 6 reaches the edges of
the restart window. Two services (`Services`), the network stack and its driver,
with up to two queued requests (`MaxAsked`) reach a stray into the retired Root
Task from either, one more after it, and every answer and call between the two;
a service that is neither does what the driver does with no request. What the
demonstrations left B and the services behind by is nothing or a full slice
(`LagBound`), so that each is picked before and after the fresh threads. Three
threads, two of them interchangeable, and five traps, at most two of them before
the timer is armed (`MaxEarly`), give each a fast save followed by a full restore,
the reverse, a nested interrupt, a preemption and a stray.
Each service is started and refused on each port: the file system and the network
stack at every step of their starts (`MCFailable`), because the code does not
guard these two; the others for a missing device (`blk`, `net`), at one early or
late allocation (`blk`, `comp`, `mm`, the demonstration's server); a u32 of 8 values and a
u64 of 10 show every narrowing; file handles (`MaxHandles`), registry entries and path
components are at most three.

**Deadlock.** `CHECK_DEADLOCK FALSE` stands where the system may stop: all
in-kernel threads blocked park the core, a fault with nothing Ready halts, a full
mapping table or an exhausted region ends the calls, the bounded drivers, clocks
and traps finish. `caps` and `root_task` are checked for deadlock.

**Fairness.** `UserIpc`, `RootTask`: the single core goes on executing the thread
it was handed to, so a service that has the core takes its next step and a
resumed thread returns from its trap; nothing is assumed of the other processes.
`IrqWait`: the core executes its instructions, the device completes what it was
given, and an enabled pending interrupt is taken; `irq_wait_riscv` is refuted
under these same assumptions. `SchedApi`, `Supervision`: the armed timer keeps
ticking, and the Device Manager and the driver execute when they have the core;
nothing is assumed of the services' traps.

**Known limits of passing runs.** Some properties hold only inside the stated
instance, and TLC refutes them outside it: with addresses above the walk's top
index in `Vaddr`, Map of an unreachable page redirects another one
(`ModelMatchesHardware`); with the topmost page, the end of a mapping is 0 in a
build without overflow checks and overlaps go unseen; an `IrqBind` refused by
`register_irq` has already redirected the line (`IrqWait!RebindSpec`).
Others except, by name, what the code does not guard: after as many unrelated
wakeups as the list has places the driver runs while the scheduler calls nobody
running and its answer may be refused for ever (`RequestAnswered` says when);
after a service strayed into the retired Root Task the driver may not be given up
and fresh processes may not run (`DriverGivenUp`); behind a refused start of the
file system or the network stack the script may write through an address that was
never set or wait for ever (`BootNoMishap`, `BootScriptEnds`). A stopped driver's
`DRV_IRQ_WAIT` in the preemptive phase is left to `IrqWait`.

## What reading the code against the model showed

Besides the five findings listed in `PROJECT.json`:

- The service calls return through `SwitchToFast`, which zeroes the scratch
  registers, while `raw_syscall` declares no clobbers and its comments
  (`kernel/kernel/src/main.rs:1703`, `mm-service/src/subsystem_entry.rs:73`)
  promise that every register but the return register survives, and
  `TrapOutcome`'s own says the fast path is used by the three IPC calls only.
  `RegistersKept` promises scratch registers only where no fast path was
  involved; that `raw_syscall` is never inlined is what protects its callers.
- A preempted thread must not be resumed by the fast path, or it loses its scratch
  registers and, if an answer is poked, the registers of that. The code does not
  rule it out: the boot script may end with a request or two of the network stack
  queued at its driver, the two then go on exchanging messages after the timer is
  armed, and an IPC_CALL that is queued resumes whatever `pick_next` chose.
  `RegistersKept` promises a thread stopped by a tick all its registers unless
  another thread's IPC resumed it.
- "Nothing ever dispatches it again", says `p2_preempt_start` of the Root Task
  (`kernel-arch-glue/src/lib.rs:1214`); `p2_ipc_recv` ignores that dispatching it
  fails and resumes its saved context (`lib.rs:1691`), for any service left ready
  but fs-native and the demonstration's server, which `p2_preempt_start` parks or
  removes for this very reason.
  The Root Task's program is then an endless loop with nobody running. Ticks save
  it over the context of whichever thread they dispatched, so that one is lost
  (fresh threads included), and an answer for that thread reaches the loop; if the
  tick dispatched the Device Manager, ticks spare the loop from then on.
- The waiter list holds one entry per wakeup. When unrelated wakeups have filled
  it, Wait fails after an earlier one already cleared `running()`; the driver's
  reply is then taken for the Root Task's, refused, and sent again for ever.
- The script ignores the result of `FS_DEMO_START` (`kernel/src/main.rs:1400`),
  and `fs_open_call`'s comment relies on it ("`fs_demo_start` has already run",
  `lib.rs:2303`): after a refused start the requests go through `usize::MAX`. If
  only the page was set, the call is refused and the request is read back as its
  own answer, since request and response opcodes coincide (`codec.rs:53`, `170`).
- `net_bypass_request_call` checks the endpoint and concludes that the page "is
  valid too" (`lib.rs:5745`); a start that failed in between sets only the first.
  A network stack whose status region was not mapped dies on it, and the Root Task
  waits for its reply for ever; on x86_64 a refused spawn of the stack, after B was
  retired, leaves the core to nobody.
- fs-native adds offset and length of a write unchecked (`fs-native/src/lib.rs:141`);
  a build with overflow checks panics there (`Services`: `panicked`), one without
  would panic on the slice that follows.
- `NewCaps` is documented as a run of slots (`syscall.rs:189`); slots come from a
  free list and need not be adjacent.
- Map takes the base page of an Untyped whatever its watermark says; the first
  Untyped's base is the Root Task's page table.
- The riscv64 device-tree walk counts the root node as a device of its own and
  never enters the nodes below it, so the defaults are always used
  (`hal-riscv64/src/memory.rs:255`).
- The handoff buffer's size is checked against the exploratory memory map only
  (`uefi-bootloader/src/main.rs:317`); the model ends in an overrun there.
- The firmware's page tables may lie in boot-services memory, which is classed
  usable while the core still runs on them.
- `poll_rx` returns the receive buffer to the device before the network stack has
  read the frame; the block driver's interrupt trampoline reads the device's
  status through an address mapped only in the driver's space
  (`kernel-arch-glue/src/lib.rs:4361`, and the comment at 4863); a device without
  a notify or ISR capability is wired with address 0 for it.
- Throughput threads can starve: interactive ones always outrank them.

## Proofs

Each theorem is for every value of the constants that satisfies the assumptions
named; TLC evaluates those assumptions in the runs. Every proof follows one
pattern: an inductive invariant, one step per action, and the property as a
consequence.

**Capability forest (`CapSpecProofs`).** For any spaces, slots, objects, rights
and badges (`BadgeAssumption`: the null badge is a badge; `NoneAssumption`: the
marker of an empty slot is neither a capability nor a node), `ForestInv` (types,
live parents, no amplification, no cycle) is inductive, and from it follow
`NeverAmplified`, `Acyclic` and `RevocationComplete`. The parts need each other:
acyclicity survives a derivation because the new node's slot was empty and no
live node names an empty slot as its parent, which is `ParentsLive`;
`ParentsLive` survives a revocation because a child of a released node is in its
subtree.

**Capability tables (`CapTableProofs`).** The tables implement the forest
(`ImplementsForest`), and so inherit its theorems. Two things make that hard. The
free list is a chain through the vacant slots; its invariant says that it has no
repetition, holds exactly the vacant slots and agrees with the count, so the head
is always a vacant slot and a released slot was not in it. And revocation finds a
subtree by walking upwards for a bounded number of steps: on an acyclic forest a
walk visits no slot twice, so one step more than there are slots reaches the root
of every chain, and the bounded walk finds exactly the descendants.

**In-kernel IPC (`IpcProofs`).** From `ThreadAssumption`, `QueueAssumption`
(queues have a capacity) and `RoleAssumption` (no server is a client). There are
two invariants. The
first, `IpcSound`, holds of every behaviour: queues keep their bounds, hold
senders or receivers but never both, a thread blocked in Recv is in one place of
one queue, and the thread on the core is the only Running one. It gives
`Rendezvous`, `RecvReturnsMessage` and that a parked receiver can be woken. The
second says that TCB, entity, syscall, queue place and pending message of every
thread agree; only a Call that was queued breaks it (Recv makes the caller ready
before anybody answered, which is what `ipc_queued_call` exhibits), so it is
stated for behaviours whose clients call parked receivers. It gives
`ParkedAgree`, `ParkedCallReturnsReply` and `ParkedNoOverwrite`.

**Scheduler (`SchedProofs`).** From `SchedAssumption`. After any sequence of
calls `SchedulerAgrees` holds: what is admitted has its types, Running is the
state of the thread `running()` names and of no other, threads and chain groups
name each other in both directions. The operators of `Scheduler` are shown one by
one to keep this; that `pick_next` returns a Ready thread whenever there is one
rests on a least element of its order, obtained from the well-foundedness of the
naturals.

**The preemptive phase (`SchedProofs`).** `CoreIsRunning` and `CrashesCounted`
for any restart and tick budgets and any number of services
(`BudgetAssumption`), by the invariant `SupInv`.
The first half reuses the scheduler's operators: each leaves a scheduler sane, so
what is left to show is that every handler gives the core to the program of the
thread it dispatched. After a stray that is no longer so, and `CoreKept` says what
is: the core is in the retired Root Task's loop, which makes no traps, and a saved
context holds its own thread's program or that loop; so whoever does trap or fault
is the thread `running()` names. That needs the ids: the Device Manager's thread
is the first one spawned, later ids are larger, and the thread whose fault is
handled is never the manager's, so it stays admitted until it gives up.
`CallsKept` relates the requests queued at the network driver to the stack that
waits for its reply. Counting crashes is not
inductive: a crash may be pending, and a second one would overwrite
`PENDING_CRASH`. `CrashKept` says why none comes. A manager that waits without the
core is Blocked, so no tick resumes it before a crash does; a crash hands it the
core at once; and until it has polled, the driver the crash was about is gone and
no other has been spawned. A `DM_WAIT_CRASH` that found nothing else Ready would
undo its block; that the fresh thread of A is always Ready rules this out.

**User-mode IPC (`UserIpcProofs`).** `CalmRunningIsOnCpu` and
`CalmCallReturnsReply` for any number of services, threads and endpoints, from
the assumptions of `UserIpc` and the hypothesis `Slot0Boot`, which describes the
riscv64 and aarch64 boots: the wrappers' only client is the Root Task, a service
has one endpoint, and a parked service that was not poked finds 0, the Root
Task's id, in the register it takes its caller from. Without the last part the
second property is false, which `user_ipc_x86` shows. The invariant `Serene` is
that of the behaviours in which nobody dies or uses the bare opcode (`~faulty`).
The wrappers hand the core over without asking the scheduler, so the invariant
has to say what every thread other than the Root Task may be: unborn, awake in
its own code, or parked at its own endpoint, and in no other queue.
The call itself is in one of five stages (`InUser`, `Queued`, `Handed`,
`Received`, `Replied`), each of which fixes the thread on the core, the queues
and who is owed a reply.

**Recovery and contexts (`ProcessProofs`).** `LogExact` for logs of any size
(`LogAssumption`). `RestartsRationed` for any budget and window
(`PolicyAssumption`): the invariant is that the recorded window holds the last
crashes, no more than twice the budget of them within one span of time.
`RegistersKept` for any threads and any order of traps on all three ports
(`ThreadsAssumption`, `NilAssumption`), with fast switches at any time. The
invariant `ContextInv` says that the frame on the stack belongs to the program on
the core and holds all that its resumption needs, whatever was taken on top of it,
and that each saved context is resumable: it holds its own thread's program with
what that must find again, less the scratch registers once a fast save or a fast
restore is involved, or else the retired Root Task's loop, of which nothing is
asked but mode and space. Every answer is poked into a context whose thread stopped
with that answer recorded as due. `RootPure` adds that until its retirement the
Root Task's registers hold no other thread's values; afterwards its loop may get,
in the return registers, the answer of the thread whose name it bears.

**Messages and handles (`ProcessProofs`).** `CodecsExact` for words of any width
(`WidthAssumption`). A general lemma says when a row of the two tables carries a
message: the encoder's opcode indexes a form of the decoder with the same name,
the words are at least as many as the form has fields, and every field's values
survive its treatment (narrowed only if it is a u32, tested only for values it
has); zero words after the fields, the page's padding included, are then
harmless, and another namespace refuses by the label. The rows are then checked
one by one, 65 variants in twelve types. `HandlesNeverReused` for any requests
and sizes (`SizeAssumption`; `MaxHandles` is below the counter's wrap): open
handles are below `nextHandle`, which never goes back, and both survive a Stat,
which opens and closes within one request.

**Map (`MemoryProofs`).** From the assumptions of `PageTables`
(`FrameAssumption`: roots are not pool frames and only roots hold superpages;
`NoneAssumption`) and two hypotheses in the theorems, each of which the run
`memory` satisfies and outside which the property is false. `PagesWellFormed`:
the pages asked for are canonical and none is the topmost one (see the known
limits above). `PoolSuffices`: the pool has at least as many frames as there are
tables the pages can need, one per root entry that is no superpage and one per
entry below; with one frame less, `map_pool_exhausted` refutes the property. The
invariant has the tables' `Shape` (pool frames up to the mark are linked, each in
one place, the others zeroed; two levels of pointers above one of leaves; tables
only where a page needs one), disjoint mappings, and that the walk finds exactly
what the model holds. Three arguments carry it. Counting: the frames in use map
one to one to needed tables and the ones the next walk lacks are not among them,
so a walk never runs out of frames, and what stops it is a superpage at its first
entry, before anything was written. Arithmetic: two canonical pages with the same
three indices differ by a multiple of Fanout cubed and are the same page. And,
since a frame has one parent, the leaf a walk writes is on the path of its own
page only. It gives `ModelMatchesHardware`, `PoolFramesLinkedOnce` and
`TranslationStable`. TLC has also checked the invariant on the constants of
`memory`.

**Untyped memory (`MemoryProofs`).** `NoDoubleUse` for any regions the boot may
leave (`RegionsAssumption`: at least one, no more than the table and the slots
hold, none overlapping another), any numbers in the ELF headers
(`ImagesAssumption`) and any table sizes (`ObjSizeAssumption`). Pieces of memory
may become regions that are carved up in turn, so the property speaks of a tree
and is not inductive. `GivenInv` is what one step can keep: pieces of one region
do not overlap and lie below its watermark, the first regions are the boot's and
lie apart, and each later one is exactly a piece of an earlier one. That two
overlapping pieces are then related is an argument about the tree: of the two,
take the one whose region is later; that region is a piece itself, which overlaps
the other piece too and is of an earlier region, and so on down, until both are
of one region (a least counterexample by the sum of their regions). Every
operation that allocates, a process load that fails at its last segment
included, is shown to add pieces above the mark only.

**Wait for an interrupt (`DeviceProofs`).** For any waiter capacity, retry limit
and number of events (`ArchAssumption`, `BoundsAssumption`). The inductive
invariant adds three facts to the properties: a set signal has emptied the list;
except on riscv64 the core is on its way to sleep only without a signal; and
there are no more entries in the list than unrelated wakeups, plus the current
one. The last is why `RunsAsItself` needs fewer wakeups than places, and why
only a full list makes the driver's answer be refused (`OnlyFullListRefuses`).
`NoLostWakeup` is stated for architectures other than riscv64, where it is false.

**Virtqueues (`DeviceProofs`).** `AnswersMatchDevice` for any ring size, index
width of at least two values, and numbers of requests and frames
(`QueueAssumption`). The driver's only evidence is that the used index equals the
one it published last. The invariant says what that equality means: the distance
from used to avail is the number of requests in flight plus those not yet taken,
so zero means that the device holds nothing. It counts right although indices
wrap and the device finishes in any order, because the device never takes an
index twice for one content of the chain (`TakenOnce`); this is what the bound on
requests given up on is needed for, fewer than there are indices. That the newest
frame is sent, in flight or not yet taken then gives the network half, and that a
block request submitted with nothing outstanding is the only one gives the other.

**Binding (`DeviceProofs`).** `BoundToItsDevice` for any device of its kind
(`HardwareAssumption`: what the PCI and virtio specifications promise of BARs and
capability lists, nothing about their order or number), any number of pools left
and any word width, slot size and walk limit (`TransportAssumption`). It rests on
four things. Sizing a BAR by writing ones gives its base and size back, over one
or two registers of wrapping words. A slot of the device's windows, once given to
a BAR, keeps it, so an address resolved earlier still reaches it when later BARs
have been mapped. The walk over the capability list, bounded by its limit, keeps
for each kind a window that some capability on the list names; the walk is a
function on numbers and the step that would first lose this does not exist (the
least one, again from well-foundedness). And each queue's registers hold what was
written while it was the selected one.

Only model-checked:

- every liveness property (`CallAnswered`, `RequestAnswered`, `InteractiveServed`,
  `DriverGivenUp`, `BootScriptEnds`): fairness and ENABLED are outside what the
  prover handles;
- `BootMemoryExact`, `ChoicesExact` and `ResolvesLongest`: the operators they are
  about fold over and filter tables, registries and paths, and induction over
  data is out of the prover's reach;
- `BootResultIsAnswer` and `BootNoMishap`: they are about three fixed scripts of
  opcodes, which the run executes as they are; a proof would have little to
  generalise beyond the lengths of two loops.

## Not modelled, and why

Register access to interrupt controllers, timers, power and serial ports:
hardware I/O, whose visible effect (an interrupt pending, masked or taken) is in
`IrqWait`, `TrapContext` and `Supervision`. The page-table walks of x86_64 and
aarch64, which differ from the Sv39 one in encodings. Rights checks of `resolve`,
which only refuse calls. The hal traits and the shared-region descriptors, which
are declarations. Signatures of access tokens. Pixels, frame formats and file
bytes beyond a value each. In-kernel `context_switch`, a plain function call
convention.
