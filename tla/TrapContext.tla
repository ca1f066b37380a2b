----------------------------- MODULE TrapContext -----------------------------
(***************************************************************************)
(* How a thread's registers survive a trap on the three ports: the vector  *)
(* pushes a frame, the kernel's handler answers with a TrapOutcome, and    *)
(* the frame is either resumed in place or copied into the thread's        *)
(* UserContext, while another thread's is loaded.  Two pairs of save and   *)
(* restore share that buffer: the full one, and the IPC fast path, which   *)
(* neither saves nor restores the registers a call may clobber.            *)
(*                                                                         *)
(* running() tells the handlers whose buffer to save to.  It is the thread *)
(* whose program the core executes, until a service's IPC_RECV resumes the *)
(* Root Task, which P2_PREEMPT_START retired: its loop then runs under     *)
(* another thread's name, and ticks save it over that thread's context.    *)
(*                                                                         *)
(* A register's value names the thread it belongs to and a version; sp     *)
(* has a value of its own.  "rdi" stands for the x86 message register that *)
(* is not also a return register; elsewhere a0 and a1 are both.            *)
(***************************************************************************)
EXTENDS Naturals

CONSTANTS
  Nil,
  Root,      \* the thread enter_user starts
  Thread,
  PcRange,   \* bound: program counters wrap at this many instructions
  MaxTraps,  \* bound: traps taken from user mode
  MaxEarly   \* bound: those taken before the timer is armed

VARIABLES
  arch,      \* the port
  timer,     \* the preemption timer is armed
  running,   \* the thread whose program the core executes
  named,     \* Scheduler::running(), or Nil
  cpu,       \* what user mode sees of the core; Nil inside a trap
  trap,      \* the trap being handled, or Nil
  blob,      \* Tcb::user_context of each thread
  holds,     \* the thread whose program each blob holds
  life,      \* "unborn", "alive", "dead" (killed) or "retired" (the Root Task)
  traps,     \* traps taken from user mode so far
  seen,      \* what each stopped thread must find again; Nil once it went on
  parked     \* what the Root Task left at P2_PREEMPT_START

contexts == <<arch, timer, running, named, cpu, trap, blob, holds, life, traps, seen, parked>>

Arch == {"x86_64", "arm64", "riscv64"}
Reg(a) == {"kept", "sp", "scratch", "ret", "ret2"}
            \union (IF a = "x86_64" THEN {"rdi"} ELSE {})
Return == {"ret", "ret2"}   \* rax and rsi, x0 and x1, a0 and a1

Zero == <<Nil, 0>>    \* zero, or what the kernel left
Value(t, n) == <<t, n>>     \* versions below PcRange; 2 and 3 are answers
Stack(t) == <<t, 8>>
Lowered(v) == <<v[1], 9>>  \* sp inside the RISC-V vector, below its frame
Raised(v) == <<v[1], 8>>

\* What a core, a saved context, a trap and a stopped thread are made of.
Word == (Thread \union {Nil}) \X Nat
Registers(a) == [Reg(a) -> Word]
Mode == {"user", "kernel"}
Why == {"syscall", "tick", "fault"}
Context(a) == [regs : Registers(a), pc : Nat, mode : Mode, space : Thread]
TrapRecord(a) ==
  [why : Why, frame : Registers(a), pc : Nat, mode : Mode, livePc : Nat \union {Nil},
   liveMode : Mode, space : Thread, waited : BOOLEAN]
Stopped(a) ==
  [why : Why, regs : Registers(a), pc : Nat, fast : BOOLEAN,
   answer : [{} -> Word] \union [{"ret"} -> Word] \union [Return -> Word]]

ASSUME ThreadsAssumption == Root \in Thread /\ Nil \notin Thread /\ PcRange \in Nat \ {0}
ASSUME NilAssumption ==
  \A a \in Arch : Nil \notin Context(a) /\ Nil \notin TrapRecord(a) /\ Nil \notin Stopped(a)

Step(pc) == (pc + 1) % PcRange
EntryPoint == 0

\* init_user_context: everything zero but entry, stack, mode and space.
InitUserContext(t) ==
  [regs |-> [[r \in Reg(arch) |-> Zero] EXCEPT !["sp"] = Stack(t)],
   pc |-> EntryPoint, mode |-> "user", space |-> t]
\* enter_user sets the same, and leaves the kernel's other registers.
EnterUser == InitUserContext(Root)

ContextInit ==
  /\ arch \in Arch /\ timer = FALSE /\ running = Root /\ named = Root /\ traps = 0
  /\ cpu = EnterUser /\ trap = Nil
  /\ blob = [t \in Thread |-> InitUserContext(t)] /\ holds = [t \in Thread |-> t]
  /\ life = [t \in Thread |-> IF t = Root THEN "alive" ELSE "unborn"]
  /\ seen = [t \in Thread |-> Nil] /\ parked = Nil
-----------------------------------------------------------------------------
(* The vectors *)

\* The one of three that this port has.
Port(x86, arm, riscv) ==
  CASE arch = "x86_64" -> x86 [] arch = "arm64" -> arm [] arch = "riscv64" -> riscv

\* The frame each vector pushes: all registers; on RISC-V it lies on the
\* thread's own stack, and sp is stored already lowered.
IsrTrampoline == cpu.regs
El0Entry == cpu.regs
TrapEntry == [cpu.regs EXCEPT !["sp"] = Lowered(@)]

\* pc is what the entry code reads, livePc and liveMode the core's own return
\* registers (ELR and SPSR, sepc and sstatus); on x86 both are in the frame.
EnterTrap(why, pc) ==
  /\ trap = Nil /\ traps < (IF timer THEN MaxTraps ELSE MaxEarly) /\ traps' = traps + 1
  /\ trap' = [why |-> why, frame |-> Port(IsrTrampoline, El0Entry, TrapEntry),
              pc |-> pc, mode |-> cpu.mode, livePc |-> pc, liveMode |-> cpu.mode,
              space |-> cpu.space, waited |-> FALSE]
  /\ seen' = [seen EXCEPT ![running] =
                [why |-> why, regs |-> cpu.regs,
                 pc |-> IF why = "syscall" THEN Step(cpu.pc) ELSE cpu.pc,
                 answer |-> [r \in {} |-> Zero], fast |-> FALSE]]
  /\ cpu' = Nil
  /\ UNCHANGED <<arch, timer, running, named, blob, holds, life, parked>>

\* int 0x80 and svc report the next instruction, ecall its own.  The retired
\* Root Task is in a loop that neither calls nor faults.
Syscall == trap = Nil /\ life[running] = "alive" /\ EnterTrap("syscall", Port(Step(cpu.pc), Step(cpu.pc), cpu.pc))
Tick == trap = Nil /\ timer /\ EnterTrap("tick", cpu.pc)
Fault == trap = Nil /\ life[running] = "alive" /\ EnterTrap("fault", cpu.pc)

\* User code up to its next trap: it writes its registers and goes on.
Compute ==
  /\ trap = Nil /\ (seen[running] # Nil \/ cpu.pc = EntryPoint)
  /\ cpu' = [cpu EXCEPT
               !.regs = [r \in Reg(arch) |-> IF r = "sp" THEN @[r] ELSE Value(running, cpu.pc)],
               !.pc = Step(@)]
  /\ seen' = [seen EXCEPT ![running] = Nil]
  /\ UNCHANGED <<arch, timer, running, named, trap, blob, holds, life, traps, parked>>

\* An interrupt taken while a system call waits for one.  It returns into the
\* kernel: on ARM ELR and SPSR keep the interrupt's values; on RISC-V so does
\* sepc, but sret puts SPP back to user; on x86 the frame holds both.
Nested ==
  /\ trap # Nil /\ trap.why = "syscall"
  /\ trap' = [trap EXCEPT
                !.waited = TRUE,
                !.livePc = Port(@, Nil, Nil),
                !.liveMode = Port(@, "kernel", @)]
  /\ UNCHANGED <<arch, timer, running, named, cpu, blob, holds, life, traps, seen, parked>>
-----------------------------------------------------------------------------
(* Leaving a trap in place *)

\* The stack pointer the thread had: popping the frame raises it again, and
\* the RISC-V saves compute it from the frame's address.
Popped(regs) == [regs EXCEPT !["sp"] = Raised(@)]

\* Where a system call returns to: iretq takes the frame's words, ARM writes
\* ELR and SPSR back as read at entry, RISC-V writes sepc past the ecall.
ReturnX86 == [pc |-> trap.pc, mode |-> trap.mode]
\* mutant of ReturnArm: ELR and SPSR are not written back
ReturnArmLive == [pc |-> trap.livePc, mode |-> trap.liveMode]
ReturnArm == [pc |-> trap.pc, mode |-> trap.mode]
ReturnRiscv == [pc |-> Step(trap.pc), mode |-> trap.liveMode]

InPlace(regs, to) ==
  /\ cpu' = [regs |-> Popped(regs), pc |-> to.pc, mode |-> to.mode, space |-> trap.space]
  /\ trap' = Nil
  /\ UNCHANGED <<arch, timer, running, blob, holds, life, traps, parked>>

Answer(t, regs) == [r \in regs |-> Value(t, IF r = "ret" THEN 2 ELSE 3)]
Answered(regs, answer) ==
  [r \in DOMAIN regs |-> IF r \in DOMAIN answer THEN answer[r] ELSE regs[r]]

\* TrapOutcome::Resume and Resume2 from a system call.
Resume ==
  /\ trap # Nil /\ trap.why = "syscall"
  /\ \E regs \in {{"ret"}, Return} :
       /\ InPlace(Answered(trap.frame, Answer(running, regs)),
                  Port(ReturnX86, ReturnArm, ReturnRiscv))
       /\ seen' = [seen EXCEPT ![running].answer = Answer(running, regs)]
  /\ UNCHANGED named

\* From a tick the outcome's value is ignored.  preempt_tick with nobody
\* running dispatches the thread it picks and still answers Continue.
ResumeTick ==
  /\ trap # Nil /\ trap.why = "tick"
  /\ InPlace(trap.frame, [pc |-> trap.livePc, mode |-> trap.liveMode])
  /\ named' \in {named} \union (IF named = Nil THEN {u \in Thread : life[u] = "alive"} ELSE {})
  /\ UNCHANGED seen

\* From a fault (no other thread to run) it reaches the return register,
\* except on RISC-V, and the instruction is tried again.
ResumeFault ==
  /\ trap # Nil /\ trap.why = "fault"
  /\ InPlace([trap.frame EXCEPT !["ret"] = Port(Zero, Zero, @)],
             [pc |-> trap.livePc, mode |-> trap.liveMode])
  /\ UNCHANGED <<named, seen>>
-----------------------------------------------------------------------------
(* Switching *)

\* The full saves copy the frame with where to go on and the live mode and
\* space.
SaveX86 == [regs |-> Popped(trap.frame), pc |-> trap.pc, mode |-> trap.mode, space |-> trap.space]
SaveArm == [regs |-> Popped(trap.frame), pc |-> trap.pc, mode |-> trap.liveMode, space |-> trap.space]
SaveRiscv ==
  [regs |-> Popped(trap.frame), pc |-> IF trap.why = "syscall" THEN Step(trap.pc) ELSE trap.pc,
   mode |-> trap.liveMode, space |-> trap.space]
SaveFull == Port(SaveX86, SaveArm, SaveRiscv)

\* The registers each port's fast save stores; the other slots stay as they
\* were.
FastX86 == {"kept", "sp", "ret", "ret2", "rdi"}
FastArm == {"kept", "sp", "ret", "ret2"}
FastRiscv == {"kept", "sp", "ret", "ret2"}
SaveFast(old) ==
  [SaveFull EXCEPT !.regs =
     [r \in DOMAIN @ |-> IF r \in Port(FastX86, FastArm, FastRiscv) THEN @[r] ELSE old.regs[r]]]

\* The full restores load the whole context and leave the kernel.
RestoreX86(context) == context
RestoreArm(context) == context
RestoreRiscv(context) == context
RestoreFull(context) ==
  Port(RestoreX86(context), RestoreArm(context), RestoreRiscv(context))

\* The fast restores load what the fast saves store and zero the rest; a
\* register they left out would show what the outgoing thread had in it.
ZeroedX86 == {"scratch"}
ZeroedArm == {"scratch"}
ZeroedRiscv == {"scratch"}
RestoreFast(context) ==
  [context EXCEPT !.regs =
     [r \in DOMAIN @ |->
        IF r \in Port(FastX86, FastArm, FastRiscv) THEN @[r]
        ELSE IF r \in Port(ZeroedX86, ZeroedArm, ZeroedRiscv) THEN Zero
        ELSE trap.frame[r]]]

\* poke_saved_a0_a1 on the context to be restored.
Poke(context, answer) == [context EXCEPT !.regs = Answered(@, answer)]

\* user_ctx_switch_ptrs: a thread other than the running one, with a TCB.
Other(u) == named # Nil /\ u # named /\ life[u] = "alive"

\* A call that waited is answered in place.
MaySwitch == trap # Nil /\ ~trap.waited

\* The context of thread u is loaded, whatever program it holds.
Load(u, context) ==
  cpu' = context /\ running' = holds[u] /\ trap' = Nil

\* What the stopped threads must find again when u's context is loaded: of a
\* program that ran under another's name nothing is known.
SeenBy(u, stopped) == IF holds[u] = u THEN stopped ELSE [stopped EXCEPT ![holds[u]] = Nil]

\* TrapOutcome::SwitchTo.
SwitchTo(u) ==
  /\ MaySwitch /\ trap.why \in {"syscall", "tick"} /\ Other(u)
  /\ blob' = [blob EXCEPT ![named] = SaveFull] /\ holds' = [holds EXCEPT ![named] = running]
  /\ Load(u, RestoreFull(blob[u])) /\ named' = u /\ seen' = SeenBy(u, seen)
  /\ UNCHANGED <<arch, timer, life, traps, parked>>

\* The one from P2_PREEMPT_START: the Root Task is retired, the timer armed.
RetireRoot(u) ==
  /\ MaySwitch /\ trap.why = "syscall" /\ ~timer /\ named = Root /\ Other(u)
  /\ timer' = TRUE /\ life' = [life EXCEPT ![Root] = "retired"] /\ parked' = seen[Root]
  /\ blob' = [blob EXCEPT ![named] = SaveFull] /\ holds' = [holds EXCEPT ![named] = running]
  /\ Load(u, RestoreFull(blob[u])) /\ named' = u /\ seen' = SeenBy(u, seen)
  /\ UNCHANGED <<arch, traps>>

\* TrapOutcome::SwitchToFast of IPC_CALL, IPC_RECV and IPC_REPLY: the kernel
\* first pokes the answer, if there is one, into a thread that stopped in a
\* system call, or was spuriously resumed from it and stopped by a tick.
SwitchToFast(u) ==
  /\ MaySwitch /\ trap.why = "syscall" /\ Other(u)
  /\ \E regs \in {{}, Return} :
       /\ regs # {} => seen[u] # Nil
       /\ blob' = [blob EXCEPT ![named] = SaveFast(@), ![u] = Poke(@, Answer(u, regs))]
       /\ Load(u, RestoreFast(Poke(blob[u], Answer(u, regs))))
       /\ seen' = SeenBy(u, [t \in Thread |->
                     IF t \notin {u, running} \/ seen[t] = Nil THEN seen[t]
                     ELSE [seen[t] EXCEPT !.fast = TRUE,
                             !.answer = IF t = u /\ regs # {} THEN Answer(u, regs) ELSE @]])
  /\ named' = u /\ holds' = [holds EXCEPT ![named] = running]
  /\ UNCHANGED <<arch, timer, life, traps, parked>>

\* The one of IPC_RECV once the timer is armed: it blocks the service, the
\* dispatch of the removed Root Task fails and its context is loaded.
RecvIntoRetired ==
  /\ MaySwitch /\ trap.why = "syscall" /\ life[Root] = "retired" /\ named \notin {Nil, Root}
  /\ blob' = [blob EXCEPT ![named] = SaveFast(@)] /\ holds' = [holds EXCEPT ![named] = running]
  /\ Load(Root, RestoreFast(blob[Root])) /\ named' = Nil
  /\ seen' = [seen EXCEPT ![running].fast = TRUE, ![Root] = [parked EXCEPT !.fast = TRUE]]
  /\ UNCHANGED <<arch, timer, life, traps, parked>>

\* TrapOutcome::Terminate: the faulting thread's frame is thrown away.
Terminate(u) ==
  /\ trap # Nil /\ trap.why = "fault" /\ Other(u)
  /\ life' = [life EXCEPT ![named] = "dead"]
  /\ Load(u, RestoreFull(blob[u])) /\ named' = u
  /\ seen' = SeenBy(u, [seen EXCEPT ![running] = Nil])
  /\ UNCHANGED <<arch, timer, blob, holds, traps, parked>>

\* A handler that spawns a thread, before its outcome.
Spawn(u) ==
  /\ MaySwitch /\ trap.why = "syscall" /\ life[u] = "unborn"
  /\ blob' = [blob EXCEPT ![u] = InitUserContext(u)]
  /\ life' = [life EXCEPT ![u] = "alive"]
  /\ UNCHANGED <<arch, timer, running, named, cpu, trap, holds, traps, seen, parked>>

ContextNext ==
  \/ Compute \/ Syscall \/ Tick \/ Fault \/ Nested \/ Resume
  \/ ResumeTick \/ ResumeFault \/ RecvIntoRetired
  \/ \E u \in Thread : SwitchTo(u) \/ RetireRoot(u) \/ SwitchToFast(u) \/ Terminate(u) \/ Spawn(u)

ContextSpec == ContextInit /\ [][ContextNext]_contexts
-----------------------------------------------------------------------------
\* What a thread may count on when it runs again: after a tick all registers,
\* unless another thread's IPC resumed it, which takes the scratch registers
\* and those of an answer; after a system call the ones the calling convention
\* keeps, and all but the return registers when no fast path was involved.
Clobbered(s) == IF s.fast THEN {"scratch"} ELSE {}
Promised(a, s) ==
  CASE s.why = "tick"  -> Reg(a) \ (DOMAIN s.answer \union Clobbered(s))
    [] s.why = "fault" -> Reg(a) \ {"ret"}
    [] OTHER           -> Reg(a) \ (Return \union Clobbered(s))

\* Whose values a register may hold.  An answer meant for the thread in whose
\* name the retired Root Task's loop runs reaches that loop.
Owners(r) == {running, Nil} \union (IF life[running] = "retired" /\ r \in Return THEN Thread ELSE {})

(***************************************************************************)
(* A program runs in user mode, in its own space, with no register that    *)
(* holds another one's value; one that was stopped goes on where it        *)
(* stopped, with the registers it may count on and the answer the kernel   *)
(* gave it, whichever pair of save and restore each side of each switch    *)
(* used and whatever interrupted the call in between.  It runs under its   *)
(* own thread's name, but for the retired Root Task, which each stray      *)
(* IPC_RECV resumes behind P2_PREEMPT_START.                               *)
(***************************************************************************)
RegistersKept ==
  cpu # Nil =>
    /\ named = running \/ life[running] = "retired"
    /\ cpu.mode = "user" /\ cpu.space = running
    /\ \A r \in Reg(arch) : cpu.regs[r][1] \in Owners(r)
    /\ seen[running] # Nil =>
         /\ cpu.pc = seen[running].pc
         /\ \A r \in Promised(arch, seen[running]) : cpu.regs[r] = seen[running].regs[r]
         /\ \A r \in DOMAIN seen[running].answer : cpu.regs[r] = seen[running].answer[r]
=============================================================================
