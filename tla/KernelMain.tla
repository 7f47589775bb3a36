---------------------------- MODULE KernelMain ----------------------------
(***************************************************************************)
(* The kernel from EarlyBoot to its verdict: kernel_main with the demo     *)
(* tasks, the timer interrupt that switches between them and the locks     *)
(* that each of them holds or needs (kernel-x86_64/src: main.rs,           *)
(* scheduler_bridge.rs, syscall.rs, interrupts.rs), together with the      *)
(* ring-3 program (Ring3), the boot phases (BootSequencer), the vault      *)
(* (VaultManager) and the start of the second core (ApBringUp).            *)
(*                                                                         *)
(* A tick, a spawn and an exit are one step here: their inner steps, the   *)
(* stacks and the page tables are the subject of SchedulerBridge.  Code    *)
(* between two steps may be interrupted whenever IFlag is set, and a spin  *)
(* lock taken by code that is interrupted stays taken.  Left out are the   *)
(* locks only ever taken with interrupts masked, and three that are also   *)
(* taken unmasked, by kernel_main's last checks, when no task is left to   *)
(* want them (ChecksRunAlone): TASK_C_PID, TASK_EXIT_SLOT and              *)
(* TASK_D_SPAWN_SLOT.                                                      *)
(***************************************************************************)
EXTENDS ApBringUp, Sequences, FiniteSets

CONSTANTS
  U64,                  \* 2^64.
  BOOT_PID,
  MAX_TASKS,
  SWITCH_TICK_BUDGET,
  Halts,                \* hlts kernel_main waits for: 1000.
  BspId,                \* The boot processor's APIC id.
  Topologies,           \* MADTs the firmware may have: sequences of CPUs; none at all: <<>>.
  Attest(_),            \* sanctum.rs's checksum.
  MaxEarlyTicks         \* Bound on the ticks before the scheduler is up.

(* With two cores enabled, the first of them that is not this one. *)
TargetOf(cpus) ==
  LET Enabled == {i \in DOMAIN cpus : cpus[i].enabled}
      Others == {i \in Enabled : cpus[i].apic_id # BspId}
  IN  IF Cardinality(Enabled) < 2 \/ Others = {} THEN None
      ELSE cpus[CHOOSE i \in Others : \A j \in Others : i <= j].apic_id

ASSUME KernelAssumption ==
  /\ BOOT_PID \in Nat /\ BOOT_PID > 5 /\ MAX_TASKS \in Nat /\ MAX_TASKS > 4
  /\ SWITCH_TICK_BUDGET \in Nat /\ SWITCH_TICK_BUDGET + 1 < U64 /\ 15 + 1234 < U64 /\ U64 \in Nat
  /\ Halts \in Nat \ {0} /\ MaxEarlyTicks \in Nat
  /\ \A cpus \in Topologies : TargetOf(cpus) \in {None, Target}

VARIABLES
  pc,                   \* Where kernel_main is.
  held,                 \* The locks its interruptible code holds.
  halts,                \* hlts done.
  all_passed,           \* results.passed = results.total.
  exit_code,
  completed,            \* The BootSequencer's phases.
  vaults,               \* The VaultManager.
  cpu_topology,         \* What acpi_topology::discover found.
  regs, rip, kernel_stack, REPORTED_VALUE, IFlag,   \* See Ring3.
  TICKS,                \* Counted until no comparison can tell the difference.
  early_ticks,          \* History: TICKS when init made the queue.
  scheduler_up,         \* SCHEDULER is Some(queue).
  queue,
  CURRENT,
  TASK_SLOTS,           \* [pid, entry, in_hlt] per slot.
  MAPPED, NEXT_PID,
  mid_period,           \* The running task was not dispatched by a tick.
  COUNTER,              \* COUNTER_A .. COUNTER_E, up to what they are compared with.
  TASK_C_EXITED, TASK_D_SPAWNED, TASK_EXIT_SLOT, TASK_D_SPAWN_SLOT

RQ == INSTANCE RunQueueOps
R3 == INSTANCE Ring3
Boot == INSTANCE BootSequencer
VM == INSTANCE VaultManager

flowVars == <<pc, held, halts, all_passed, exit_code, completed, vaults, cpu_topology>>
ring3Vars == <<regs, rip, kernel_stack, REPORTED_VALUE>>
poolVars == <<scheduler_up, queue, TASK_SLOTS, MAPPED, NEXT_PID, early_ticks>>
cpuVars == <<CURRENT, mid_period>>
demoVars == <<COUNTER, TASK_C_EXITED, TASK_D_SPAWNED, TASK_EXIT_SLOT, TASK_D_SPAWN_SLOT>>
taskVars == <<poolVars, cpuVars, demoVars>>
kernelVars == <<vars, flowVars, ring3Vars, IFlag, TICKS, taskVars>>

(* What a step of kernel_main leaves to the machine, and mostly to itself. *)
outside == <<halts, cpu_topology, TICKS, vars>>
context == <<ring3Vars, IFlag, taskVars>>

Slots == 0 .. MAX_TASKS - 1
EmptySlot == [pid |-> None, entry |-> "none", in_hlt |-> FALSE]
Iterations == 5
CountedTo == [a |-> 1, b |-> 1, c |-> Iterations, d |-> 1, e |-> 1]

SlotOf(pid) ==
  LET Having == {i \in Slots : TASK_SLOTS[i].pid = pid}
  IN  IF Having = {} THEN None ELSE CHOOSE i \in Having : \A j \in Having : i <= j

BootAt(s) == pc \in s /\ CURRENT = BOOT_PID /\ ~isr
TaskAt(e) ==
  CURRENT # BOOT_PID /\ ~isr /\ SlotOf(CURRENT) # None /\ TASK_SLOTS[SlotOf(CURRENT)].entry \in e
InHlt == IF CURRENT = BOOT_PID THEN pc = "in_hlt" ELSE TASK_SLOTS[SlotOf(CURRENT)].in_hlt

(* Variant: the budget ends one period, not all of them. *)
NextToRunAtBudget(rq, tick) ==
  IF tick = SWITCH_TICK_BUDGET \/ RQ!PickNextTask(rq) = None THEN BOOT_PID ELSE RQ!PickNextTask(rq)

NextToRun(rq, tick) ==
  IF tick > SWITCH_TICK_BUDGET \/ RQ!PickNextTask(rq) = None THEN BOOT_PID ELSE RQ!PickNextTask(rq)

(* Variant: the last check decides. *)
RecordLast(ok) == all_passed' = ok

(* CheckResults::record. *)
Record(ok) == all_passed' = (all_passed /\ ok)

----------------------------------------------------------------------------
(* Paging, the heap, CPU features and the topology are done with, and the  *)
(* last two checked; GDT and IDT are not loaded, and interrupts are off.   *)
BootInit ==
  /\ Init
  /\ pc = "early_boot" /\ held = {} /\ halts = 0 /\ exit_code = "none"
  /\ completed = {} /\ vaults = VM!NewVaultManager
  /\ cpu_topology \in Topologies /\ all_passed = (\E i \in DOMAIN cpu_topology : cpu_topology[i].enabled)
  /\ R3!Ring3Init /\ IFlag = FALSE
  /\ TICKS = 0 /\ early_ticks = None
  /\ scheduler_up = FALSE /\ queue = RQ!NewRunQueue
  /\ CURRENT = BOOT_PID /\ mid_period = FALSE
  /\ TASK_SLOTS = [i \in Slots |-> EmptySlot] /\ MAPPED = {} /\ NEXT_PID = 0
  /\ COUNTER = [e \in DOMAIN CountedTo |-> 0]
  /\ TASK_C_EXITED = FALSE /\ TASK_D_SPAWNED = FALSE
  /\ TASK_EXIT_SLOT = None /\ TASK_D_SPAWN_SLOT = None

(* complete() of a phase, recorded with the checks made just before it. *)
CompletesPhase(phase, ok) ==
  /\ completed' = Boot!Complete(completed, phase)
  /\ Record(ok /\ Boot!MayComplete(completed, phase))

EarlyBoot ==
  /\ BootAt({"early_boot"}) /\ pc' = "late_boot"
  /\ CompletesPhase("EarlyBoot", TRUE)
  /\ UNCHANGED <<held, exit_code, vaults, context, outside>>

(* The PIC passes the timer only, and interrupts are enabled. *)
LateBoot ==
  /\ BootAt({"late_boot"}) /\ pc' = "memory"
  /\ IFlag' = TRUE
  /\ CompletesPhase("LateBoot", TRUE)
  /\ UNCHANGED <<held, exit_code, vaults, ring3Vars, taskVars, outside>>

(* with_mapper_and_phys, and the heap around it. *)
MapperLocks == {"MAPPER", "PHYS", "ALLOCATOR"}

(* The locks each part of kernel_main takes with interrupts enabled: the   *)
(* page tables and the heap in its checks, the heap wherever it allocates, *)
(* the run queue to look task c up.  (Of TASK_C_PID, TASK_EXIT_SLOT and    *)
(* TASK_D_SPAWN_SLOT see above.)                                           *)
LocksNeeded ==
  [memory |-> MapperLocks, capability |-> {"ALLOCATOR"},
   sanctum |-> {"ALLOCATOR"}, ipc |-> {"ALLOCATOR"},
   check_exit |-> {"SCHEDULER"}, recheck |-> {"SCHEDULER"}]

(* scheduler_bridge's predicates.  a, b and c are the first pids drawn. *)
TASK_C_PID == 2
BothTasksMadeRealProgress == COUNTER["a"] > 0 /\ COUNTER["b"] > 0
TaskCRanOut == COUNTER["c"] >= Iterations /\ TASK_C_EXITED
TaskCReallyExited == TaskCRanOut /\ TASK_C_PID \notin RQ!Queued(queue)
TaskReusedAGuardedSlot == COUNTER["d"] > 0 /\ TASK_EXIT_SLOT # None /\ TASK_EXIT_SLOT = TASK_D_SPAWN_SLOT
TaskEVerifiedOwnAddressSpace == COUNTER["e"] > 0

(* The queue is only locked if what comes before it in the condition holds. *)
LooksTaskCUp ==
  /\ pc = "check_exit" => TaskCRanOut
  /\ pc = "recheck" => BothTasksMadeRealProgress /\ TaskCRanOut

TakesLocks ==
  /\ BootAt(DOMAIN LocksNeeded) /\ held = {} /\ LooksTaskCUp
  /\ held' = LocksNeeded[pc]
  /\ UNCHANGED <<pc, all_passed, exit_code, completed, vaults, context, outside>>

Unlocks == held = LocksNeeded[pc] /\ held' = {}

(* The checks of KernelPaging, CapabilityBroker and PortTable: here they   *)
(* may come out either way.                                                *)
ChecksMemory ==
  /\ BootAt({"memory"}) /\ pc' = "syscall" /\ Unlocks
  /\ \E ok \in BOOLEAN : Record(ok)
  /\ UNCHANGED <<exit_code, completed, vaults, context, outside>>

ChecksCapability ==
  /\ BootAt({"capability"}) /\ pc' = "scheduler" /\ Unlocks
  /\ \E ok \in BOOLEAN : Record(ok)
  /\ UNCHANGED <<exit_code, completed, vaults, context, outside>>

(* run_demo_syscall: without its two pages the program is not run. *)
RunDemoSyscall ==
  /\ BootAt({"syscall"})
  /\ \/ pc' = "ring3" /\ R3!EnterRing3 /\ UNCHANGED all_passed
     \/ pc' = "capability" /\ Record(FALSE) /\ UNCHANGED <<ring3Vars, IFlag>>
  /\ UNCHANGED <<held, exit_code, completed, vaults, taskVars, outside>>

RunsProgram ==
  /\ BootAt({"ring3"}) /\ R3!ProgramStep
  /\ UNCHANGED <<flowVars, TICKS, taskVars, vars>>

(* Back in run_demo_syscall; what the last call left in the caller-saved   *)
(* registers is dead.                                                      *)
ChecksReport ==
  /\ BootAt({"ring3"}) /\ rip = 0 /\ pc' = "capability"
  /\ Record(REPORTED_VALUE = 1249)
  /\ regs' = [r \in R3!Registers |-> IF r \in R3!CallerSaved THEN 0 ELSE regs[r]]
  /\ UNCHANGED <<held, exit_code, completed, vaults, rip, kernel_stack, REPORTED_VALUE, IFlag, taskVars, outside>>

----------------------------------------------------------------------------
(* The locks a spawn needs: the run queue's, and those of the page tables  *)
(* and the heap only if the slot's stack has never been mapped.  (Adding   *)
(* to the queue's BTreeMaps allocates only from empty or beyond a node's   *)
(* 11 keys.)                                                               *)
SpawnNeeds ==
  {"SCHEDULER"} \cup (IF SlotOf(None) \in MAPPED THEN {} ELSE MapperLocks)

SpawnedProcess == [class |-> "Normal", deadline |-> 0, vruntime |-> 0]

(* spawn_task and spawn_task_with_address_space, masked: the entry goes to *)
(* the first free slot of the pool.                                        *)
SpawnTask(entry, slots) ==
  /\ held \cap SpawnNeeds = {}
  /\ NEXT_PID' = NEXT_PID + 1
  /\ IF SlotOf(None) = None
       THEN TASK_SLOTS' = slots /\ UNCHANGED <<MAPPED, queue>>
       ELSE /\ TASK_SLOTS' = [slots EXCEPT ![SlotOf(None)] =
                                [pid |-> NEXT_PID, entry |-> entry, in_hlt |-> FALSE]]
            /\ MAPPED' = MAPPED \cup {SlotOf(None)}
            /\ queue' = RQ!AddProcess(queue, NEXT_PID, SpawnedProcess)

(* Variant: init as it once was, its spawns separate critical sections. *)
InitInterruptible ==
  /\ BootAt({"scheduler"}) /\ pc' = "spawn_a"
  /\ scheduler_up' = TRUE /\ early_ticks' = TICKS
  /\ UNCHANGED <<held, all_passed, exit_code, completed, vaults, ring3Vars, IFlag, queue,
                 TASK_SLOTS, MAPPED, NEXT_PID, cpuVars, demoVars, outside>>

(* scheduler_bridge::init masks interrupts from the new queue to the end. *)
InitMasksInterrupts ==
  /\ BootAt({"scheduler"}) /\ pc' = "spawn_a"
  /\ IFlag' = FALSE
  /\ scheduler_up' = TRUE /\ early_ticks' = TICKS
  /\ UNCHANGED <<held, all_passed, exit_code, completed, vaults, ring3Vars, queue, TASK_SLOTS,
                 MAPPED, NEXT_PID, cpuVars, demoVars, outside>>

InitSpawns ==
  /\ \/ BootAt({"spawn_a"}) /\ pc' = "spawn_b" /\ SpawnTask("a", TASK_SLOTS)
     \/ BootAt({"spawn_b"}) /\ pc' = "spawn_c" /\ SpawnTask("b", TASK_SLOTS)
     \/ BootAt({"spawn_c"}) /\ pc' = "spawn_e" /\ SpawnTask("c", TASK_SLOTS)
     \/ BootAt({"spawn_e"}) /\ pc' = "scheduler_boot" /\ SpawnTask("e", TASK_SLOTS)
     \/ /\ BootAt({"spawn_e"}) /\ pc' = "scheduler_boot"   \* AddressSpace::new failed.
        /\ UNCHANGED <<NEXT_PID, TASK_SLOTS, MAPPED, queue>>
  /\ UNCHANGED <<held, all_passed, exit_code, completed, vaults, ring3Vars, IFlag, scheduler_up,
                 early_ticks, cpuVars, demoVars, outside>>

SchedulerBoot ==
  /\ BootAt({"scheduler_boot"}) /\ pc' = "sanctum"
  /\ IFlag' = TRUE
  /\ CompletesPhase("SchedulerBoot", TRUE)
  /\ UNCHANGED <<held, exit_code, vaults, ring3Vars, taskVars, outside>>

SanctumBoot ==
  LET id == vaults.next_vault_id
      created == VM!CreateVault(vaults, 1, "Standard", 4096, 8192)
  IN
  /\ BootAt({"sanctum"}) /\ pc' = "ipc" /\ Unlocks
  /\ vaults' = created
  /\ CompletesPhase("SanctumBoot",
       VM!MayEnterVault(created, id) /\ VM!MayAccess(created, id, 5376) /\ ~VM!MayAccess(created, id, 20480))
  /\ UNCHANGED <<exit_code, context, outside>>

IpcBoot ==
  /\ BootAt({"ipc"}) /\ pc' = "hlt" /\ Unlocks
  /\ \E ok \in BOOLEAN : CompletesPhase("IpcBoot", ok)
  /\ UNCHANGED <<exit_code, vaults, context, outside>>

HaltsForTicks ==
  /\ BootAt({"hlt"}) /\ halts < Halts /\ pc' = "in_hlt"
  /\ UNCHANGED <<held, all_passed, exit_code, completed, vaults, context, outside>>

----------------------------------------------------------------------------
(* The self-tests, the second core and the verdict. *)
ChecksTasks ==
  /\ \/ /\ BootAt({"hlt"}) /\ halts = Halts /\ pc' = "check_exit"
        /\ Record(BothTasksMadeRealProgress)
        /\ UNCHANGED held
     \/ /\ BootAt({"check_exit"}) /\ pc' = "check_reuse"
        /\ IF LooksTaskCUp THEN Unlocks ELSE UNCHANGED held
        /\ Record(TaskCReallyExited)
     \/ /\ BootAt({"check_reuse"}) /\ pc' = "smp"
        /\ Record(TaskReusedAGuardedSlot /\ TaskEVerifiedOwnAddressSpace)
        /\ UNCHANGED held
  /\ UNCHANGED <<exit_code, completed, vaults, context, outside>>

BringsUpAp ==
  /\ BootAt({"smp"}) /\ TargetOf(cpu_topology) # None
  /\ BspStep
  /\ UNCHANGED <<flowVars, ring3Vars, IFlag, TICKS, taskVars>>

ChecksSmp ==
  /\ BootAt({"smp"}) /\ pc' = "recheck"
  /\ \/ TargetOf(cpu_topology) = None /\ Record(FALSE)
     \/ stage = "checked" /\ Record(result)
  /\ UNCHANGED <<held, exit_code, completed, vaults, context, outside>>

ChecksBspState ==
  /\ BootAt({"recheck"}) /\ pc' = "verdict"
  /\ IF LooksTaskCUp THEN Unlocks ELSE UNCHANGED held
  /\ Record(/\ BothTasksMadeRealProgress /\ TaskCReallyExited
            /\ TaskReusedAGuardedSlot /\ TaskEVerifiedOwnAddressSpace)
  /\ UNCHANGED <<exit_code, completed, vaults, context, outside>>

(* exit_qemu ends the machine. *)
ExitQemu ==
  /\ BootAt({"verdict"}) /\ pc' = "exited"
  /\ exit_code' = IF all_passed THEN "Success" ELSE "Failed"
  /\ UNCHANGED <<held, all_passed, completed, vaults, context, outside>>

----------------------------------------------------------------------------
(* The tasks.  An iteration counts and ends in hlt; e counts because it    *)
(* runs in its own address space (SchedulerBridge, KernelPaging).          *)
RunningSlot == SlotOf(CURRENT)

Iterates(entry) ==
  /\ TaskAt({entry}) /\ ~InHlt
  /\ COUNTER' = [COUNTER EXCEPT ![entry] = IF @ < CountedTo[entry] THEN @ + 1 ELSE @]

GoesToHlt(slots) == [slots EXCEPT ![RunningSlot].in_hlt = TRUE]

(* Variant: a does not wait for c. *)
SpawnIsDueAtOnce == ~TASK_D_SPAWNED

SpawnIsDue == TASK_C_EXITED /\ ~TASK_D_SPAWNED

(* a: once c has exited, it spawns d, check and spawn under one mask. *)
TaskASpawnsD ==
  /\ Iterates("a") /\ SpawnIsDue
  /\ TASK_D_SPAWNED' = TRUE
  /\ TASK_D_SPAWN_SLOT' = SlotOf(None)
  /\ SpawnTask("d", GoesToHlt(TASK_SLOTS))
  /\ UNCHANGED <<scheduler_up, early_ticks, cpuVars, TASK_C_EXITED, TASK_EXIT_SLOT, flowVars,
                 ring3Vars, IFlag, TICKS, vars>>

TaskIterates ==
  /\ \/ Iterates("a") /\ ~SpawnIsDue
     \/ Iterates("b")
     \/ Iterates("c") /\ COUNTER["c"] < Iterations
     \/ Iterates("d")
     \/ Iterates("e")
  /\ TASK_SLOTS' = GoesToHlt(TASK_SLOTS)
  /\ UNCHANGED <<queue, MAPPED, NEXT_PID, scheduler_up, early_ticks, cpuVars, TASK_C_EXITED,
                 TASK_D_SPAWNED, TASK_EXIT_SLOT, TASK_D_SPAWN_SLOT, flowVars, ring3Vars, IFlag, TICKS, vars>>

(* Variant: c frees its slot but stays in the queue. *)
TaskCExitsQueued ==
  /\ TaskAt({"c"}) /\ ~InHlt /\ COUNTER["c"] = Iterations
  /\ queue' = queue
  /\ TASK_SLOTS' = [TASK_SLOTS EXCEPT ![RunningSlot] = EmptySlot]
  /\ TASK_EXIT_SLOT' = RunningSlot
  /\ TASK_C_EXITED' = TRUE
  /\ CURRENT' = NextToRun(queue', TICKS)
  /\ mid_period' = TRUE
  /\ UNCHANGED <<MAPPED, NEXT_PID, scheduler_up, early_ticks, COUNTER, TASK_D_SPAWNED,
                 TASK_D_SPAWN_SLOT, flowVars, ring3Vars, IFlag, TICKS, vars>>

(* c, after its iterations: exit_current_task, which hands the core over   *)
(* in the middle of a tick's period.                                       *)
TaskCExits ==
  /\ TaskAt({"c"}) /\ ~InHlt /\ COUNTER["c"] = Iterations
  /\ queue' = RQ!RemoveProcess(queue, CURRENT)
  /\ TASK_SLOTS' = [TASK_SLOTS EXCEPT ![RunningSlot] = EmptySlot]
  /\ TASK_EXIT_SLOT' = RunningSlot
  /\ TASK_C_EXITED' = TRUE
  /\ CURRENT' = NextToRun(queue', TICKS)
  /\ mid_period' = TRUE
  /\ UNCHANGED <<MAPPED, NEXT_PID, scheduler_up, early_ticks, COUNTER, TASK_D_SPAWNED,
                 TASK_D_SPAWN_SLOT, flowVars, ring3Vars, IFlag, TICKS, vars>>

----------------------------------------------------------------------------
(* An iteration is shorter than the 5 ms between two ticks: a task that a  *)
(* tick has dispatched is in its hlt when the next one comes.              *)
TickIsDue == CURRENT # BOOT_PID => mid_period \/ InHlt

TakesInterrupt ==
  /\ pc # "exited" /\ IFlag /\ TickIsDue
  /\ ~scheduler_up => TICKS < MaxEarlyTicks
  /\ TimerInterrupt
  /\ UNCHANGED <<flowVars, ring3Vars, IFlag, TICKS, taskVars>>

(* The interrupt ends the hlt it comes in. *)
WakesUp ==
  /\ pc' = IF CURRENT = BOOT_PID /\ InHlt THEN "hlt" ELSE pc
  /\ halts' = IF CURRENT = BOOT_PID /\ InHlt THEN halts + 1 ELSE halts
  /\ TASK_SLOTS' = IF CURRENT = BOOT_PID THEN TASK_SLOTS
                    ELSE [TASK_SLOTS EXCEPT ![RunningSlot].in_hlt = FALSE]

(* timer_interrupt_handler and on_timer_tick, which spins while TICKS or   *)
(* SCHEDULER is held by the code it has interrupted.                       *)
OnTimerTick ==
  /\ "SCHEDULER" \notin held
  /\ TimerHandler
  /\ TICKS' = IF TICKS > SWITCH_TICK_BUDGET THEN TICKS ELSE TICKS + 1
  /\ queue' = IF CURRENT = BOOT_PID THEN queue ELSE RQ!UpdateVruntime(queue, CURRENT, 1)
  /\ CURRENT' = IF scheduler_up THEN NextToRun(queue, TICKS') ELSE CURRENT
  /\ mid_period' = FALSE
  /\ WakesUp
  /\ UNCHANGED <<held, all_passed, exit_code, completed, vaults, cpu_topology, ring3Vars, IFlag,
                 MAPPED, NEXT_PID, scheduler_up, early_ticks, demoVars>>

ApRuns ==
  /\ pc # "exited"
  /\ ApWakes \/ ApReports \/ ApStarts \/ ApSurvives
  /\ UNCHANGED <<flowVars, ring3Vars, IFlag, TICKS, taskVars>>

----------------------------------------------------------------------------
FlowStep ==
  \/ EarlyBoot \/ LateBoot \/ TakesLocks \/ ChecksMemory
  \/ RunDemoSyscall \/ RunsProgram \/ ChecksReport \/ ChecksCapability
  \/ InitMasksInterrupts \/ InitSpawns \/ SchedulerBoot \/ SanctumBoot \/ IpcBoot
  \/ HaltsForTicks \/ ChecksTasks \/ BringsUpAp \/ ChecksSmp \/ ChecksBspState \/ ExitQemu

TaskStep == TaskIterates \/ TaskASpawnsD \/ TaskCExits

BootNext == FlowStep \/ TaskStep \/ TakesInterrupt \/ OnTimerTick \/ ApRuns

BootSpec == BootInit /\ [][BootNext]_kernelVars

(* The core gets on with its code between interrupts, the PIC holds a tick *)
(* until the core takes it, and a handler that is not stuck ends.  Of the  *)
(* second core nothing is assumed: it may be slow, or never start.         *)
FairBootSpec ==
  /\ BootSpec
  /\ SF_kernelVars(FlowStep) /\ SF_kernelVars(TaskStep)
  /\ SF_kernelVars(TakesInterrupt) /\ WF_kernelVars(OnTimerTick)

----------------------------------------------------------------------------
Locations ==
  DOMAIN LocksNeeded \cup
  {"early_boot", "late_boot", "syscall", "ring3", "scheduler", "spawn_a", "spawn_b", "spawn_c", "spawn_e",
   "scheduler_boot", "hlt", "in_hlt", "check_reuse", "smp", "verdict", "exited"}

(* Every variable keeps its type; the pid that runs always has a slot. *)
BootTypeOK ==
  /\ TypeOK
  /\ pc \in Locations /\ held \subseteq {"MAPPER", "PHYS", "ALLOCATOR", "SCHEDULER"} /\ halts \in 0 .. Halts
  /\ all_passed \in BOOLEAN /\ exit_code \in {"none", "Success", "Failed"}
  /\ completed \subseteq Boot!Phases /\ VM!Vaults(vaults) = 1 .. vaults.next_vault_id - 1
  /\ rip \in 0 .. Len(R3!USER_PROGRAM) /\ regs \in [R3!Registers -> 0 .. U64 - 1] /\ IFlag \in BOOLEAN
  /\ TICKS \in 0 .. SWITCH_TICK_BUDGET + 1 /\ early_ticks \in None .. SWITCH_TICK_BUDGET + 1
  /\ CURRENT = BOOT_PID \/ SlotOf(CURRENT) # None
  /\ \A i \in Slots : TASK_SLOTS[i].pid \in None .. NEXT_PID - 1
  /\ MAPPED \subseteq Slots /\ NEXT_PID \in 0 .. 5
  /\ \A e \in DOMAIN CountedTo : COUNTER[e] \in 0 .. CountedTo[e]
  /\ {TASK_EXIT_SLOT, TASK_D_SPAWN_SLOT} \subseteq Slots \cup {None}

(* The core can do nothing any more: a handler spins on a lock of the code *)
(* it has interrupted, a masked spawn on a lock of the suspended boot      *)
(* flow, or a hlt waits with interrupts off.                               *)
Stuck ==
  \/ isr /\ (TICKS_locked \/ "SCHEDULER" \in held)
  \/ TaskAt({"a"}) /\ ~InHlt /\ SpawnIsDue /\ held \cap SpawnNeeds # {}
  \/ ~isr /\ ~IFlag /\ InHlt

(* A tick may come while the boot flow holds the heap or the page tables,  *)
(* suspend it there and run tasks that spawn and exit, and still the       *)
(* kernel can only hang where task_c_really_exited holds SCHEDULER and     *)
(* where tick_count holds TICKS.                                           *)
HangsOnlyInTwoPlaces ==
  Stuck => /\ isr /\ CURRENT = BOOT_PID
           /\ \/ held = {"SCHEDULER"} /\ pc \in {"check_exit", "recheck"}
              \/ TICKS_locked /\ pc = "smp"

(* However its parts interleave, the kernel reaches its verdict or hangs.  *)
EndsOrHangs == <>(pc = "exited" \/ Stuck)

(* The ticks of the budget that the tasks need to pass their checks. *)
TicksNeeded == 27

(* If that many are left when init makes the queue, and task e has its     *)
(* address space, then wherever in the boot flow the first tick comes, all *)
(* four self-tests of the tasks find what they look for.                   *)
SelfTestsPass ==
  /\ pc \in {"check_exit", "check_reuse", "smp", "recheck", "verdict", "exited"}
  /\ early_ticks + TicksNeeded <= SWITCH_TICK_BUDGET /\ MAPPED = 0 .. 3
  => /\ BothTasksMadeRealProgress /\ TaskCReallyExited
     /\ TaskReusedAGuardedSlot /\ TaskEVerifiedOwnAddressSpace

(* Once kernel_main is past its halts, no tick takes the core from it any  *)
(* more: the self-tests read the locked slots and the queue with no task   *)
(* running, and none of the exits and spawns that change them can come in  *)
(* between two checks.                                                     *)
ChecksRunAlone ==
  pc \in {"check_exit", "check_reuse", "smp", "recheck", "verdict", "exited"} => CURRENT = BOOT_PID

(* Success is only reported by a kernel in which it all happened: d lives  *)
(* in the slot that c has left, all but the last boot phase are complete,  *)
(* the ring-3 program's sum has arrived, the vault can be entered, and the *)
(* second core has come through its breakpoint.                            *)
VerdictIsEvidence ==
  exit_code = "Success" =>
    /\ TASK_SLOTS[2].entry = "d" /\ TASK_C_PID \notin RQ!Queued(queue) /\ CURRENT = BOOT_PID
    /\ completed = Boot!Phases \ {"SyscallBoot"}
    /\ REPORTED_VALUE = 15 + 1234
    /\ VM!MayEnterVault(vaults, 1)
    /\ ap = "parked" /\ AP_REPORTED_APIC_ID = Target

(* When the ring-3 program is over, however it was interrupted and its     *)
(* registers clobbered, its sum has arrived and the kernel is as it was    *)
(* when it was left: its callee-saved registers, and interrupts enabled.   *)
Ring3RoundTrip ==
  pc = "ring3" /\ rip = 0 =>
    /\ REPORTED_VALUE = 15 + 1234
    /\ \A r \in R3!Registers \ R3!CallerSaved : regs[r] = R3!KernelRegs[r]
    /\ IFlag

(* kernel_main always comes to its verdict. *)
BootFinishes == <>(pc = "exited")
=============================================================================
