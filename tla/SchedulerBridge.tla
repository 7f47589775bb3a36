-------------------------- MODULE SchedulerBridge --------------------------
(***************************************************************************)
(* The preemptive scheduler of the kernel: kernel-x86_64/src               *)
(* scheduler_bridge.rs with the parts it stands on: the stack switch of    *)
(* context.rs, the guarded stacks of task_stack.rs, the timer handler of   *)
(* interrupts.rs and the CR3 switching of address_space.rs.                *)
(*                                                                         *)
(* One core.  Its program is whatever lies on the stack it executes on     *)
(* (cpu); every other execution waits as a frame saved on its own stack.   *)
(* The only concurrency is the timer interrupt, and the only protection is *)
(* the interrupt flag IFlag, so spawn_task, exit_current_task and init are *)
(* taken one step at a time and the interrupt may come between any two     *)
(* steps at which it is set.                                               *)
(*                                                                         *)
(* The tasks themselves are arbitrary: a running task may spawn a task,    *)
(* with or without an address space of its own, or exit, or just run       *)
(* (hlt), at any time.                                                     *)
(***************************************************************************)
EXTENDS RunQueueOps

CONSTANTS
  MAX_TASKS,           \* Slots of the task pool, and guarded stacks.
  SWITCH_TICK_BUDGET,  \* Ticks after which the boot flow gets the core back.
  BOOT_PID,            \* u64::MAX, and here also the bound on NEXT_PID.
  InitialTasks,        \* Unbound tasks init spawns (a, b and c: 3).
  BootL4, TaskL4       \* L4 frames: the boot table, the one init creates.

ASSUME BridgeAssumption ==
  /\ MAX_TASKS \in Nat
  /\ InitialTasks \in 1 .. MAX_TASKS - 1
  /\ SWITCH_TICK_BUDGET \in Nat /\ SWITCH_TICK_BUDGET + 1 < U64
  /\ BOOT_PID \in Nat /\ BOOT_PID > InitialTasks
  /\ BootL4 \in Nat /\ TaskL4 \in Nat /\ BootL4 # TaskL4

VARIABLES
  IFlag,             \* RFLAGS.IF of the core.
  in_service,        \* IRQ0's in-service bit: set by delivery, cleared by EOI.
  isr,               \* The core is in timer_interrupt_handler.
  TICKS,
  scheduler_up,      \* SCHEDULER is Some(rq).
  rq,                \* The RunQueue in SCHEDULER.
  CURRENT,
  TASK_SLOTS,        \* [pid, rsp, address_space] per slot.
  BOOT_CONTEXT,      \* BOOT_CONTEXT.rsp.
  NEXT_PID,
  bound,             \* History: the address space asked for at each pid's spawn.
  MAPPED,            \* Slots whose stack pages have been mapped.
  spaces,            \* L4 frames AddressSpace::new has returned.
  stack_region,      \* L4 frames whose entry for the stack region is present.
  DEFAULT_L4_FRAME,
  cr3,
  cpu,               \* The stack rsp points into; None: a wild rsp.
  frame,             \* Per stack: the frame waiting on it to be switched to.
  pc,                \* Per stack: where its execution is in the code below.
  local,             \* Per stack: the local variables of a spawn in progress.
  init_stage         \* How far init has come.

timerVars == <<in_service, isr, TICKS>>
queueVars == <<scheduler_up, rq>>
poolVars == <<TASK_SLOTS, BOOT_CONTEXT, frame>>
runVars == <<CURRENT, cr3, cpu>>
memoryVars == <<MAPPED, spaces, stack_region, DEFAULT_L4_FRAME>>
codeVars == <<pc, local, init_stage>>
vars == <<IFlag, NEXT_PID, bound, timerVars, queueVars, poolVars, runVars, memoryVars, codeVars>>

(* A stack is named by its slot; the boot flow's stack is one more.  An    *)
(* rsp is the stack it points into, None standing for the 0 of an empty    *)
(* Context.                                                                *)
Slots == 0 .. MAX_TASKS - 1
BootStack == MAX_TASKS
Stacks == 0 .. MAX_TASKS

Pids == 0 .. BOOT_PID - 1

SpawnLocations == {"spawn", "claim", "install", "enqueue", "leave"}
ExitLocations == {"exit_remove", "exit_free", "exit_switch"}

NoLocal == [pid |-> 0, slot |-> 0, space |-> None, were_enabled |-> FALSE]

(* slots.iter().position(|s| s.pid == pid), with pid = None for a free     *)
(* slot.                                                                   *)
SlotOf(pid) ==
  IF \E i \in Slots : TASK_SLOTS[i].pid = pid
    THEN CHOOSE i \in Slots : /\ TASK_SLOTS[i].pid = pid
                              /\ \A j \in Slots : j < i => TASK_SLOTS[j].pid # pid
    ELSE None

(* The context switch_to saves into: 'context_ptr' falls back to the boot  *)
(* context for a pid without a slot.                                       *)
ContextPtr(pid) ==
  IF pid = BOOT_PID \/ SlotOf(pid) = None THEN BootStack ELSE SlotOf(pid)

ContextRsp(pid) ==
  IF pid = BOOT_PID THEN BOOT_CONTEXT
  ELSE IF SlotOf(pid) = None THEN None
  ELSE TASK_SLOTS[SlotOf(pid)].rsp

DesiredL4Frame(pid) ==
  IF pid = BOOT_PID \/ SlotOf(pid) = None THEN DEFAULT_L4_FRAME
  ELSE IF TASK_SLOTS[SlotOf(pid)].address_space = None THEN DEFAULT_L4_FRAME
  ELSE TASK_SLOTS[SlotOf(pid)].address_space

SwitchAddressSpaceTo(pid) ==
  cr3' = IF DesiredL4Frame(pid) = None THEN cr3 ELSE DesiredL4Frame(pid)

(* context::switch_to: the core's rsp goes to the context of stack 'save'  *)
(* (None: exit_current_task's throw-away variable) and 'next_rsp' becomes  *)
(* the stack it runs on.  A frame made by init_stack enters                *)
(* task_trampoline, which sets IF; one left by the timer handler returns   *)
(* through its iretq, which restores the IF that let the interrupt in.     *)
(* Loading an rsp with no frame behind it is the end of the kernel.        *)
(* Variant: task_trampoline without its sti. *)
ResumedIFNoSti(f) == f = "isr"

ResumedIF(f) == f \in {"fresh", "isr"}

SwitchTo(save, next_rsp) ==
  LET good == next_rsp # None /\ frame[next_rsp] # "none"
      left == IF save = None THEN "none" ELSE "isr"
  IN  /\ TASK_SLOTS' = IF save \in Slots THEN [TASK_SLOTS EXCEPT ![save].rsp = cpu] ELSE TASK_SLOTS
      /\ BOOT_CONTEXT' = IF save = BootStack THEN cpu ELSE BOOT_CONTEXT
      /\ frame' = IF good THEN [frame EXCEPT ![cpu] = left, ![next_rsp] = "none"]
                          ELSE [frame EXCEPT ![cpu] = left]
      /\ cpu' = IF good THEN next_rsp ELSE None
      /\ IFlag' = (good /\ ResumedIF(frame[next_rsp]))

(* The pid on_timer_tick and exit_current_task hand the core to. *)
NextToRun(queue, tick) ==
  IF tick > SWITCH_TICK_BUDGET \/ PickNextTask(queue) = None THEN BOOT_PID ELSE PickNextTask(queue)

At(location) == cpu # None /\ ~isr /\ pc[cpu] = location
Goto(location) == pc' = [pc EXCEPT ![cpu] = location]

----------------------------------------------------------------------------
(* LateBoot has enabled interrupts; the RunQueue does not exist yet. *)
Init ==
  /\ IFlag = TRUE /\ in_service = FALSE /\ isr = FALSE
  /\ TICKS = 0
  /\ scheduler_up = FALSE /\ rq = NewRunQueue
  /\ CURRENT = BOOT_PID
  /\ TASK_SLOTS = [i \in Slots |-> [pid |-> None, rsp |-> None, address_space |-> None]]
  /\ BOOT_CONTEXT = None
  /\ NEXT_PID = 0 /\ bound = [pid \in Pids |-> None]
  /\ MAPPED = {} /\ spaces = {} /\ stack_region = {}
  /\ DEFAULT_L4_FRAME = None /\ cr3 = BootL4
  /\ cpu = BootStack
  /\ frame = [s \in Stacks |-> "none"]
  /\ pc = [s \in Stacks |-> IF s = BootStack THEN "boot" ELSE "run"]
  /\ local = [s \in Stacks |-> NoLocal]
  /\ init_stage = 0

(* Hardware: the PIT raises IRQ0, the PIC delivers it unless the previous  *)
(* one is still in service, and the interrupt gate clears IF.              *)
TimerInterrupt ==
  /\ cpu # None /\ IFlag /\ ~in_service
  /\ IFlag' = FALSE /\ in_service' = TRUE /\ isr' = TRUE
  /\ UNCHANGED <<TICKS, NEXT_PID, bound, queueVars, poolVars, runVars, memoryVars, codeVars>>

(* on_timer_tick with nothing to switch to: iretq restores IF. *)
TickReturns ==
  /\ IFlag' = TRUE
  /\ UNCHANGED <<poolVars, runVars>>

TickSwitches(prev, next) ==
  /\ CURRENT' = next
  /\ SwitchAddressSpaceTo(next)
  /\ SwitchTo(ContextPtr(prev), ContextRsp(next))

(* TICKS only matters as TICKS > SWITCH_TICK_BUDGET, so it stops there. *)
TickCount == IF TICKS > SWITCH_TICK_BUDGET THEN TICKS ELSE TICKS + 1

(* Variant: the running task is charged before the next one is picked. *)
TimerHandlerChargesFirst ==
  /\ isr
  /\ in_service' = FALSE
  /\ isr' = FALSE
  /\ TICKS' = TickCount
  /\ \/ /\ ~scheduler_up
        /\ UNCHANGED rq
        /\ TickReturns
     \/ /\ scheduler_up
        /\ rq' = IF CURRENT = BOOT_PID THEN rq ELSE UpdateVruntime(rq, CURRENT, 1)
        /\ LET next == NextToRun(rq', TickCount) IN
             IF next = CURRENT THEN TickReturns ELSE TickSwitches(CURRENT, next)
  /\ UNCHANGED <<scheduler_up, NEXT_PID, bound, memoryVars, codeVars>>

(* timer_interrupt_handler: EOI, then on_timer_tick.  The next task is     *)
(* picked before the running one is charged.                               *)
TimerHandler ==
  /\ isr
  /\ in_service' = FALSE
  /\ isr' = FALSE
  /\ TICKS' = TickCount
  /\ \/ /\ ~scheduler_up
        /\ UNCHANGED rq
        /\ TickReturns
     \/ /\ scheduler_up
        /\ rq' = IF CURRENT = BOOT_PID THEN rq ELSE UpdateVruntime(rq, CURRENT, 1)
        /\ LET next == NextToRun(rq, TickCount) IN
             IF next = CURRENT THEN TickReturns ELSE TickSwitches(CURRENT, next)
  /\ UNCHANGED <<scheduler_up, NEXT_PID, bound, memoryVars, codeVars>>

----------------------------------------------------------------------------
(* spawn_task_impl.  The pid is drawn before interrupts are disabled. *)
DrawPid(space) ==
  /\ NEXT_PID < BOOT_PID
  /\ local' = [local EXCEPT ![cpu].pid = NEXT_PID, ![cpu].space = space]
  /\ NEXT_PID' = NEXT_PID + 1
  /\ bound' = [bound EXCEPT ![NEXT_PID] = space]
  /\ Goto("spawn")
  /\ UNCHANGED <<IFlag, MAPPED, DEFAULT_L4_FRAME, timerVars, queueVars, poolVars, runVars>>

TaskSpawns ==
  /\ At("run") /\ cpu # BootStack
  /\ \E space \in {None} \cup (stack_region \ {BootL4}) : DrawPid(space)
  /\ UNCHANGED <<spaces, stack_region, init_stage>>

(* Variant: the slot is claimed with interrupts enabled. *)
SpawnLeavesInterruptsOn ==
  /\ At("spawn")
  /\ local' = [local EXCEPT ![cpu].were_enabled = IFlag]
  /\ Goto("claim")
  /\ UNCHANGED <<IFlag, NEXT_PID, bound, init_stage, timerVars, queueVars, poolVars, runVars, memoryVars>>

(* without_interrupts remembers whether interrupts were enabled. *)
SpawnDisablesInterrupts ==
  /\ At("spawn")
  /\ local' = [local EXCEPT ![cpu].were_enabled = IFlag]
  /\ IFlag' = FALSE
  /\ Goto("claim")
  /\ UNCHANGED <<NEXT_PID, bound, init_stage, timerVars, queueVars, poolVars, runVars, memoryVars>>

(* The first free slot, or none and the pid is wasted.                     *)
SpawnClaimsSlot ==
  /\ At("claim")
  /\ IF SlotOf(None) = None
       THEN Goto("leave") /\ UNCHANGED <<local, MAPPED, stack_region>>
       ELSE /\ local' = [local EXCEPT ![cpu].slot = SlotOf(None)]
            /\ MAPPED' = MAPPED \cup {SlotOf(None)}
            /\ stack_region' = IF SlotOf(None) \in MAPPED THEN stack_region ELSE stack_region \cup {BootL4}
            /\ Goto("install")
  /\ UNCHANGED <<spaces, IFlag, NEXT_PID, bound, DEFAULT_L4_FRAME, init_stage, timerVars, queueVars, poolVars, runVars>>

(* Variant: a reused slot keeps its last occupant's address space. *)
SpawnKeepsAddressSpace ==
  /\ At("install")
  /\ LET l == local[cpu] IN
       /\ frame' = [frame EXCEPT ![l.slot] = "fresh"]
       /\ TASK_SLOTS' = [TASK_SLOTS EXCEPT ![l.slot].pid = l.pid, ![l.slot].rsp = l.slot,
                           ![l.slot].address_space = IF l.space = None THEN @ ELSE l.space]
       /\ pc' = [pc EXCEPT ![l.slot] = "run", ![cpu] = "enqueue"]
  /\ UNCHANGED <<IFlag, BOOT_CONTEXT, NEXT_PID, bound, local, init_stage, timerVars, queueVars, runVars, memoryVars>>

(* Variant: installing and queueing are two critical sections. *)
SpawnInstallsThenEnables ==
  /\ At("install")
  /\ LET l == local[cpu] IN
       /\ frame' = [frame EXCEPT ![l.slot] = "fresh"]
       /\ TASK_SLOTS' = [TASK_SLOTS EXCEPT ![l.slot] =
                           [pid |-> l.pid, rsp |-> l.slot, address_space |-> l.space]]
       /\ pc' = [pc EXCEPT ![l.slot] = "run", ![cpu] = "enqueue"]
       /\ IFlag' = l.were_enabled
  /\ UNCHANGED <<BOOT_CONTEXT, NEXT_PID, bound, local, init_stage, timerVars, queueVars, runVars, memoryVars>>

(* init_stack writes a fresh frame to the slot's stack; then pid, context  *)
(* and address space of the slot are set.                                  *)
SpawnInstallsTask ==
  /\ At("install")
  /\ LET l == local[cpu] IN
       /\ frame' = [frame EXCEPT ![l.slot] = "fresh"]
       /\ TASK_SLOTS' = [TASK_SLOTS EXCEPT ![l.slot] =
                           [pid |-> l.pid, rsp |-> l.slot, address_space |-> l.space]]
       /\ pc' = [pc EXCEPT ![l.slot] = "run", ![cpu] = "enqueue"]
  /\ UNCHANGED <<IFlag, BOOT_CONTEXT, NEXT_PID, bound, local, init_stage, timerVars, queueVars, runVars, memoryVars>>

SpawnedProcess == [class |-> "Normal", deadline |-> 0, vruntime |-> 0]

SpawnEnqueuesTask ==
  /\ At("enqueue")
  /\ rq' = IF scheduler_up THEN AddProcess(rq, local[cpu].pid, SpawnedProcess) ELSE rq
  /\ Goto("leave")
  /\ UNCHANGED <<IFlag, scheduler_up, NEXT_PID, bound, local, init_stage, timerVars, poolVars, runVars, memoryVars>>

(* Variant: the end of a critical section enables interrupts. *)
SpawnEnablesInterrupts ==
  /\ At("leave")
  /\ IFlag' = TRUE
  /\ local' = [local EXCEPT ![cpu] = NoLocal]
  /\ Goto(IF cpu = BootStack THEN "init" ELSE "run")
  /\ UNCHANGED <<NEXT_PID, bound, init_stage, timerVars, queueVars, poolVars, runVars, memoryVars>>

(* The end of without_interrupts: IF is restored, not set. *)
SpawnRestoresInterrupts ==
  /\ At("leave")
  /\ IFlag' = (IFlag \/ local[cpu].were_enabled)
  /\ local' = [local EXCEPT ![cpu] = NoLocal]
  /\ Goto(IF cpu = BootStack THEN "init" ELSE "run")
  /\ UNCHANGED <<NEXT_PID, bound, init_stage, timerVars, queueVars, poolVars, runVars, memoryVars>>

----------------------------------------------------------------------------
(* Variant: a task exits with interrupts enabled. *)
TaskExitsInterruptible ==
  /\ At("run") /\ cpu # BootStack
  /\ Goto("exit_remove")
  /\ UNCHANGED <<IFlag, NEXT_PID, bound, local, init_stage, timerVars, queueVars, poolVars, runVars, memoryVars>>

(* exit_current_task. *)
TaskExits ==
  /\ At("run") /\ cpu # BootStack
  /\ IFlag' = FALSE
  /\ Goto("exit_remove")
  /\ UNCHANGED <<NEXT_PID, bound, local, init_stage, timerVars, queueVars, poolVars, runVars, memoryVars>>

ExitLeavesQueue ==
  /\ At("exit_remove")
  /\ rq' = IF scheduler_up THEN RemoveProcess(rq, CURRENT) ELSE rq
  /\ Goto("exit_free")
  /\ UNCHANGED <<IFlag, scheduler_up, NEXT_PID, bound, local, init_stage, timerVars, poolVars, runVars, memoryVars>>

(* The slot's pid is cleared; its context and address space stay behind.   *)
ExitFreesSlot ==
  /\ At("exit_free")
  /\ TASK_SLOTS' = IF SlotOf(CURRENT) = None THEN TASK_SLOTS
                   ELSE [TASK_SLOTS EXCEPT ![SlotOf(CURRENT)].pid = None]
  /\ Goto("exit_switch")
  /\ UNCHANGED <<IFlag, BOOT_CONTEXT, NEXT_PID, bound, frame, local, init_stage, timerVars, queueVars, runVars, memoryVars>>

(* Variant: CURRENT still names the task that has exited. *)
ExitForgetsCurrent ==
  /\ At("exit_switch")
  /\ LET next == NextToRun(rq, TICKS) IN
       /\ SwitchAddressSpaceTo(next)
       /\ SwitchTo(None, ContextRsp(next))
  /\ UNCHANGED <<CURRENT, NEXT_PID, bound, timerVars, queueVars, memoryVars, codeVars>>

ExitSwitchesAway ==
  /\ At("exit_switch")
  /\ LET next == NextToRun(rq, TICKS) IN
       /\ CURRENT' = next
       /\ SwitchAddressSpaceTo(next)
       /\ SwitchTo(None, ContextRsp(next))
  /\ UNCHANGED <<NEXT_PID, bound, timerVars, queueVars, memoryVars, codeVars>>

----------------------------------------------------------------------------
(* init, run by the boot flow under one without_interrupts. *)
InitStarts ==
  /\ At("boot")
  /\ IFlag' = FALSE
  /\ scheduler_up' = TRUE /\ rq' = NewRunQueue
  /\ DEFAULT_L4_FRAME' = cr3
  /\ Goto("init")
  /\ UNCHANGED <<NEXT_PID, bound, MAPPED, spaces, stack_region, local, init_stage, timerVars, poolVars, runVars>>

InitSpawnsTask ==
  /\ At("init") /\ init_stage < InitialTasks
  /\ init_stage' = init_stage + 1
  /\ DrawPid(None)
  /\ UNCHANGED <<spaces, stack_region>>

(* AddressSpace::new clones every L4 entry of the active table; the task   *)
(* spawned next is bound to the new table.                                 *)
InitSpawnsBoundTask ==
  /\ At("init") /\ init_stage = InitialTasks
  /\ init_stage' = init_stage + 1
  /\ spaces' = spaces \cup {TaskL4}
  /\ stack_region' = IF cr3 \in stack_region THEN stack_region \cup {TaskL4} ELSE stack_region
  /\ DrawPid(TaskL4)

(* AddressSpace::new found no memory. *)
InitHasNoSpace ==
  /\ At("init") /\ init_stage = InitialTasks
  /\ init_stage' = init_stage + 1
  /\ UNCHANGED <<IFlag, NEXT_PID, bound, pc, local, timerVars, queueVars, poolVars, runVars, memoryVars>>

InitEnds ==
  /\ At("init") /\ init_stage > InitialTasks
  /\ IFlag' = TRUE
  /\ Goto("run")
  /\ UNCHANGED <<NEXT_PID, bound, local, init_stage, timerVars, queueVars, poolVars, runVars, memoryVars>>

----------------------------------------------------------------------------
(* What the core does by itself once it has begun. *)
KernelStep ==
  \/ SpawnDisablesInterrupts \/ SpawnClaimsSlot \/ SpawnInstallsTask
  \/ SpawnEnqueuesTask \/ SpawnRestoresInterrupts
  \/ ExitLeavesQueue \/ ExitFreesSlot \/ ExitSwitchesAway
  \/ InitStarts \/ InitSpawnsTask \/ InitSpawnsBoundTask \/ InitHasNoSpace \/ InitEnds
  \/ TimerHandler

Next == TimerInterrupt \/ KernelStep \/ TaskSpawns \/ TaskExits

(* The core keeps executing, and the PIC holds a request until the core    *)
(* takes it, however briefly IF is set.  Tasks owe nothing.                *)
Fairness == WF_vars(KernelStep) /\ SF_vars(TimerInterrupt)

Spec == Init /\ [][Next]_vars

FairSpec == Spec /\ Fairness

----------------------------------------------------------------------------
(* Every variable keeps its type. *)
TypeOK ==
  /\ IFlag \in BOOLEAN /\ in_service \in BOOLEAN /\ isr \in BOOLEAN
  /\ TICKS \in 0 .. SWITCH_TICK_BUDGET + 1
  /\ scheduler_up \in BOOLEAN /\ IsRunQueue(rq)
  /\ CURRENT \in Pids \cup {BOOT_PID}
  /\ TASK_SLOTS \in [Slots -> [pid : Pids \cup {None}, rsp : Stacks \cup {None},
                               address_space : {None, TaskL4}]]
  /\ BOOT_CONTEXT \in Stacks \cup {None}
  /\ NEXT_PID \in 0 .. BOOT_PID
  /\ bound \in [Pids -> {None, TaskL4}]
  /\ MAPPED \subseteq Slots
  /\ spaces \subseteq {TaskL4} /\ stack_region \subseteq {BootL4, TaskL4}
  /\ DEFAULT_L4_FRAME \in {None, BootL4} /\ cr3 \in {BootL4, TaskL4}
  /\ cpu \in Stacks \cup {None}
  /\ frame \in [Stacks -> {"none", "fresh", "isr"}]
  /\ pc \in [Stacks -> {"boot", "init", "run"} \cup SpawnLocations \cup ExitLocations]
  /\ local \in [Stacks -> [pid : Pids, slot : Slots, space : {None, TaskL4},
                           were_enabled : BOOLEAN]]
  /\ init_stage \in 0 .. InitialTasks + 1

(* The core executes on the stack of the task CURRENT names, or on the     *)
(* boot stack when that is BOOT_PID: no switch ever loads the empty rsp of *)
(* context_rsp's unwrap_or(0), or a stack without a frame to return into,  *)
(* and CURRENT never disagrees with the stack.  An exiting task has given  *)
(* its slot back but still stands on its stack.                            *)
RunsOnOwnStack ==
  /\ cpu # None
  /\ CURRENT = BOOT_PID <=> cpu = BootStack
  /\ cpu \in Slots /\ pc[cpu] # "exit_switch" => TASK_SLOTS[cpu].pid = CURRENT

(* Whatever pick_next_task may choose next, and the boot flow once it has  *)
(* been switched away from, has an intact frame on its own stack waiting   *)
(* for switch_to.  In particular BOOT_CONTEXT is never overwritten through *)
(* the fallback of context_ptr.                                            *)
WaitingContextsIntact ==
  /\ \A pid \in Queued(rq) \ {CURRENT} :
       \E i \in Slots : TASK_SLOTS[i].pid = pid /\ TASK_SLOTS[i].rsp = i /\ frame[i] # "none"
  /\ CURRENT # BOOT_PID => BOOT_CONTEXT = BootStack /\ frame[BootStack] = "isr"

(* Whenever an interrupt can arrive, the run queue and the task pool hold  *)
(* the same tasks, and no two slots the same one: a tick never sees half   *)
(* of a spawn or of an exit.                                               *)
QueueMatchesPool ==
  IFlag \/ isr =>
    /\ Queued(rq) = {TASK_SLOTS[i].pid : i \in Slots} \ {None}
    /\ \A i, j \in Slots : TASK_SLOTS[i].pid = TASK_SLOTS[j].pid /\ i # j => TASK_SLOTS[i].pid = None

(* The active page table is the one the task was spawned with, also for a  *)
(* task that reuses the slot of a bound task that has exited; the stack    *)
(* the core is on is mapped in it, and so is the stack init_stack writes   *)
(* to.                                                                     *)
AddressSpaceFollowsTask ==
  /\ scheduler_up /\ cpu # None /\ pc[cpu] # "exit_switch" =>
       cr3 = IF CURRENT = BOOT_PID THEN BootL4
             ELSE IF bound[CURRENT] = None THEN BootL4 ELSE bound[CURRENT]
  /\ cpu \in Slots => cpu \in MAPPED /\ cr3 \in stack_region
  /\ At("install") => local[cpu].slot \in MAPPED /\ cr3 \in stack_region

(* init is never preempted: the first switch away from the boot flow finds *)
(* every initial task spawned.                                             *)
InitIsAtomic == CURRENT # BOOT_PID => pc[BootStack] = "run" /\ init_stage = InitialTasks + 1

(* A stack is given a fresh frame only when nothing executes on it and     *)
(* nothing waits on it: reusing the slot of an exited task never destroys  *)
(* a suspended one.                                                        *)
StackReuseIsSafe ==
  [][\A i \in Slots : frame'[i] = "fresh" /\ frame[i] # "fresh" => frame[i] = "none" /\ cpu # i]_vars

(* The boot flow gets the core back for good: ticks keep coming whatever   *)
(* is switched to (the EOI precedes the switch, a fresh task enables       *)
(* interrupts), and past the budget nothing else is ever chosen.           *)
HandsBack == <>[](cpu = BootStack /\ CURRENT = BOOT_PID)

(* The pids of spawns under way. *)
Pending == {local[s].pid : s \in {t \in Stacks : pc[t] \in {"spawn", "claim", "install", "enqueue"}}}

D == INSTANCE Dispatcher WITH
       vr <- [pid \in Queued(rq) |-> rq.processes[pid].vruntime],
       current <- CURRENT,
       over <- TICKS > SWITCH_TICK_BUDGET,
       used <- 0 .. NEXT_PID - 1 \ Pending

(* Seen from outside, all of this is Dispatcher: a task is queued once, in *)
(* one step; it leaves in one step; each tick passes the core to the least *)
(* vruntime of before the charge; nobody else ever gets it.                *)
ImplementsDispatcher == D!Spec
=============================================================================
