------------------------- MODULE SchedulerBridgeInv -------------------------
(***************************************************************************)
(* The inductive invariant behind the safety properties of                 *)
(* SchedulerBridge.tla, in five parts: the types, where interrupts are     *)
(* masked, what lies on every stack, how pool, queue and spawns under way  *)
(* share out the pids, and which page tables are where.                    *)
(***************************************************************************)
EXTENDS SchedulerBridge

Occupied(i) == TASK_SLOTS[i].pid # None

(* A spawn that has drawn its pid and not yet given it to a slot. *)
Pledged(s) == pc[s] \in {"spawn", "claim", "install"}

(* Code that runs under without_interrupts or after exit's cli: everything *)
(* of init, all of a spawn after its first step, all of an exit.           *)
Critical(s) ==
  \/ pc[s] \in {"init", "claim", "install", "enqueue", "leave"} \cup ExitLocations
  \/ s = BootStack /\ pc[s] = "spawn"

(* The table a task asked for at its spawn; the boot table otherwise. *)
Space(pid) == IF pid = BOOT_PID THEN BootL4 ELSE IF bound[pid] = None THEN BootL4 ELSE bound[pid]

MaskInv ==
  /\ isr => ~IFlag
  /\ Critical(cpu) => ~IFlag /\ ~isr
  /\ cpu = BootStack /\ pc[cpu] \in {"claim", "install", "enqueue", "leave"} => ~local[cpu].were_enabled

StackInv ==
  /\ cpu \in Stacks /\ frame[cpu] = "none"
  /\ CURRENT = BOOT_PID <=> cpu = BootStack
  /\ cpu \in Slots => TASK_SLOTS[cpu].pid = IF pc[cpu] = "exit_switch" THEN None ELSE CURRENT
  /\ \A i \in Slots \ {cpu} :
       IF Occupied(i) THEN TASK_SLOTS[i].rsp = i /\ frame[i] # "none" /\ pc[i] \in {"run", "spawn"}
                      ELSE frame[i] = "none" /\ pc[i] \in {"run", "exit_switch"}
  /\ cpu # BootStack => /\ BOOT_CONTEXT = BootStack /\ frame[BootStack] = "isr"
                        /\ pc[BootStack] = "run"
  /\ pc[BootStack] = "boot" => init_stage = 0
  /\ pc[BootStack] = "run" => init_stage = InitialTasks + 1
  /\ pc[BootStack] \notin ExitLocations
  /\ \A i \in Slots : pc[i] \notin {"boot", "init"}

(* Pids in the pool that are not queued: a spawn or an exit is half done.  *)
Limbo == IF pc[cpu] = "enqueue" THEN {local[cpu].pid} ELSE IF pc[cpu] = "exit_free" THEN {CURRENT} ELSE {}

PidInv ==
  /\ OrderingsMirror(rq)
  /\ \A pid \in Pids : pid \in Queued(rq) <=> pid \notin Limbo /\ \E i \in Slots : TASK_SLOTS[i].pid = pid
  /\ Queued(rq) \subseteq Pids
  /\ \A i, j \in Slots : Occupied(i) /\ TASK_SLOTS[i].pid = TASK_SLOTS[j].pid => i = j
  /\ \A i \in Slots : TASK_SLOTS[i].pid < NEXT_PID
  /\ scheduler_up <=> pc[BootStack] # "boot"
  /\ ~scheduler_up => \A i \in Slots : ~Occupied(i)
  /\ \A s \in Stacks : Pledged(s) =>
       local[s].pid < NEXT_PID /\ \A i \in Slots : TASK_SLOTS[i].pid # local[s].pid
  /\ \A s, t \in Stacks : Pledged(s) /\ Pledged(t) /\ local[s].pid = local[t].pid => s = t
  /\ pc[cpu] = "exit_switch" => \A i \in Slots : TASK_SLOTS[i].pid # CURRENT
  /\ pc[cpu] = "install" => ~Occupied(local[cpu].slot)
  /\ pc[cpu] = "enqueue" => TASK_SLOTS[local[cpu].slot].pid = local[cpu].pid

TableInv ==
  /\ DEFAULT_L4_FRAME = IF scheduler_up THEN BootL4 ELSE None
  /\ \A i \in Slots : Occupied(i) =>
       i \in MAPPED /\ TASK_SLOTS[i].address_space = bound[TASK_SLOTS[i].pid]
  /\ \A s \in Stacks : Pledged(s) => local[s].space = bound[local[s].pid]
  /\ cpu = BootStack \/ pc[cpu] # "exit_switch" => cr3 = Space(CURRENT)
  /\ MAPPED # {} => BootL4 \in stack_region
  /\ \A pid \in Pids : bound[pid] # None => bound[pid] \in stack_region
  /\ cpu \in Slots => cpu \in MAPPED /\ cr3 \in stack_region
  /\ pc[cpu] = "install" => local[cpu].slot \in MAPPED
  /\ pc[BootStack] \in {"install", "enqueue", "leave"} => MAPPED # {}
  /\ pc[BootStack] = "init" /\ init_stage > 0 => MAPPED # {}

IInv == TypeOK /\ MaskInv /\ StackInv /\ PidInv /\ TableInv
=============================================================================
