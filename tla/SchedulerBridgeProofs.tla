----------------------- MODULE SchedulerBridgeProofs -----------------------
(* The safety properties of the preemptive scheduler, for any number of    *)
(* task slots, initial tasks and pids.                                     *)
EXTENDS SchedulerBridgeInv, RunQueueLemmas

(* A pool slot is found by its pid: position() returns None exactly when   *)
(* no slot has that pid.                                                   *)
LEMMA SlotOfIs ==
  ASSUME NEW pid
  PROVE  \/ SlotOf(pid) \in Slots /\ TASK_SLOTS[SlotOf(pid)].pid = pid
         \/ SlotOf(pid) = None /\ \A i \in Slots : TASK_SLOTS[i].pid # pid
<1> DEFINE S == {i \in Slots : TASK_SLOTS[i].pid = pid}
<1>1. CASE S = {}
  BY <1>1 DEF SlotOf
<1>2. CASE S # {}
  <2>1. S \subseteq Nat
    BY BridgeAssumption DEF Slots
  <2>2. PICK m \in S : \A j \in S : ~ (<<j, m>> \in OpToRel(<, Nat))
    BY <1>2, <2>1, NatLessThanWellFounded, WFMin
  <2>3. \A j \in S : ~ (j < m)
    BY <2>1, <2>2 DEF OpToRel
  <2> QED BY <2>3 DEF SlotOf
<1> QED BY <1>1, <1>2

(* What the core may be handed to has its stack, its frame and its page    *)
(* table ready.                                                            *)
LEMMA SwitchTarget ==
  ASSUME IInv, scheduler_up, NEW next \in Queued(rq) \cup {BOOT_PID},
         next # CURRENT \/ pc[cpu] = "exit_switch",
         NEW s, s = IF next = BOOT_PID THEN BootStack ELSE SlotOf(next)
  PROVE  /\ s \in Stacks /\ s # cpu
         /\ next # BOOT_PID => next \in Pids /\ s \in Slots /\ TASK_SLOTS[s].pid = next
         /\ ContextRsp(next) = s
         /\ frame[s] # "none"
         /\ DesiredL4Frame(next) = Space(next)
         /\ pc[s] \in {"run", "spawn"}
         /\ s = BootStack => pc[s] = "run"
<1>1. CASE next = BOOT_PID
  <2>1. cpu # BootStack
    BY <1>1 DEF IInv, StackInv, ExitLocations
  <2>2. s = BootStack /\ s \in Stacks /\ BootL4 # None /\ BootStack # None
    BY <1>1, BridgeAssumption DEF BootStack, Stacks, None
  <2> QED BY <1>1, <2>1, <2>2 DEF IInv, StackInv, TableInv, ContextRsp, DesiredL4Frame, Space
<1>2. CASE next # BOOT_PID
  <2>1. next \in Pids /\ \E i \in Slots : TASK_SLOTS[i].pid = next
    BY <1>2 DEF IInv, PidInv
  <2>2. s \in Slots /\ TASK_SLOTS[s].pid = next /\ s = SlotOf(next) /\ s # None
    BY <1>2, <2>1, SlotOfIs, BridgeAssumption DEF Slots, None
  <2>3. next # None /\ s \in Stacks /\ s # BootStack
    BY <2>1, <2>2, BridgeAssumption DEF Pids, Slots, Stacks, BootStack, None
  <2>4. s # cpu
    BY <2>2, <2>3 DEF IInv, StackInv
  <2>5. TASK_SLOTS[s].rsp = s /\ frame[s] # "none" /\ pc[s] \in {"run", "spawn"}
    BY <2>2, <2>3, <2>4 DEF IInv, StackInv, Occupied
  <2>6. TASK_SLOTS[s].address_space = bound[next] /\ DEFAULT_L4_FRAME = BootL4
    BY <2>2, <2>3 DEF IInv, TableInv, Occupied
  <2> QED BY <1>2, <2>1, <2>2, <2>3, <2>4, <2>5, <2>6 DEF ContextRsp, DesiredL4Frame, Space
<1> QED BY <1>1, <1>2

(* Steps that leave everything alone, and the whole state at boot. *)
LEMMA InitEstablishes == ASSUME Init PROVE IInv
<1> USE BridgeAssumption DEF Init, Slots, Stacks, BootStack, Pids, None
<1>1. TypeOK
  <2>1. NoLocal \in [pid : Pids, slot : Slots, space : {None, TaskL4}, were_enabled : BOOLEAN]
    BY DEF NoLocal
  <2>2. local \in [Stacks -> [pid : Pids, slot : Slots, space : {None, TaskL4}, were_enabled : BOOLEAN]]
    BY <2>1
  <2>3. pc \in [Stacks -> {"boot", "init", "run"} \cup SpawnLocations \cup ExitLocations]
    OBVIOUS
  <2>4. TASK_SLOTS \in [Slots -> [pid : Pids \cup {None}, rsp : Stacks \cup {None},
                                  address_space : {None, TaskL4}]]
    OBVIOUS
  <2>5. frame \in [Stacks -> {"none", "fresh", "isr"}] /\ bound \in [Pids -> {None, TaskL4}]
    OBVIOUS
  <2>6. IsRunQueue(rq)
    BY NewRunQueueMirrors
  <2>7. /\ MAPPED \subseteq Slots /\ spaces \subseteq {TaskL4} /\ stack_region \subseteq {BootL4, TaskL4}
        /\ cpu \in Stacks \cup {None} /\ TICKS \in 0 .. SWITCH_TICK_BUDGET + 1
        /\ NEXT_PID \in 0 .. BOOT_PID /\ init_stage \in 0 .. InitialTasks + 1
    OBVIOUS
  <2>8. /\ IFlag \in BOOLEAN /\ in_service \in BOOLEAN /\ isr \in BOOLEAN /\ scheduler_up \in BOOLEAN
        /\ CURRENT \in Pids \cup {BOOT_PID} /\ BOOT_CONTEXT \in Stacks \cup {None}
        /\ DEFAULT_L4_FRAME \in {None, BootL4} /\ cr3 \in {BootL4, TaskL4}
    OBVIOUS
  <2> HIDE DEF Init, Slots, Stacks, BootStack, Pids, None
  <2> QED BY <2>2, <2>3, <2>4, <2>5, <2>6, <2>7, <2>8 DEF TypeOK
<1>2. MaskInv
  BY DEF MaskInv, Critical, ExitLocations
<1>3. StackInv
  BY DEF StackInv, Occupied, ExitLocations
<1>4. PidInv
  BY NewRunQueueMirrors DEF PidInv, Occupied, Pledged
<1>5. TableInv
  BY DEF TableInv, Occupied, Pledged, Space
<1> QED BY <1>1, <1>2, <1>3, <1>4, <1>5 DEF IInv

(* Nothing moves. *)
LEMMA StutterKeeps == ASSUME IInv, UNCHANGED vars PROVE IInv'
<1> USE DEF vars, timerVars, queueVars, poolVars, runVars, memoryVars, codeVars
<1>1. TypeOK'
  BY DEF IInv, TypeOK
<1>2. MaskInv'
  BY DEF IInv, MaskInv, Critical
<1>3. StackInv'
  BY DEF IInv, StackInv, Occupied
<1>4. PidInv'
  BY DEF IInv, PidInv, Occupied, Pledged, Limbo
<1>5. TableInv'
  BY DEF IInv, TableInv, Occupied, Pledged, Space
<1> QED BY <1>1, <1>2, <1>3, <1>4, <1>5 DEF IInv

(* An interrupt is only taken outside every critical section. *)
LEMMA TimerInterruptKeeps == ASSUME IInv, TimerInterrupt PROVE IInv'
<1> USE DEF TimerInterrupt, queueVars, poolVars, runVars, memoryVars, codeVars
<1>1. TypeOK'
  BY DEF IInv, TypeOK
<1>2. MaskInv'
  BY DEF IInv, MaskInv, Critical
<1>3. StackInv'
  BY DEF IInv, StackInv, Occupied
<1>4. PidInv'
  BY DEF IInv, PidInv, Occupied, Pledged, Limbo
<1>5. TableInv'
  BY DEF IInv, TableInv, Occupied, Pledged, Space
<1> QED BY <1>1, <1>2, <1>3, <1>4, <1>5 DEF IInv

(* Where the executing code stands after a step, stack by stack. *)
LEMMA GotoMoves ==
  ASSUME TypeOK, cpu \in Stacks,
         NEW location \in {"boot", "init", "run"} \cup SpawnLocations \cup ExitLocations,
         Goto(location)
  PROVE  /\ pc' \in [Stacks -> {"boot", "init", "run"} \cup SpawnLocations \cup ExitLocations]
         /\ pc'[cpu] = location
         /\ \A s \in Stacks \ {cpu} : pc'[s] = pc[s]
BY DEF TypeOK, Goto

(* Stacks, pids and page tables by number. *)
LEMMA Numbering ==
  /\ BootStack \in Stacks /\ BootStack \notin Slots /\ None \notin Stacks
  /\ Slots \subseteq Stacks /\ Stacks = Slots \cup {BootStack}
  /\ Slots # {} /\ None \notin Pids /\ BOOT_PID \notin Pids
  /\ BootL4 # None /\ TaskL4 # None /\ BootL4 # TaskL4
<1>1. 0 \in Slots
  BY BridgeAssumption DEF Slots
<1>2. /\ BootStack \in Stacks /\ BootStack \notin Slots /\ None \notin Stacks
      /\ Slots \subseteq Stacks /\ Stacks = Slots \cup {BootStack}
  BY BridgeAssumption DEF Stacks, Slots, BootStack, None
<1>3. /\ None \notin Pids /\ BOOT_PID \notin Pids
      /\ BootL4 # None /\ TaskL4 # None /\ BootL4 # TaskL4
  BY BridgeAssumption DEF None, Pids
<1> QED BY <1>1, <1>2, <1>3

(* init creates the empty queue and takes the active table as default: it  *)
(* is the boot table, because nothing has been switched to yet.            *)
LEMMA InitStartsKeeps == ASSUME IInv, InitStarts PROVE IInv'
<1> USE Numbering DEF InitStarts, At, timerVars, poolVars, runVars
<1>0. TypeOK /\ MaskInv /\ StackInv /\ PidInv /\ TableInv
  BY DEF IInv
<1>1. /\ cpu = BootStack /\ cr3 = BootL4 /\ ~scheduler_up
      /\ \A s \in Stacks \ {cpu} : pc'[s] = pc[s]
      /\ pc'[cpu] = "init"
  <2>1. cpu = BootStack /\ cpu \in Stacks
    BY <1>0 DEF StackInv
  <2>2. CURRENT = BOOT_PID /\ cr3 = BootL4 /\ ~scheduler_up
    BY <1>0, <2>1 DEF StackInv, PidInv, TableInv, Space
  <2> QED BY <1>0, <2>1, <2>2, GotoMoves
<1>2. IsRunQueue(rq') /\ OrderingsMirror(rq') /\ Queued(rq') = {}
  BY NewRunQueueMirrors
<1>3. TypeOK'
  BY <1>0, <1>1, <1>2, GotoMoves DEF TypeOK
<1>4. MaskInv'
  BY <1>0, <1>1 DEF MaskInv, Critical
<1>5. StackInv'
  BY <1>0, <1>1 DEF StackInv, Occupied, ExitLocations
<1>6. PidInv'
  <2>1. \A s \in Stacks : Pledged(s)' => Pledged(s)
    BY <1>1 DEF Pledged
  <2>2. \A pid \in Pids : \A i \in Slots : TASK_SLOTS[i].pid # pid
    BY <1>0, <1>1 DEF PidInv, Occupied
  <2>3. scheduler_up' <=> pc'[BootStack] # "boot"
    BY <1>1, <1>2, <2>1, <2>2
  <2>4. Queued(rq') \subseteq Pids /\ \A pid \in Pids : pid \notin Queued(rq')
    BY <1>2
  <2> QED BY <1>0, <1>1, <1>2, <2>1, <2>2, <2>3, <2>4 DEF PidInv, Occupied, Limbo
<1>7. TableInv'
  <2>1. \A s \in Stacks : Pledged(s)' => Pledged(s)
    BY <1>1 DEF Pledged
  <2> QED BY <1>0, <1>1, <2>1 DEF TypeOK, StackInv, TableInv, Occupied, Space
<1> QED BY <1>3, <1>4, <1>5, <1>6, <1>7 DEF IInv

(* init without the bound task. *)
LEMMA InitHasNoSpaceKeeps == ASSUME IInv, InitHasNoSpace PROVE IInv'
<1> USE DEF InitHasNoSpace, At, timerVars, queueVars, poolVars, runVars, memoryVars
<1>1. TypeOK'
  BY BridgeAssumption DEF IInv, TypeOK
<1>2. MaskInv'
  BY DEF IInv, MaskInv, Critical
<1>3. StackInv'
  BY Numbering DEF IInv, StackInv, Occupied
<1>4. PidInv'
  BY DEF IInv, PidInv, Occupied, Pledged, Limbo
<1>5. TableInv'
  BY BridgeAssumption, Numbering DEF IInv, StackInv, TableInv, Occupied, Pledged, Space
<1> QED BY <1>1, <1>2, <1>3, <1>4, <1>5 DEF IInv

(* init ends: the boot flow may be preempted from here on, every initial   *)
(* task being spawned.                                                     *)
LEMMA InitEndsKeeps == ASSUME IInv, InitEnds PROVE IInv'
<1> USE Numbering DEF InitEnds, At, timerVars, queueVars, poolVars, runVars, memoryVars
<1>0. TypeOK /\ MaskInv /\ StackInv /\ PidInv /\ TableInv
  BY DEF IInv
<1>1. /\ cpu = BootStack /\ pc'[cpu] = "run" /\ init_stage = InitialTasks + 1
      /\ \A s \in Stacks \ {cpu} : pc'[s] = pc[s]
  <2>1. cpu = BootStack /\ cpu \in Stacks
    BY <1>0 DEF StackInv
  <2>2. init_stage = InitialTasks + 1
    BY <1>0, BridgeAssumption DEF TypeOK
  <2> QED BY <1>0, <2>1, <2>2, GotoMoves
<1>2. TypeOK'
  BY <1>0, <1>1, GotoMoves DEF TypeOK
<1>3. MaskInv'
  BY <1>0, <1>1 DEF MaskInv, Critical, ExitLocations
<1>4. StackInv'
  BY <1>0, <1>1 DEF StackInv, Occupied, ExitLocations
<1>5. PidInv'
  BY <1>0, <1>1 DEF PidInv, Occupied, Pledged, Limbo
<1>6. TableInv'
  BY <1>0, <1>1 DEF TableInv, Occupied, Pledged, Space
<1> QED BY <1>2, <1>3, <1>4, <1>5, <1>6 DEF IInv

(* The spawn enters its critical section. *)
LEMMA SpawnDisablesInterruptsKeeps == ASSUME IInv, SpawnDisablesInterrupts PROVE IInv'
<1> USE Numbering DEF SpawnDisablesInterrupts, At, timerVars, queueVars, poolVars, runVars, memoryVars
<1>0. TypeOK /\ MaskInv /\ StackInv /\ PidInv /\ TableInv
  BY DEF IInv
<1>1. /\ cpu \in Stacks /\ pc'[cpu] = "claim"
      /\ \A s \in Stacks \ {cpu} : pc'[s] = pc[s] /\ local'[s] = local[s]
      /\ local'[cpu] = [local[cpu] EXCEPT !.were_enabled = IFlag]
  BY <1>0, GotoMoves DEF StackInv, TypeOK, SpawnLocations
<1>2. /\ local'[cpu].pid = local[cpu].pid /\ local'[cpu].slot = local[cpu].slot
      /\ local'[cpu].space = local[cpu].space /\ local'[cpu].were_enabled = IFlag
  BY <1>0, <1>1 DEF TypeOK
<1>3. TypeOK'
  <2>1. local' \in [Stacks -> [pid : Pids, slot : Slots, space : {None, TaskL4}, were_enabled : BOOLEAN]]
    BY <1>0 DEF TypeOK
  <2>2. pc' \in [Stacks -> {"boot", "init", "run"} \cup SpawnLocations \cup ExitLocations]
    BY <1>0, <1>1, GotoMoves DEF SpawnLocations
  <2> QED BY <1>0, <2>1, <2>2 DEF TypeOK
<1>4. MaskInv'
  BY <1>0, <1>1, <1>2 DEF MaskInv, Critical
<1>5. StackInv'
  BY <1>0, <1>1 DEF StackInv, Occupied, ExitLocations
<1>6. PidInv'
  BY <1>0, <1>1, <1>2 DEF PidInv, Occupied, Pledged, Limbo
<1>7. TableInv'
  BY <1>0, <1>1, <1>2 DEF TableInv, Occupied, Pledged, Space
<1> QED BY <1>3, <1>4, <1>5, <1>6, <1>7 DEF IInv

(* The spawn leaves it: under init were_enabled is false, so init stays    *)
(* atomic; in a task interrupts come back on.                              *)
LEMMA SpawnRestoresInterruptsKeeps == ASSUME IInv, SpawnRestoresInterrupts PROVE IInv'
<1> USE Numbering DEF SpawnRestoresInterrupts, At, timerVars, queueVars, poolVars, runVars, memoryVars
<1> DEFINE after == IF cpu = BootStack THEN "init" ELSE "run"
<1>0. TypeOK /\ MaskInv /\ StackInv /\ PidInv /\ TableInv
  BY DEF IInv
<1>1. /\ cpu \in Stacks /\ pc'[cpu] = after
      /\ \A s \in Stacks \ {cpu} : pc'[s] = pc[s] /\ local'[s] = local[s]
      /\ local'[cpu] = NoLocal
  BY <1>0, GotoMoves DEF StackInv, TypeOK
<1>2. TypeOK'
  <2>1. NoLocal \in [pid : Pids, slot : Slots, space : {None, TaskL4}, were_enabled : BOOLEAN]
    BY BridgeAssumption DEF NoLocal, Pids, Slots
  <2> QED BY <1>0, <1>1, <2>1, GotoMoves DEF TypeOK
<1>3. MaskInv'
  BY <1>0, <1>1 DEF MaskInv, Critical, ExitLocations
<1>4. StackInv'
  BY <1>0, <1>1 DEF StackInv, Occupied, ExitLocations
<1>5. PidInv'
  BY <1>0, <1>1 DEF PidInv, Occupied, Pledged, Limbo
<1>6. TableInv'
  BY <1>0, <1>1 DEF TableInv, Occupied, Pledged, Space
<1> QED BY <1>2, <1>3, <1>4, <1>5, <1>6 DEF IInv

(* The free slot found is no task's, and its stack is mapped before use. *)
LEMMA SpawnClaimsSlotKeeps == ASSUME IInv, SpawnClaimsSlot PROVE IInv'
<1> USE Numbering DEF SpawnClaimsSlot, At, timerVars, queueVars, poolVars, runVars
<1> DEFINE slot == SlotOf(None)
<1>0. TypeOK /\ MaskInv /\ StackInv /\ PidInv /\ TableInv
  BY DEF IInv
<1>a. cpu \in Stacks /\ pc[cpu] = "claim"
  BY <1>0 DEF StackInv
(* The pool is full: the spawn is given up. *)
<1>1. CASE slot = None
  <2>1. \A i \in Slots : Occupied(i)
    BY <1>1, SlotOfIs DEF Occupied
  <2>2. MAPPED # {}
    BY <1>0, <2>1 DEF TableInv
  <2>3. /\ pc'[cpu] = "leave" /\ \A s \in Stacks \ {cpu} : pc'[s] = pc[s]
        /\ pc' \in [Stacks -> {"boot", "init", "run"} \cup SpawnLocations \cup ExitLocations]
        /\ local' = local /\ MAPPED' = MAPPED /\ stack_region' = stack_region
    BY <1>0, <1>a, <1>1, GotoMoves DEF SpawnLocations
  <2> HIDE DEF slot
  <2>4. TypeOK'
    BY <1>0, <2>3 DEF TypeOK
  <2>5. MaskInv'
    BY <1>0, <1>a, <2>3 DEF MaskInv, Critical
  <2>6. StackInv'
    BY <1>0, <1>a, <2>3 DEF StackInv, Occupied, ExitLocations
  <2>7. PidInv'
    BY <1>0, <1>a, <2>3 DEF PidInv, Occupied, Pledged, Limbo
  <2>8. TableInv'
    BY <1>0, <1>a, <2>2, <2>3 DEF TableInv, Occupied, Pledged, Space
  <2> QED BY <2>4, <2>5, <2>6, <2>7, <2>8 DEF IInv
(* A slot is free: its stack is mapped, in the boot table if in any. *)
<1>2. CASE slot # None
  <2>1. slot \in Slots /\ ~Occupied(slot)
    BY <1>2, SlotOfIs DEF Occupied
  <2>2. /\ pc'[cpu] = "install" /\ \A s \in Stacks \ {cpu} : pc'[s] = pc[s]
        /\ pc' \in [Stacks -> {"boot", "init", "run"} \cup SpawnLocations \cup ExitLocations]
        /\ local' = [local EXCEPT ![cpu].slot = slot]
        /\ MAPPED' = MAPPED \cup {slot}
        /\ stack_region' = IF slot \in MAPPED THEN stack_region ELSE stack_region \cup {BootL4}
    BY <1>0, <1>a, <1>2, GotoMoves DEF SpawnLocations
  <2> HIDE DEF slot
  <2>3. /\ local'[cpu].pid = local[cpu].pid /\ local'[cpu].slot = slot
        /\ local'[cpu].space = local[cpu].space /\ local'[cpu].were_enabled = local[cpu].were_enabled
        /\ \A s \in Stacks \ {cpu} : local'[s] = local[s]
        /\ local' \in [Stacks -> [pid : Pids, slot : Slots, space : {None, TaskL4}, were_enabled : BOOLEAN]]
    BY <1>0, <1>a, <2>1, <2>2 DEF TypeOK
  <2>4. TypeOK'
    BY <1>0, <2>1, <2>2, <2>3 DEF TypeOK
  <2>5. MaskInv'
    BY <1>0, <1>a, <2>2, <2>3 DEF MaskInv, Critical
  <2>6. StackInv'
    BY <1>0, <1>a, <2>2 DEF StackInv, Occupied, ExitLocations
  <2>7. PidInv'
    BY <1>0, <1>a, <2>1, <2>2, <2>3 DEF PidInv, Occupied, Pledged, Limbo
  <2>8. TableInv'
    BY <1>0, <1>a, <2>1, <2>2, <2>3 DEF TableInv, Occupied, Pledged, Space
  <2> QED BY <2>4, <2>5, <2>6, <2>7, <2>8 DEF IInv
<1> QED BY <1>1, <1>2

(* Only a task, never the boot flow, exits. *)
LEMMA TaskExitsKeeps == ASSUME IInv, TaskExits PROVE IInv'
<1> USE Numbering DEF TaskExits, At, timerVars, queueVars, poolVars, runVars, memoryVars
<1>0. TypeOK /\ MaskInv /\ StackInv /\ PidInv /\ TableInv
  BY DEF IInv
<1>1. /\ cpu \in Slots /\ pc'[cpu] = "exit_remove"
      /\ \A s \in Stacks \ {cpu} : pc'[s] = pc[s]
      /\ pc' \in [Stacks -> {"boot", "init", "run"} \cup SpawnLocations \cup ExitLocations]
  BY <1>0, GotoMoves DEF StackInv, ExitLocations
<1>2. TypeOK'
  BY <1>0, <1>1 DEF TypeOK
<1>3. MaskInv'
  BY <1>0, <1>1 DEF MaskInv, Critical
<1>4. StackInv'
  BY <1>0, <1>1 DEF StackInv, Occupied, ExitLocations
<1>5. PidInv'
  BY <1>0, <1>1 DEF PidInv, Occupied, Pledged, Limbo
<1>6. TableInv'
  BY <1>0, <1>1 DEF TableInv, Occupied, Pledged, Space
<1> QED BY <1>2, <1>3, <1>4, <1>5, <1>6 DEF IInv

(* The pid queued is not queued already, so the orderings stay exact. *)
LEMMA SpawnEnqueuesTaskKeeps == ASSUME IInv, SpawnEnqueuesTask PROVE IInv'
<1> USE Numbering DEF SpawnEnqueuesTask, At, timerVars, poolVars, runVars, memoryVars
<1> DEFINE new == local[cpu].pid
<1>0. TypeOK /\ MaskInv /\ StackInv /\ PidInv /\ TableInv
  BY DEF IInv
<1>1. /\ cpu \in Stacks /\ pc'[cpu] = "leave"
      /\ \A s \in Stacks \ {cpu} : pc'[s] = pc[s]
      /\ pc' \in [Stacks -> {"boot", "init", "run"} \cup SpawnLocations \cup ExitLocations]
  BY <1>0, GotoMoves DEF StackInv, SpawnLocations
<1>2. scheduler_up /\ new \in Pids /\ new \notin Queued(rq) /\ new \in Nat
  <2>1. scheduler_up
    BY <1>0 DEF StackInv, PidInv
  <2>2. new \in Pids
    BY <1>0, <1>1 DEF TypeOK
  <2> QED BY <1>0, <2>1, <2>2, BridgeAssumption DEF PidInv, Limbo, Pids
<1>3. IsRunQueue(rq') /\ OrderingsMirror(rq') /\ Queued(rq') = Queued(rq) \cup {new}
  <2>1. SpawnedProcess \in Process
    BY DEF SpawnedProcess, Process, PriorityClass
  <2> QED BY <1>0, <1>2, <2>1, AddProcessType, AddProcessMirrors DEF TypeOK, PidInv
<1>4. TypeOK'
  BY <1>0, <1>1, <1>3 DEF TypeOK
<1>5. MaskInv'
  BY <1>0, <1>1 DEF MaskInv, Critical
<1>6. StackInv'
  BY <1>0, <1>1 DEF StackInv, Occupied, ExitLocations
<1>7. PidInv'
  <2>1. Limbo = {new} /\ Limbo' = {}
    BY <1>1 DEF Limbo
  <2>2. \E i \in Slots : TASK_SLOTS[i].pid = new
    BY <1>0, <1>1 DEF TypeOK, PidInv
  <2>3. \A pid \in Pids : pid \in Queued(rq)' <=> pid \notin Limbo' /\ \E i \in Slots : TASK_SLOTS'[i].pid = pid
    BY <1>0, <1>3, <2>1, <2>2 DEF PidInv
  <2> QED BY <1>0, <1>1, <1>2, <1>3, <2>3 DEF PidInv, Occupied, Pledged
<1>8. TableInv'
  BY <1>0, <1>1 DEF TableInv, Occupied, Pledged, Space
<1> QED BY <1>4, <1>5, <1>6, <1>7, <1>8 DEF IInv

(* The exiting task leaves the queue before it leaves the pool. *)
LEMMA ExitLeavesQueueKeeps == ASSUME IInv, ExitLeavesQueue PROVE IInv'
<1> USE Numbering DEF ExitLeavesQueue, At, timerVars, poolVars, runVars, memoryVars
<1>0. TypeOK /\ MaskInv /\ StackInv /\ PidInv /\ TableInv
  BY DEF IInv
<1>1. /\ cpu \in Slots /\ pc'[cpu] = "exit_free"
      /\ \A s \in Stacks \ {cpu} : pc'[s] = pc[s]
      /\ pc' \in [Stacks -> {"boot", "init", "run"} \cup SpawnLocations \cup ExitLocations]
  BY <1>0, GotoMoves DEF StackInv, ExitLocations
<1>2. scheduler_up /\ CURRENT \in Pids
  BY <1>0, <1>1 DEF StackInv, PidInv, TypeOK
<1>3. IsRunQueue(rq') /\ OrderingsMirror(rq') /\ Queued(rq') = Queued(rq) \ {CURRENT}
  BY <1>0, <1>2, RemoveProcessType, RemoveProcessMirrors DEF TypeOK, PidInv
<1>4. TypeOK'
  BY <1>0, <1>1, <1>3 DEF TypeOK
<1>5. MaskInv'
  BY <1>0, <1>1 DEF MaskInv, Critical, ExitLocations
<1>6. StackInv'
  BY <1>0, <1>1 DEF StackInv, Occupied, ExitLocations
<1>7. PidInv'
  <2>1. Limbo = {} /\ Limbo' = {CURRENT}
    BY <1>1 DEF Limbo
  <2>2. \A pid \in Pids : pid \in Queued(rq)' <=> pid \notin Limbo' /\ \E i \in Slots : TASK_SLOTS'[i].pid = pid
    BY <1>0, <1>3, <2>1 DEF PidInv
  <2> QED BY <1>0, <1>1, <1>2, <1>3, <2>2 DEF PidInv, Occupied, Pledged
<1>8. TableInv'
  BY <1>0, <1>1 DEF TableInv, Occupied, Pledged, Space
<1> QED BY <1>4, <1>5, <1>6, <1>7, <1>8 DEF IInv

(* Drawing a pid, whoever does it: the pid is one no slot, no queue entry  *)
(* and no other spawn has.                                                 *)
LEMMA DrawPidKeeps ==
  ASSUME IInv, NEW space \in {None, TaskL4}, DrawPid(space),
         IF cpu = BootStack THEN pc[cpu] = "init" ELSE pc[cpu] = "run",
         cpu = BootStack \/ UNCHANGED init_stage, init_stage' \in 0 .. InitialTasks + 1,
         spaces' \subseteq {TaskL4},
         stack_region \subseteq stack_region', stack_region' \subseteq {BootL4, TaskL4},
         space = None \/ space \in stack_region'
  PROVE  IInv'
<1> USE Numbering DEF DrawPid, timerVars, queueVars, poolVars, runVars
<1>0. TypeOK /\ MaskInv /\ StackInv /\ PidInv /\ TableInv
  BY DEF IInv
<1>1. /\ cpu \in Stacks /\ pc'[cpu] = "spawn"
      /\ \A s \in Stacks \ {cpu} : pc'[s] = pc[s] /\ local'[s] = local[s]
      /\ pc' \in [Stacks -> {"boot", "init", "run"} \cup SpawnLocations \cup ExitLocations]
  BY <1>0, GotoMoves DEF StackInv, TypeOK, SpawnLocations
<1>2. /\ NEXT_PID \in Pids /\ NEXT_PID' \in 0 .. BOOT_PID /\ NEXT_PID' = NEXT_PID + 1
      /\ \A pid \in Pids \cup {None} : pid \in Int
      /\ NEXT_PID \in Int
  <2>1. NEXT_PID < BOOT_PID /\ NEXT_PID' = NEXT_PID + 1
    OBVIOUS
  <2>2. NEXT_PID \in 0 .. BOOT_PID
    BY <1>0 DEF TypeOK
  <2> HIDE DEF DrawPid
  <2> QED BY <2>1, <2>2, BridgeAssumption DEF Pids, None
<1>3. /\ local'[cpu].pid = NEXT_PID /\ local'[cpu].space = space
      /\ local'[cpu].slot = local[cpu].slot /\ local'[cpu].were_enabled = local[cpu].were_enabled
      /\ local' \in [Stacks -> [pid : Pids, slot : Slots, space : {None, TaskL4}, were_enabled : BOOLEAN]]
  <2>1. /\ local \in [Stacks -> [pid : Pids, slot : Slots, space : {None, TaskL4}, were_enabled : BOOLEAN]]
        /\ local' = [local EXCEPT ![cpu].pid = NEXT_PID, ![cpu].space = space]
    BY <1>0 DEF TypeOK
  <2> HIDE DEF DrawPid
  <2> QED BY <1>1, <1>2, <2>1
<1>4. /\ bound' \in [Pids -> {None, TaskL4}] /\ bound'[NEXT_PID] = space
      /\ \A pid \in Pids \ {NEXT_PID} : bound'[pid] = bound[pid]
  BY <1>0, <1>2 DEF TypeOK
<1>5. TypeOK'
  BY <1>0, <1>1, <1>2, <1>3, <1>4 DEF TypeOK
<1>6. MaskInv'
  BY <1>0, <1>1, <1>3 DEF MaskInv, Critical, ExitLocations
<1>7. StackInv'
  BY <1>0, <1>1 DEF StackInv, Occupied, ExitLocations
(* Every pid in use is older. *)
<1>8. /\ \A i \in Slots : TASK_SLOTS[i].pid \in Pids \cup {None} /\ TASK_SLOTS[i].pid < NEXT_PID
      /\ \A s \in Stacks \ {cpu} : Pledged(s) => local[s].pid \in Pids /\ local[s].pid < NEXT_PID
      /\ \A s \in Stacks \ {cpu} : Pledged(s)' <=> Pledged(s)
  BY <1>0, <1>1 DEF TypeOK, PidInv, Pledged
<1>9. PidInv'
  <2>1. Limbo = {} /\ Limbo' = {}
    BY <1>1 DEF Limbo
  <2>2. /\ \A i \in Slots : TASK_SLOTS[i].pid < NEXT_PID'
        /\ \A s \in Stacks \ {cpu} : Pledged(s) => local[s].pid < NEXT_PID' /\ local[s].pid # NEXT_PID
        /\ \A i \in Slots : TASK_SLOTS[i].pid # NEXT_PID
    BY <1>2, <1>8
  <2>3. /\ NEXT_PID < NEXT_PID'
        /\ scheduler_up' <=> pc'[BootStack] # "boot"
    BY <1>0, <1>1, <1>2 DEF PidInv
  <2>4. \A s \in Stacks : Pledged(s)' =>
          local'[s].pid < NEXT_PID' /\ \A i \in Slots : TASK_SLOTS'[i].pid # local'[s].pid
    BY <1>0, <1>1, <1>3, <1>8, <2>2, <2>3 DEF PidInv
  <2>5. \A s, t \in Stacks : Pledged(s)' /\ Pledged(t)' /\ local'[s].pid = local'[t].pid => s = t
    BY <1>0, <1>1, <1>3, <1>8, <2>2 DEF PidInv
  <2>6. \A pid \in Pids : pid \in Queued(rq)' <=> pid \notin Limbo' /\ \E i \in Slots : TASK_SLOTS'[i].pid = pid
    BY <1>0, <2>1 DEF PidInv
  <2>7. /\ OrderingsMirror(rq)' /\ Queued(rq)' \subseteq Pids
        /\ \A i, j \in Slots : Occupied(i)' /\ TASK_SLOTS'[i].pid = TASK_SLOTS'[j].pid => i = j
        /\ ~scheduler_up' => \A i \in Slots : ~Occupied(i)'
    BY <1>0 DEF PidInv, Occupied
  <2>8. \A i \in Slots : TASK_SLOTS'[i].pid < NEXT_PID'
    BY <2>2
  <2>9. pc'[cpu'] = "spawn"
    BY <1>1
  <2> HIDE DEF DrawPid, queueVars, poolVars, runVars
  <2> QED BY <2>3, <2>4, <2>5, <2>6, <2>7, <2>8, <2>9 DEF PidInv
<1>10. TableInv'
  <2>1. \A i \in Slots : Occupied(i) => TASK_SLOTS[i].pid \in Pids \ {NEXT_PID}
    BY <1>2, <1>8 DEF Occupied
  <2>2. \A s \in Stacks \ {cpu} : Pledged(s) => local[s].pid \in Pids \ {NEXT_PID}
    BY <1>2, <1>8
  <2>3. Space(CURRENT)' = Space(CURRENT)
    <3>1. CURRENT = BOOT_PID \/ CURRENT \in Pids \ {NEXT_PID}
      BY <1>0, <1>2, <1>8 DEF StackInv, TypeOK
    <3> QED BY <1>4, <3>1 DEF Space
  <2>4. \A i \in Slots : Occupied(i)' =>
          i \in MAPPED' /\ TASK_SLOTS'[i].address_space = bound'[TASK_SLOTS'[i].pid]
    BY <1>0, <1>4, <2>1 DEF TableInv, Occupied
  <2>5. \A s \in Stacks : Pledged(s)' => local'[s].space = bound'[local'[s].pid]
    BY <1>0, <1>1, <1>3, <1>4, <1>8, <2>2 DEF TableInv
  <2>6. \A pid \in Pids : bound'[pid] # None => bound'[pid] \in stack_region'
    BY <1>0, <1>4 DEF TableInv
  <2> QED BY <1>0, <1>1, <2>3, <2>4, <2>5, <2>6 DEF TableInv
<1> QED BY <1>5, <1>6, <1>7, <1>9, <1>10 DEF IInv

(* A task draws a pid; only tables with the stack region are offered. *)
LEMMA TaskSpawnsKeeps == ASSUME IInv, TaskSpawns PROVE IInv'
<1>1. PICK space \in {None} \cup (stack_region \ {BootL4}) : DrawPid(space)
  BY DEF TaskSpawns
<1>2. stack_region \subseteq {BootL4, TaskL4} /\ spaces \subseteq {TaskL4} /\ init_stage \in 0 .. InitialTasks + 1
  BY DEF IInv, TypeOK
<1> QED BY <1>1, <1>2, DrawPidKeeps DEF TaskSpawns, At

(* init draws a pid for an unbound task. *)
LEMMA InitSpawnsTaskKeeps == ASSUME IInv, InitSpawnsTask PROVE IInv'
<1>1. cpu = BootStack /\ pc[cpu] = "init"
  BY Numbering DEF IInv, StackInv, InitSpawnsTask, At
<1>2. stack_region \subseteq {BootL4, TaskL4} /\ spaces \subseteq {TaskL4} /\ init_stage' \in 0 .. InitialTasks + 1
  BY BridgeAssumption DEF IInv, TypeOK, InitSpawnsTask
<1> QED BY <1>1, <1>2, DrawPidKeeps DEF InitSpawnsTask

(* The table AddressSpace::new copies holds the stack region by then: the  *)
(* tasks spawned before have had their stacks mapped in it.                *)
LEMMA InitSpawnsBoundTaskKeeps == ASSUME IInv, InitSpawnsBoundTask PROVE IInv'
<1>1. cpu = BootStack /\ pc[cpu] = "init" /\ init_stage = InitialTasks
  BY Numbering DEF IInv, StackInv, InitSpawnsBoundTask, At
<1>2. cr3 = BootL4 /\ cr3 \in stack_region
  <2>1. CURRENT = BOOT_PID /\ MAPPED # {}
    BY <1>1, BridgeAssumption DEF IInv, StackInv, TableInv
  <2> QED BY <1>1, <2>1 DEF IInv, TableInv, Space
<1>3. stack_region' = stack_region \cup {TaskL4} /\ spaces' = spaces \cup {TaskL4}
  BY <1>2 DEF InitSpawnsBoundTask
<1>4. stack_region \subseteq {BootL4, TaskL4} /\ spaces \subseteq {TaskL4} /\ init_stage' \in 0 .. InitialTasks + 1
  BY <1>1, BridgeAssumption DEF IInv, TypeOK, InitSpawnsBoundTask
<1> QED BY <1>1, <1>3, <1>4, DrawPidKeeps DEF InitSpawnsBoundTask

(* The task is written to a slot nobody occupies and the core is not on. *)
LEMMA SpawnInstallsTaskKeeps == ASSUME IInv, SpawnInstallsTask PROVE IInv'
<1> USE Numbering DEF At, timerVars, queueVars, runVars, memoryVars
<1> DEFINE slot == local[cpu].slot
           new  == local[cpu].pid
<1>0. TypeOK /\ MaskInv /\ StackInv /\ PidInv /\ TableInv
  BY DEF IInv
<1>1. /\ cpu \in Stacks /\ pc[cpu] = "install" /\ slot \in Slots /\ slot # cpu
      /\ ~Occupied(slot) /\ frame[slot] = "none"
      /\ new \in Pids /\ local[cpu].space \in {None, TaskL4} /\ ~isr /\ scheduler_up
  <2>1. cpu \in Stacks /\ pc[cpu] = "install" /\ ~isr
    BY <1>0 DEF StackInv, SpawnInstallsTask
  <2>2. slot \in Slots /\ new \in Pids /\ local[cpu].space \in {None, TaskL4}
    BY <1>0, <2>1 DEF TypeOK
  <2>3. ~Occupied(slot)
    BY <1>0, <2>1 DEF PidInv
  <2>4. slot # cpu
    BY <1>0, <2>1, <2>2, <2>3 DEF StackInv, Occupied, TypeOK
  <2> QED BY <1>0, <2>1, <2>2, <2>3, <2>4 DEF StackInv, PidInv
<1>2. /\ frame' \in [Stacks -> {"none", "fresh", "isr"}] /\ frame'[slot] = "fresh"
      /\ \A s \in Stacks \ {slot} : frame'[s] = frame[s]
  BY <1>0, <1>1 DEF TypeOK, SpawnInstallsTask
<1>3. /\ pc' \in [Stacks -> {"boot", "init", "run"} \cup SpawnLocations \cup ExitLocations]
      /\ pc'[cpu] = "enqueue" /\ pc'[slot] = "run" /\ \A s \in Stacks \ {cpu, slot} : pc'[s] = pc[s]
  BY <1>0, <1>1 DEF TypeOK, SpawnInstallsTask, SpawnLocations
<1>4. /\ TASK_SLOTS' \in [Slots -> [pid : Pids \cup {None}, rsp : Stacks \cup {None},
                                    address_space : {None, TaskL4}]]
      /\ TASK_SLOTS'[slot] = [pid |-> new, rsp |-> slot, address_space |-> local[cpu].space]
      /\ \A i \in Slots \ {slot} : TASK_SLOTS'[i] = TASK_SLOTS[i]
  BY <1>0, <1>1 DEF TypeOK, SpawnInstallsTask
<1>5. UNCHANGED <<IFlag, BOOT_CONTEXT, NEXT_PID, bound, local, init_stage, timerVars, queueVars, runVars, memoryVars>>
  BY DEF SpawnInstallsTask
<1>6. TypeOK'
  BY <1>0, <1>2, <1>3, <1>4, <1>5 DEF TypeOK
<1>7. MaskInv'
  BY <1>0, <1>1, <1>3, <1>5 DEF MaskInv, Critical
<1>8. StackInv'
  BY <1>0, <1>1, <1>2, <1>3, <1>4, <1>5 DEF StackInv, Occupied, ExitLocations
<1>9. PidInv'
  <2>1. Limbo = {} /\ Limbo' = {new}
    BY <1>1, <1>3, <1>5 DEF Limbo
  <2>2. new \notin Queued(rq) /\ new < NEXT_PID /\ \A i \in Slots : TASK_SLOTS[i].pid # new
    BY <1>0, <1>1 DEF PidInv, Pledged
  <2>3. TASK_SLOTS[slot].pid = None
    BY <1>1 DEF Occupied
  <2>4. \A pid \in Pids : pid \in Queued(rq)' <=> pid \notin Limbo' /\ \E i \in Slots : TASK_SLOTS'[i].pid = pid
    BY <1>0, <1>1, <1>4, <1>5, <2>1, <2>2, <2>3 DEF PidInv
  <2>5. \A s \in Stacks : Pledged(s)' => Pledged(s) /\ s # cpu
    BY <1>1, <1>3 DEF Pledged
  <2>6. \A s \in Stacks : Pledged(s)' => local'[s].pid # new
    BY <1>0, <1>1, <1>5, <2>5 DEF PidInv, Pledged
  <2>7. \A s \in Stacks : Pledged(s)' =>
          local'[s].pid < NEXT_PID' /\ \A i \in Slots : TASK_SLOTS'[i].pid # local'[s].pid
    BY <1>0, <1>1, <1>4, <1>5, <2>5, <2>6 DEF PidInv
  <2>8. \A s, t \in Stacks : Pledged(s)' /\ Pledged(t)' /\ local'[s].pid = local'[t].pid => s = t
    BY <1>0, <1>5, <2>5 DEF PidInv
  <2>9. \A i, j \in Slots : Occupied(i)' /\ TASK_SLOTS'[i].pid = TASK_SLOTS'[j].pid => i = j
    BY <1>0, <1>1, <1>4, <2>2 DEF PidInv, Occupied
  <2>10. /\ \A i \in Slots : TASK_SLOTS'[i].pid < NEXT_PID'
         /\ scheduler_up' <=> pc'[BootStack] # "boot"
         /\ TASK_SLOTS'[local'[cpu'].slot].pid = local'[cpu'].pid
         /\ pc'[cpu'] = "enqueue" /\ scheduler_up'
         /\ OrderingsMirror(rq)' /\ Queued(rq)' \subseteq Pids
    BY <1>0, <1>1, <1>3, <1>4, <1>5, <2>2 DEF PidInv
  <2> QED BY <2>4, <2>7, <2>8, <2>9, <2>10 DEF PidInv
<1>10. TableInv'
  <2>1. \A s \in Stacks : Pledged(s)' => Pledged(s)
    BY <1>1, <1>3 DEF Pledged
  <2>2. local[cpu].space = bound[new] /\ slot \in MAPPED
    BY <1>0, <1>1 DEF TableInv, Pledged
  <2> QED BY <1>0, <1>1, <1>3, <1>4, <1>5, <2>1, <2>2 DEF TableInv, Occupied, Space
<1> QED BY <1>6, <1>7, <1>8, <1>9, <1>10 DEF IInv

(* CURRENT's slot is the one the core is on, and that one is freed. *)
LEMMA ExitFreesSlotKeeps == ASSUME IInv, ExitFreesSlot PROVE IInv'
<1> USE Numbering DEF At, timerVars, queueVars, runVars, memoryVars
<1>0. TypeOK /\ MaskInv /\ StackInv /\ PidInv /\ TableInv
  BY DEF IInv
<1>1. /\ cpu \in Slots /\ pc[cpu] = "exit_free" /\ ~isr
      /\ CURRENT \in Pids /\ TASK_SLOTS[cpu].pid = CURRENT /\ SlotOf(CURRENT) = cpu
  <2>1. cpu \in Slots /\ pc[cpu] = "exit_free" /\ ~isr
    BY <1>0 DEF StackInv, ExitFreesSlot, ExitLocations
  <2>2. CURRENT \in Pids /\ TASK_SLOTS[cpu].pid = CURRENT
    BY <1>0, <2>1 DEF StackInv, TypeOK
  <2>3. SlotOf(CURRENT) \in Slots /\ TASK_SLOTS[SlotOf(CURRENT)].pid = CURRENT
    BY <2>1, <2>2, SlotOfIs
  <2> QED BY <1>0, <2>1, <2>2, <2>3 DEF PidInv, Occupied
<1>2. /\ pc'[cpu] = "exit_switch" /\ \A s \in Stacks \ {cpu} : pc'[s] = pc[s]
      /\ pc' \in [Stacks -> {"boot", "init", "run"} \cup SpawnLocations \cup ExitLocations]
  BY <1>0, <1>1, GotoMoves DEF ExitFreesSlot, ExitLocations
<1>3. /\ TASK_SLOTS' \in [Slots -> [pid : Pids \cup {None}, rsp : Stacks \cup {None},
                                    address_space : {None, TaskL4}]]
      /\ TASK_SLOTS'[cpu].pid = None
      /\ \A i \in Slots \ {cpu} : TASK_SLOTS'[i] = TASK_SLOTS[i]
  BY <1>0, <1>1 DEF TypeOK, ExitFreesSlot
<1>4. UNCHANGED <<IFlag, BOOT_CONTEXT, NEXT_PID, bound, frame, local, init_stage, timerVars, queueVars, runVars, memoryVars>>
  BY DEF ExitFreesSlot
<1>5. TypeOK'
  BY <1>0, <1>2, <1>3, <1>4 DEF TypeOK
<1>6. MaskInv'
  BY <1>0, <1>1, <1>2, <1>4 DEF MaskInv, Critical, ExitLocations
<1>7. StackInv'
  BY <1>0, <1>1, <1>2, <1>3, <1>4 DEF StackInv, Occupied, ExitLocations
<1>8. PidInv'
  <2>1. Limbo = {CURRENT} /\ Limbo' = {}
    BY <1>1, <1>2, <1>4 DEF Limbo
  <2>2. \A pid \in Pids : pid \in Queued(rq)' <=> pid \notin Limbo' /\ \E i \in Slots : TASK_SLOTS'[i].pid = pid
    BY <1>0, <1>1, <1>3, <1>4, <2>1 DEF PidInv, Occupied
  <2>3. \A s \in Stacks : Pledged(s)' <=> Pledged(s)
    BY <1>1, <1>2 DEF Pledged
  <2>4. \A s \in Stacks : Pledged(s)' =>
          local'[s].pid < NEXT_PID' /\ \A i \in Slots : TASK_SLOTS'[i].pid # local'[s].pid
    <3>1. \A t \in Stacks : local[t].pid # None
      BY <1>0 DEF TypeOK
    <3>2. \A i \in Slots : TASK_SLOTS'[i].pid \in {None, TASK_SLOTS[i].pid}
      BY <1>3
    <3> QED BY <1>0, <1>4, <2>3, <3>1, <3>2 DEF PidInv
  <2>5. \A s, t \in Stacks : Pledged(s)' /\ Pledged(t)' /\ local'[s].pid = local'[t].pid => s = t
    BY <1>0, <1>4, <2>3 DEF PidInv
  <2>6. \A i, j \in Slots : Occupied(i)' /\ TASK_SLOTS'[i].pid = TASK_SLOTS'[j].pid => i = j
    BY <1>0, <1>1, <1>3 DEF PidInv, Occupied
  <2>7. \A i \in Slots : TASK_SLOTS'[i].pid < NEXT_PID'
    BY <1>0, <1>3, <1>4, BridgeAssumption DEF PidInv, TypeOK, None
  <2>8. /\ scheduler_up' <=> pc'[BootStack] # "boot"
        /\ ~scheduler_up' => \A i \in Slots : ~Occupied(i)'
        /\ pc'[cpu'] = "exit_switch" /\ \A i \in Slots : TASK_SLOTS'[i].pid # CURRENT'
        /\ OrderingsMirror(rq)' /\ Queued(rq)' \subseteq Pids
    BY <1>0, <1>1, <1>2, <1>3, <1>4 DEF PidInv, Occupied
  <2> QED BY <2>2, <2>4, <2>5, <2>6, <2>7, <2>8 DEF PidInv
<1>9. TableInv'
  <2>1. \A s \in Stacks : Pledged(s)' <=> Pledged(s)
    BY <1>1, <1>2 DEF Pledged
  <2> QED BY <1>0, <1>1, <1>2, <1>3, <1>4, <2>1 DEF TableInv, Occupied, Space
<1> QED BY <1>5, <1>6, <1>7, <1>8, <1>9 DEF IInv

(* The core changes hands, in a tick (its frame saved where it will be     *)
(* looked for) or at the end of an exit (its stack abandoned).             *)
LEMMA SwitchKeeps ==
  ASSUME IInv, scheduler_up, NEW next \in Queued(rq) \cup {BOOT_PID}, NEW save,
         \/ save = cpu /\ ~Critical(cpu) /\ next # CURRENT
         \/ save = None /\ pc[cpu] = "exit_switch",
         CURRENT' = next, SwitchAddressSpaceTo(next), SwitchTo(save, ContextRsp(next)),
         isr' = FALSE, in_service' \in BOOLEAN, TICKS' \in 0 .. SWITCH_TICK_BUDGET + 1,
         IsRunQueue(rq'), OrderingsMirror(rq'), Queued(rq') = Queued(rq),
         UNCHANGED <<scheduler_up, NEXT_PID, bound, memoryVars, codeVars>>
  PROVE  IInv'
<1> USE Numbering
<1> DEFINE s == IF next = BOOT_PID THEN BootStack ELSE SlotOf(next)
<1>0. TypeOK /\ MaskInv /\ StackInv /\ PidInv /\ TableInv
  BY DEF IInv
<1>1. /\ s \in Stacks /\ s # cpu
      /\ next # BOOT_PID => next \in Pids /\ s \in Slots /\ TASK_SLOTS[s].pid = next
      /\ next = BOOT_PID => s = BootStack
      /\ ContextRsp(next) = s
      /\ frame[s] # "none"
      /\ DesiredL4Frame(next) = Space(next)
      /\ pc[s] \in {"run", "spawn"}
      /\ s = BootStack => pc[s] = "run"
  BY SwitchTarget
<1> HIDE DEF s
<1>2. /\ cpu \in Stacks /\ (save = None => cpu \in Slots)
      /\ pc[cpu] = "exit_switch" \/ pc[cpu] \in {"run", "spawn"}
      /\ cpu = BootStack => pc[cpu] = "run"
      /\ save \in {cpu, None} /\ (save = None <=> pc[cpu] = "exit_switch")
      /\ cpu \in Slots => TASK_SLOTS[cpu].pid = IF save = None THEN None ELSE CURRENT
  <2>1. cpu \in Stacks /\ pc[cpu] \in {"boot", "init", "run"} \cup SpawnLocations \cup ExitLocations
    BY <1>0 DEF StackInv, TypeOK
  <2>2. save = cpu => pc[cpu] \in {"boot", "run", "spawn"} /\ (cpu = BootStack => pc[cpu] # "spawn")
    BY <2>1 DEF Critical, SpawnLocations, ExitLocations
  <2>3. pc[cpu] # "boot"
    BY <1>0, <2>1 DEF StackInv, PidInv
  <2>4. pc[cpu] = "exit_switch" => cpu \in Slots
    BY <1>0, <2>1 DEF StackInv, ExitLocations
  <2> QED BY <1>0, <2>1, <2>2, <2>3, <2>4 DEF StackInv
<1>3. /\ cpu' = s /\ IFlag' \in BOOLEAN
      /\ frame' \in [Stacks -> {"none", "fresh", "isr"}]
      /\ frame'[cpu] = IF save = None THEN "none" ELSE "isr"
      /\ frame'[s] = "none" /\ \A t \in Stacks \ {cpu, s} : frame'[t] = frame[t]
  <2>1. ContextRsp(next) # None /\ frame[ContextRsp(next)] # "none"
    BY <1>1
  <2>2. /\ cpu' = s /\ IFlag' \in BOOLEAN
        /\ frame' = [frame EXCEPT ![cpu] = IF save = None THEN "none" ELSE "isr", ![s] = "none"]
    BY <1>1, <2>1 DEF SwitchTo
  <2> QED BY <1>0, <1>1, <1>2, <2>2 DEF TypeOK
<1>4. /\ TASK_SLOTS' \in [Slots -> [pid : Pids \cup {None}, rsp : Stacks \cup {None},
                                    address_space : {None, TaskL4}]]
      /\ \A i \in Slots : /\ TASK_SLOTS'[i].pid = TASK_SLOTS[i].pid
                          /\ TASK_SLOTS'[i].address_space = TASK_SLOTS[i].address_space
                          /\ TASK_SLOTS'[i].rsp = IF i = save THEN cpu ELSE TASK_SLOTS[i].rsp
      /\ BOOT_CONTEXT' = IF save = BootStack THEN BootStack ELSE BOOT_CONTEXT
  <2>1. TASK_SLOTS' = IF save \in Slots THEN [TASK_SLOTS EXCEPT ![save].rsp = cpu] ELSE TASK_SLOTS
    BY DEF SwitchTo
  <2>2. BOOT_CONTEXT' = IF save = BootStack THEN BootStack ELSE BOOT_CONTEXT
    BY <1>2 DEF SwitchTo
  <2> QED BY <1>0, <1>2, <2>1, <2>2 DEF TypeOK
<1>5. cr3' = Space(next) /\ cr3' \in {BootL4, TaskL4}
  <2>1. Space(next) \in {BootL4, TaskL4}
    BY <1>0, <1>1 DEF TypeOK, Space
  <2> QED BY <1>1, <2>1 DEF SwitchAddressSpaceTo
<1>6. UNCHANGED <<scheduler_up, NEXT_PID, bound, MAPPED, spaces, stack_region, DEFAULT_L4_FRAME,
                  pc, local, init_stage>>
  BY DEF memoryVars, codeVars
<1>7. TypeOK'
  BY <1>0, <1>1, <1>3, <1>4, <1>5, <1>6 DEF TypeOK
<1>8. MaskInv'
  BY <1>1, <1>3, <1>6 DEF MaskInv, Critical, ExitLocations
<1>9. StackInv'
  <2>1. /\ cpu' \in Stacks /\ frame'[cpu'] = "none"
        /\ CURRENT' = BOOT_PID <=> cpu' = BootStack
        /\ cpu' \in Slots => TASK_SLOTS'[cpu'].pid = CURRENT' /\ pc'[cpu'] # "exit_switch"
    BY <1>1, <1>3, <1>4, <1>6
  <2>2. ASSUME NEW i \in Slots \ {s}
        PROVE  IF Occupied(i)' THEN TASK_SLOTS'[i].rsp = i /\ frame'[i] # "none" /\ pc'[i] \in {"run", "spawn"}
                               ELSE frame'[i] = "none" /\ pc'[i] \in {"run", "exit_switch"}
    <3>1. CASE i = cpu
      <4>1. CURRENT # None
        BY <1>0, BridgeAssumption DEF TypeOK, None
      <4> QED BY <1>2, <1>3, <1>4, <1>6, <3>1, <4>1 DEF Occupied
    <3>2. CASE i # cpu
      BY <1>0, <1>2, <1>3, <1>4, <1>6, <3>2 DEF StackInv, Occupied
    <3> QED BY <3>1, <3>2
  <2>3. s # BootStack => BOOT_CONTEXT' = BootStack /\ frame'[BootStack] = "isr" /\ pc'[BootStack] = "run"
    <3>1. CASE cpu = BootStack
      BY <1>2, <1>3, <1>4, <1>6, <3>1
    <3>2. CASE cpu # BootStack
      BY <1>0, <1>2, <1>3, <1>4, <1>6, <3>2 DEF StackInv
    <3> QED BY <3>1, <3>2
  <2> QED BY <1>0, <1>3, <1>6, <2>1, <2>2, <2>3 DEF StackInv
<1>10. PidInv'
  <2>1. Limbo = {} /\ Limbo' = {}
    BY <1>1, <1>2, <1>3, <1>6 DEF Limbo
  <2>2. \A pid \in Pids : pid \in Queued(rq)' <=> pid \notin Limbo' /\ \E i \in Slots : TASK_SLOTS'[i].pid = pid
    BY <1>0, <1>4, <2>1 DEF PidInv
  <2>3. pc'[cpu'] \in {"run", "spawn"}
    BY <1>1, <1>3, <1>6
  <2>4. \A t \in Stacks : Pledged(t)' =>
          local'[t].pid < NEXT_PID' /\ \A i \in Slots : TASK_SLOTS'[i].pid # local'[t].pid
    BY <1>0, <1>4, <1>6 DEF PidInv, Pledged
  <2>5. \A t, u \in Stacks : Pledged(t)' /\ Pledged(u)' /\ local'[t].pid = local'[u].pid => t = u
    BY <1>0, <1>6 DEF PidInv, Pledged
  <2>6. /\ \A i, j \in Slots : Occupied(i)' /\ TASK_SLOTS'[i].pid = TASK_SLOTS'[j].pid => i = j
        /\ \A i \in Slots : TASK_SLOTS'[i].pid < NEXT_PID'
        /\ ~scheduler_up' => \A i \in Slots : ~Occupied(i)'
    BY <1>0, <1>4, <1>6 DEF PidInv, Occupied
  <2>7. /\ OrderingsMirror(rq)' /\ Queued(rq)' \subseteq Pids
        /\ scheduler_up' <=> pc'[BootStack] # "boot"
    BY <1>0, <1>6 DEF PidInv
  <2> QED BY <2>2, <2>3, <2>4, <2>5, <2>6, <2>7 DEF PidInv
<1>11. TableInv'
  <2>1. Space(CURRENT)' = Space(next)
    BY <1>6 DEF Space
  <2>2. s \in Slots => s \in MAPPED /\ cr3' \in stack_region
    <3>1. SUFFICES ASSUME s \in Slots PROVE s \in MAPPED /\ cr3' \in stack_region
      OBVIOUS
    <3>2. next \in Pids /\ TASK_SLOTS[s].pid = next
      BY <1>1, <3>1
    <3>3. s \in MAPPED /\ BootL4 \in stack_region
      BY <1>0, <3>1, <3>2 DEF TableInv, Occupied
    <3> QED BY <1>0, <1>5, <3>2, <3>3 DEF TableInv, Space
  <2>3. pc'[cpu'] \in {"run", "spawn"}
    BY <1>1, <1>3, <1>6
  <2> QED BY <1>0, <1>3, <1>4, <1>5, <1>6, <2>1, <2>2, <2>3 DEF TableInv, Occupied, Pledged
<1> QED BY <1>7, <1>8, <1>9, <1>10, <1>11 DEF IInv

(* The pid a tick or an exit hands the core to. *)
LEMMA NextIsQueued ==
  ASSUME NEW queue, IsRunQueue(queue), OrderingsMirror(queue), NEW tick
  PROVE  NextToRun(queue, tick) \in Queued(queue) \cup {BOOT_PID}
BY PickIsQueued DEF NextToRun

(* The core leaves the abandoned stack for one with a frame. *)
LEMMA ExitSwitchesAwayKeeps == ASSUME IInv, ExitSwitchesAway PROVE IInv'
<1> DEFINE next == NextToRun(rq, TICKS)
<1>0. TypeOK /\ MaskInv /\ StackInv /\ PidInv /\ TableInv
  BY DEF IInv
<1>1. pc[cpu] = "exit_switch" /\ ~isr
  BY DEF ExitSwitchesAway, At
<1>2. scheduler_up /\ isr' = FALSE
  BY <1>0, <1>1, Numbering DEF StackInv, PidInv, ExitSwitchesAway, timerVars, ExitLocations, TypeOK
<1>3. next \in Queued(rq) \cup {BOOT_PID}
  BY <1>0, NextIsQueued DEF TypeOK, PidInv
<1>4. CURRENT' = next /\ SwitchAddressSpaceTo(next) /\ SwitchTo(None, ContextRsp(next))
  BY DEF ExitSwitchesAway
<1>5. /\ in_service' \in BOOLEAN /\ TICKS' \in 0 .. SWITCH_TICK_BUDGET + 1
      /\ IsRunQueue(rq') /\ OrderingsMirror(rq') /\ Queued(rq') = Queued(rq)
      /\ UNCHANGED <<scheduler_up, NEXT_PID, bound, memoryVars, codeVars>>
  BY <1>0 DEF TypeOK, PidInv, ExitSwitchesAway, timerVars, queueVars
<1> HIDE DEF next
<1> QED BY <1>1, <1>2, <1>3, <1>4, <1>5, SwitchKeeps

(* A tick returns where it came from or switches; context_ptr finds the    *)
(* context of the stack it is on.                                          *)
LEMMA TimerHandlerKeeps == ASSUME IInv, TimerHandler PROVE IInv'
<1> USE DEF memoryVars, codeVars
<1> DEFINE next == NextToRun(rq, TickCount)
<1>0. TypeOK /\ MaskInv /\ StackInv /\ PidInv /\ TableInv
  BY DEF IInv
<1>1. /\ isr /\ isr' = FALSE /\ in_service' = FALSE
      /\ TICKS' \in 0 .. SWITCH_TICK_BUDGET + 1
      /\ UNCHANGED <<scheduler_up, NEXT_PID, bound, memoryVars, codeVars>>
  <2>1. TickCount \in 0 .. SWITCH_TICK_BUDGET + 1
    BY <1>0, BridgeAssumption DEF TypeOK, TickCount
  <2> QED BY <2>1 DEF TimerHandler
<1>2. ~Critical(cpu)
  BY <1>0, <1>1 DEF MaskInv
<1>3. IsRunQueue(rq') /\ OrderingsMirror(rq') /\ Queued(rq') = Queued(rq)
  <2>1. rq' = rq \/ rq' = UpdateVruntime(rq, CURRENT, 1)
    BY DEF TimerHandler
  <2> QED BY <1>0, <2>1, UpdateVruntimeType, UpdateVruntimeMirrors DEF TypeOK, PidInv
(* iretq into the interrupted code, whose interrupts were enabled. *)
<1>4. CASE TickReturns
  <2> USE <1>4 DEF TickReturns, poolVars, runVars
  <2>1. TypeOK'
    BY <1>0, <1>1, <1>3 DEF TypeOK
  <2>2. MaskInv'
    BY <1>0, <1>1, <1>2 DEF MaskInv, Critical
  <2>3. StackInv'
    BY <1>0, <1>1 DEF StackInv, Occupied
  <2>4. PidInv'
    <3>1. Limbo' = Limbo
      BY <1>1 DEF Limbo
    <3>2. \A pid \in Pids : pid \in Queued(rq)' <=> pid \notin Limbo' /\ \E i \in Slots : TASK_SLOTS'[i].pid = pid
      BY <1>0, <1>3, <3>1 DEF PidInv
    <3> QED BY <1>0, <1>1, <1>3, <3>2 DEF PidInv, Occupied, Pledged
  <2>5. TableInv'
    BY <1>0, <1>1 DEF TableInv, Occupied, Pledged, Space
  <2> QED BY <2>1, <2>2, <2>3, <2>4, <2>5 DEF IInv
<1>5. CASE scheduler_up /\ next # CURRENT /\ TickSwitches(CURRENT, next)
  <2>1. next \in Queued(rq) \cup {BOOT_PID}
    BY <1>0, NextIsQueued DEF TypeOK, PidInv
  <2>2. ContextPtr(CURRENT) = cpu
    <3>1. CASE CURRENT = BOOT_PID
      BY <1>0, <3>1 DEF StackInv, ContextPtr
    <3>2. CASE CURRENT # BOOT_PID
      <4>1. CURRENT \in Pids /\ cpu \in Slots /\ TASK_SLOTS[cpu].pid = CURRENT
        BY <1>0, <1>2, <3>2, Numbering DEF StackInv, TypeOK, Critical, ExitLocations
      <4>2. SlotOf(CURRENT) \in Slots /\ TASK_SLOTS[SlotOf(CURRENT)].pid = CURRENT
        BY <4>1, SlotOfIs
      <4> QED BY <1>0, <3>2, <4>1, <4>2, Numbering DEF PidInv, Occupied, ContextPtr
    <3> QED BY <3>1, <3>2
  <2>3. CURRENT' = next /\ SwitchAddressSpaceTo(next) /\ SwitchTo(cpu, ContextRsp(next))
    BY <1>5, <2>2 DEF TickSwitches
  <2> HIDE DEF next, memoryVars, codeVars
  <2> QED BY <1>1, <1>2, <1>3, <1>5, <2>1, <2>3, SwitchKeeps
<1> QED BY <1>4, <1>5 DEF TimerHandler

(* Every step of the kernel preserves the invariant. *)
LEMMA IInvInductive == ASSUME IInv, [Next]_vars PROVE IInv'
<1>1. CASE UNCHANGED vars
  BY <1>1, StutterKeeps
<1>2. CASE TimerInterrupt
  BY <1>2, TimerInterruptKeeps
<1>3. CASE TaskSpawns \/ TaskExits
  BY <1>3, TaskSpawnsKeeps, TaskExitsKeeps
<1>4. CASE KernelStep
  BY <1>4, SpawnDisablesInterruptsKeeps, SpawnClaimsSlotKeeps, SpawnInstallsTaskKeeps,
     SpawnEnqueuesTaskKeeps, SpawnRestoresInterruptsKeeps, ExitLeavesQueueKeeps, ExitFreesSlotKeeps,
     ExitSwitchesAwayKeeps, InitStartsKeeps, InitSpawnsTaskKeeps, InitSpawnsBoundTaskKeeps,
     InitHasNoSpaceKeeps, InitEndsKeeps, TimerHandlerKeeps DEF KernelStep
<1> QED BY <1>1, <1>2, <1>3, <1>4 DEF Next

(* The invariant implies each safety property. *)
LEMMA IInvImplies ==
  ASSUME IInv
  PROVE  /\ TypeOK /\ RunsOnOwnStack /\ WaitingContextsIntact /\ QueueMatchesPool
         /\ AddressSpaceFollowsTask /\ InitIsAtomic
<1> USE Numbering
<1>0. TypeOK /\ MaskInv /\ StackInv /\ PidInv /\ TableInv
  BY DEF IInv
<1>1. RunsOnOwnStack
  BY <1>0 DEF StackInv, RunsOnOwnStack
<1>2. WaitingContextsIntact
  <2>1. ASSUME NEW pid \in Queued(rq) \ {CURRENT}
        PROVE  \E i \in Slots : TASK_SLOTS[i].pid = pid /\ TASK_SLOTS[i].rsp = i /\ frame[i] # "none"
    <3>1. pid \in Pids
      BY <1>0 DEF PidInv
    <3>2. PICK i \in Slots : TASK_SLOTS[i].pid = pid
      BY <1>0, <3>1 DEF PidInv
    <3>3. i # cpu /\ Occupied(i)
      BY <1>0, <3>1, <3>2 DEF StackInv, Occupied
    <3> QED BY <1>0, <3>2, <3>3 DEF StackInv
  <2> QED BY <1>0, <2>1 DEF StackInv, WaitingContextsIntact
<1>3. QueueMatchesPool
  <2>1. SUFFICES ASSUME IFlag \/ isr
                 PROVE  /\ Queued(rq) = {TASK_SLOTS[i].pid : i \in Slots} \ {None}
                        /\ \A i, j \in Slots : TASK_SLOTS[i].pid = TASK_SLOTS[j].pid /\ i # j
                                                 => TASK_SLOTS[i].pid = None
    BY DEF QueueMatchesPool
  <2>2. Limbo = {}
    BY <1>0, <2>1 DEF MaskInv, Critical, Limbo, ExitLocations
  <2>3. \A i \in Slots : TASK_SLOTS[i].pid \in Pids \cup {None}
    BY <1>0 DEF TypeOK
  <2> QED BY <1>0, <2>2, <2>3 DEF PidInv, Occupied
<1>4. AddressSpaceFollowsTask
  <2>1. scheduler_up /\ pc[cpu] # "exit_switch" => cr3 = Space(CURRENT)
    BY <1>0 DEF TableInv
  <2>2. cpu \in Slots => cpu \in MAPPED /\ cr3 \in stack_region
    BY <1>0 DEF TableInv
  <2>3. ASSUME At("install") PROVE local[cpu].slot \in MAPPED /\ cr3 \in stack_region
    <3>1. pc[cpu] = "install" /\ cpu \in Stacks
      BY <1>0, <2>3 DEF At, StackInv
    <3>2. local[cpu].slot \in MAPPED /\ BootL4 \in stack_region
      BY <1>0, <3>1 DEF TableInv
    <3>3. cpu = BootStack => cr3 = BootL4
      BY <1>0 DEF StackInv, TableInv, Space
    <3> QED BY <2>2, <3>1, <3>2, <3>3
  <2> QED BY <2>1, <2>2, <2>3 DEF AddressSpaceFollowsTask, Space
<1>5. InitIsAtomic
  BY <1>0 DEF StackInv, InitIsAtomic
<1> QED BY <1>0, <1>1, <1>2, <1>3, <1>4, <1>5

(* The invariant holds of every behaviour. *)
LEMMA IInvAlways == Spec => []IInv
BY InitEstablishes, IInvInductive, PTL DEF Spec

(* Every variable of the bridge keeps its type, whatever the number of     *)
(* slots, tasks and ticks: no operation of scheduler_bridge.rs builds a    *)
(* slot, context or run queue outside its declared type.                   *)
THEOREM BridgeTypeCorrect == Spec => []TypeOK
BY IInvAlways, IInvImplies, PTL

(* The core always executes on the stack of the task CURRENT names:        *)
(* switch_to is never handed the 0 of context_rsp's unwrap_or(0), and      *)
(* CURRENT is never out of step with the stack.                            *)
THEOREM BridgeRunsOnOwnStack == Spec => []RunsOnOwnStack
BY IInvAlways, IInvImplies, PTL

(* Whatever can be scheduled next, and the boot flow while a task runs,    *)
(* has its frame intact: context_ptr's fallback never overwrites           *)
(* BOOT_CONTEXT.                                                           *)
THEOREM BridgeContextsIntact == Spec => []WaitingContextsIntact
BY IInvAlways, IInvImplies, PTL

(* Masking interrupts makes spawns and exits atomic towards ticks: at any  *)
(* point where one can arrive, queue and pool hold the same tasks.         *)
THEOREM BridgeQueueMatchesPool == Spec => []QueueMatchesPool
BY IInvAlways, IInvImplies, PTL

(* CR3 follows the running task, and always maps the stack in use and the  *)
(* stack being written: cloning the boot table after the first spawns is   *)
(* what makes this so.                                                     *)
THEOREM BridgeAddressSpaces == Spec => []AddressSpaceFollowsTask
BY IInvAlways, IInvImplies, PTL

(* The first switch finds init done. *)
THEOREM BridgeInitIsAtomic == Spec => []InitIsAtomic
BY IInvAlways, IInvImplies, PTL

(* A stack is given a fresh frame only while nothing executes or waits on  *)
(* it: reusing the slot of an exited task never destroys a suspended one.  *)
THEOREM BridgeStackReuse == Spec => StackReuseIsSafe
<1> USE Numbering
<1> DEFINE Reuse == \A i \in Slots : frame'[i] = "fresh" /\ frame[i] # "fresh" => frame[i] = "none" /\ cpu # i
<1>1. ASSUME IInv, [Next]_vars PROVE [Reuse]_vars
  <2>0. TypeOK /\ StackInv /\ PidInv
    BY <1>1 DEF IInv
  <2>1. CASE SpawnInstallsTask
    <3> DEFINE slot == local[cpu].slot
    <3>1. cpu \in Stacks /\ pc[cpu] = "install"
      BY <2>0, <2>1 DEF StackInv, SpawnInstallsTask, At
    <3>2. slot \in Slots /\ ~Occupied(slot)
      BY <2>0, <3>1 DEF TypeOK, PidInv
    <3>3. slot # cpu /\ frame[slot] = "none"
      BY <2>0, <3>1, <3>2 DEF StackInv, Occupied, TypeOK
    <3>4. \A i \in Slots \ {slot} : frame'[i] = frame[i]
      BY <2>0, <2>1 DEF SpawnInstallsTask, TypeOK
    <3> QED BY <3>3, <3>4
  <2>2. ASSUME NEW save, NEW rsp, SwitchTo(save, rsp) PROVE Reuse
    BY <2>0, <2>2 DEF SwitchTo, TypeOK, StackInv
  <2>3. CASE TimerHandler
    <3>1. UNCHANGED frame \/ \E save, rsp : SwitchTo(save, rsp)
      BY <2>3 DEF TimerHandler, TickReturns, TickSwitches, poolVars
    <3> QED BY <2>2, <3>1
  <2>4. CASE ExitSwitchesAway
    BY <2>2, <2>4 DEF ExitSwitchesAway
  <2>5. CASE UNCHANGED frame
    BY <2>5
  <2> HIDE DEF Reuse
  <2>6. \/ UNCHANGED vars \/ UNCHANGED frame \/ SpawnInstallsTask \/ TimerHandler \/ ExitSwitchesAway
    BY <1>1 DEF Next, KernelStep, TimerInterrupt, TaskSpawns, TaskExits, DrawPid, SpawnDisablesInterrupts,
       SpawnClaimsSlot, SpawnEnqueuesTask, SpawnRestoresInterrupts, ExitLeavesQueue, ExitFreesSlot, InitStarts,
       InitSpawnsTask, InitSpawnsBoundTask, InitHasNoSpace, InitEnds, poolVars
  <2> QED BY <2>1, <2>3, <2>4, <2>5, <2>6
<1> QED BY <1>1, IInvAlways, PTL DEF Spec, StackReuseIsSafe

----------------------------------------------------------------------------
(* SchedulerBridge implements Dispatcher: the refinement mapping is that   *)
(* of D in SchedulerBridge.tla.                                            *)

(* Every task is in the normal class, has run no more ticks than there     *)
(* have been (so its vruntime never wraps), and past the budget the boot   *)
(* flow has the core.                                                      *)
ChargeInv ==
  /\ \A pid \in Queued(rq) : rq.processes[pid].class = "Normal" /\ rq.processes[pid].vruntime <= TICKS
  /\ TICKS > SWITCH_TICK_BUDGET => CURRENT = BOOT_PID

RInv == IInv /\ ChargeInv

(* The values Dispatcher's variables are mapped to. *)
Vr == [pid \in Queued(rq) |-> rq.processes[pid].vruntime]
Used == 0 .. NEXT_PID - 1 \ Pending

(* A tick charges the running task by one, without wrapping. *)
LEMMA TickCharges ==
  ASSUME RInv, TimerHandler, scheduler_up
  PROVE  /\ ChargeInv'
         /\ Vr' = IF CURRENT \in Queued(rq) THEN [Vr EXCEPT ![CURRENT] = @ + 1] ELSE Vr
         /\ CURRENT' = NextToRun(rq, TickCount)
<1>0. TypeOK /\ MaskInv /\ StackInv /\ PidInv
  BY DEF RInv, IInv
<1>1. TICKS \in Nat /\ SWITCH_TICK_BUDGET \in Nat /\ TICKS' = TickCount /\ IsRunQueue(rq)
  BY <1>0, BridgeAssumption DEF TypeOK, TimerHandler
<1>2. CURRENT' = NextToRun(rq, TickCount)
  BY DEF TimerHandler, TickReturns, TickSwitches, runVars
<1>3. TICKS' >= TICKS /\ (TICKS <= SWITCH_TICK_BUDGET => TICKS' = TICKS + 1) /\ TICKS' \in Nat
  BY <1>1 DEF TickCount
<1>4. TICKS' > SWITCH_TICK_BUDGET => CURRENT' = BOOT_PID
  BY <1>1, <1>2 DEF NextToRun
<1>5. ASSUME NEW pid \in Queued(rq)
      PROVE  /\ rq.processes[pid].vruntime \in Nat /\ rq.processes[pid].vruntime <= TICKS
             /\ rq.processes[pid].class = "Normal"
  BY <1>1, <1>5 DEF RInv, ChargeInv, IsRunQueue, Queued, Process
<1>6. CASE CURRENT \notin Queued(rq)
  <2>1. rq' = rq
    BY <1>6 DEF TimerHandler, UpdateVruntime, Normal
  <2>2. Vr' = Vr
    BY <2>1 DEF Vr
  <2>3. \A pid \in Queued(rq)' : rq'.processes[pid].class = "Normal" /\ rq'.processes[pid].vruntime <= TICKS'
    BY <1>1, <1>3, <1>5, <2>1
  <2> QED BY <1>2, <1>4, <1>6, <2>2, <2>3 DEF ChargeInv
<1>7. CASE CURRENT \in Queued(rq)
  <2> DEFINE p == rq.processes[CURRENT]
  <2>1. CURRENT # BOOT_PID /\ TICKS <= SWITCH_TICK_BUDGET
    BY <1>0, <1>1, <1>7, Numbering DEF PidInv, RInv, ChargeInv
  <2>2. p.vruntime \in Nat /\ p.vruntime + 1 < U64 /\ p \in Process /\ p.class = "Normal"
    BY <1>1, <1>5, <1>7, <2>1, U64Assumption, BridgeAssumption DEF IsRunQueue, Queued
  <2>3. (p.vruntime + 1) % U64 = p.vruntime + 1
    BY <2>2, U64Assumption
  <2>4. /\ rq'.processes = [rq.processes EXCEPT ![CURRENT] = [p EXCEPT !.vruntime = p.vruntime + 1]]
    <3>1. rq' = UpdateVruntime(rq, CURRENT, 1)
      BY <2>1 DEF TimerHandler
    <3>2. CURRENT \in Normal(rq)
      BY <1>5, <1>7 DEF Normal
    <3>3. rq'.processes = [rq.processes EXCEPT ![CURRENT] = [p EXCEPT !.vruntime = (@ + 1) % U64]]
      BY <3>1, <3>2 DEF UpdateVruntime
    <3> QED BY <2>2, <2>3, <3>3 DEF Process
  <2>5. /\ Queued(rq)' = Queued(rq)
        /\ \A pid \in Queued(rq) \ {CURRENT} : rq'.processes[pid] = rq.processes[pid]
        /\ rq'.processes[CURRENT].vruntime = p.vruntime + 1 /\ rq'.processes[CURRENT].class = "Normal"
    BY <1>7, <2>2, <2>4 DEF Queued, Process
  <2>6. Vr' = [Vr EXCEPT ![CURRENT] = @ + 1]
    BY <1>7, <2>5 DEF Vr
  <2>7. \A pid \in Queued(rq)' : rq'.processes[pid].class = "Normal" /\ rq'.processes[pid].vruntime <= TICKS'
    BY <1>1, <1>3, <1>5, <1>7, <2>1, <2>2, <2>5
  <2> QED BY <1>2, <1>4, <1>7, <2>6, <2>7 DEF ChargeInv
<1> QED BY <1>6, <1>7

(* The pid pick_next_task and the budget choose is the one of least        *)
(* vruntime, the smaller pid first.                                        *)
LEMMA NextIsChosen ==
  ASSUME RInv, NEW tick
  PROVE  D!Chosen(tick > SWITCH_TICK_BUDGET, NextToRun(rq, tick))
<1>1. /\ IsHybridChoice(rq, PickNextTask(rq))
      /\ \A pid \in Queued(rq) : rq.processes[pid].class = "Normal"
      /\ None \notin Queued(rq)
  BY PickMakesHybridChoice, Numbering DEF RInv, IInv, TypeOK, PidInv, ChargeInv
<1>2. Normal(rq) = Queued(rq) /\ {q \in Queued(rq) : rq.processes[q].class = "RealTime"} = {}
  BY <1>1 DEF Normal
<1>3. CASE Queued(rq) = {}
  BY <1>1, <1>2, <1>3 DEF IsHybridChoice, NextToRun, D!Chosen, D!Tasks
<1>4. CASE Queued(rq) # {}
  <2> DEFINE pick == PickNextTask(rq)
  <2>1. /\ pick \in Queued(rq)
        /\ \A q \in Queued(rq) \ {pick} :
             KeyLess(CfsKey(pick, rq.processes[pick]), CfsKey(q, rq.processes[q]))
    BY <1>1, <1>2, <1>4 DEF IsHybridChoice
  <2>2. pick # None
    BY <1>1, <2>1
  <2>3. \A q \in Queued(rq) \ {pick} : D!Before(pick, q)
    BY <2>1 DEF KeyLess, CfsKey, D!Before
  <2> HIDE DEF pick
  <2>4. NextToRun(rq, tick) = IF tick > SWITCH_TICK_BUDGET THEN BOOT_PID ELSE pick
    BY <2>2 DEF NextToRun, pick
  <2> QED BY <1>4, <2>1, <2>3, <2>4 DEF D!Chosen, D!Tasks
<1> QED BY <1>3, <1>4

(* A spawn under way, from the drawing of its pid to its end. *)
InSpawn(s) == pc[s] \in {"spawn", "claim", "install", "enqueue"}

(* A step inside or outside a spawn changes no pid's fate. *)
LEMMA UsedStays ==
  ASSUME cpu \in Stacks, NEXT_PID' = NEXT_PID,
         \A s \in Stacks : InSpawn(s)' <=> InSpawn(s),
         \A s \in Stacks : InSpawn(s) => local'[s].pid = local[s].pid
  PROVE  Used' = Used
<1>1. Pending' = Pending
  BY DEF Pending, InSpawn
<1> QED BY <1>1 DEF Used

(* The last step of a spawn decides it. *)
LEMMA UsedGrows ==
  ASSUME NEW s \in Stacks, InSpawn(s), ~InSpawn(s)', NEXT_PID' = NEXT_PID, local' = local,
         local[s].pid \in 0 .. NEXT_PID - 1,
         \A t \in Stacks \ {s} : InSpawn(t)' <=> InSpawn(t),
         \A t \in Stacks \ {s} : InSpawn(t) => local[t].pid # local[s].pid
  PROVE  local[s].pid \notin Used /\ Used' = Used \cup {local[s].pid}
<1>1. \A pid : pid \in Pending <=> \E t \in Stacks : InSpawn(t) /\ local[t].pid = pid
  BY DEF Pending, InSpawn
<1>2. \A pid : pid \in Pending' <=> \E t \in Stacks : InSpawn(t)' /\ local[t].pid = pid
  BY DEF Pending, InSpawn
<1>3. local[s].pid \in Pending /\ Pending' = Pending \ {local[s].pid}
  BY <1>1, <1>2
<1> QED BY <1>3 DEF Used

(* Dispatcher sees nothing of a step that keeps its four values. *)
LEMMA Unseen ==
  ASSUME Vr' = Vr, Used' = Used, UNCHANGED <<CURRENT, TICKS>>
  PROVE  UNCHANGED D!vars
BY DEF D!vars, Vr, Used

(* What a stack other than the core's is doing. *)
LEMMA OthersWait ==
  ASSUME IInv, NEW s \in Stacks \ {cpu}
  PROVE  pc[s] \in {"run", "spawn", "exit_switch"}
BY Numbering DEF IInv, StackInv

(* A spawn queues its task: an arrival. *)
LEMMA EnqueueArrives ==
  ASSUME RInv, SpawnEnqueuesTask
  PROVE  ChargeInv' /\ \E pid \in D!Pid : D!Arrive(pid)
<1> DEFINE pid == local[cpu].pid
<1>0. TypeOK /\ StackInv /\ PidInv
  BY DEF RInv, IInv
<1>1. /\ cpu \in Stacks /\ pc[cpu] = "enqueue" /\ pc'[cpu] = "leave"
      /\ \A s \in Stacks \ {cpu} : pc'[s] = pc[s]
  BY <1>0, GotoMoves DEF StackInv, SpawnEnqueuesTask, At, SpawnLocations
<1>2. pid \in Pids /\ pid \in 0 .. NEXT_PID - 1
  <2>1. pid \in Pids /\ local[cpu].slot \in Slots
    BY <1>0, <1>1 DEF TypeOK
  <2>2. pid < NEXT_PID
    BY <1>0, <1>1, <2>1 DEF PidInv
  <2> QED BY <1>0, <2>1, <2>2, BridgeAssumption DEF TypeOK, Pids
<1>3. \A s \in Stacks \ {cpu} : InSpawn(s) => local[s].pid # pid
  <2>1. \A s \in Stacks \ {cpu} : InSpawn(s) => Pledged(s)
    BY OthersWait DEF RInv, InSpawn, Pledged
  <2>2. local[cpu].slot \in Slots /\ TASK_SLOTS[local[cpu].slot].pid = pid
    BY <1>0, <1>1 DEF TypeOK, PidInv
  <2> QED BY <1>0, <2>1, <2>2 DEF PidInv
<1>4. pid \notin Used /\ Used' = Used \cup {pid}
  <2>1. UNCHANGED <<cpu, local, NEXT_PID>>
    BY DEF SpawnEnqueuesTask, runVars
  <2>2. InSpawn(cpu) /\ ~InSpawn(cpu)' /\ \A s \in Stacks \ {cpu} : InSpawn(s)' <=> InSpawn(s)
    BY <1>1, <2>1 DEF InSpawn
  <2> QED BY <1>1, <1>2, <1>3, <2>1, <2>2, UsedGrows
<1>5. scheduler_up /\ UNCHANGED <<CURRENT, TICKS>>
  BY <1>0, <1>1 DEF StackInv, PidInv, SpawnEnqueuesTask, runVars, timerVars
<1>6. rq'.processes = [q \in Queued(rq) \cup {pid} |-> IF q = pid THEN SpawnedProcess ELSE rq.processes[q]]
  BY <1>5 DEF SpawnEnqueuesTask, AddProcess
<1>7. /\ Queued(rq)' = Queued(rq) \cup {pid}
      /\ \A q \in Queued(rq)' : rq'.processes[q] = IF q = pid THEN SpawnedProcess ELSE rq.processes[q]
  BY <1>6 DEF Queued
<1>8. Vr' = [q \in Queued(rq) \cup {pid} |-> IF q = pid THEN 0 ELSE Vr[q]]
  <2>1. SpawnedProcess.vruntime = 0
    BY DEF SpawnedProcess
  <2> QED BY <1>7, <2>1 DEF Vr
<1>9. ChargeInv'
  <2>1. SpawnedProcess.vruntime = 0 /\ SpawnedProcess.class = "Normal" /\ TICKS \in Nat
    BY <1>0, BridgeAssumption DEF SpawnedProcess, TypeOK
  <2> QED BY <1>5, <1>7, <2>1 DEF RInv, ChargeInv
<1> HIDE DEF pid
<1>10. ASSUME NEW p, p = pid PROVE D!Arrive(p)
  BY <1>4, <1>5, <1>8, <1>10 DEF D!Arrive, D!Tasks, Vr, Used
<1>11. pid \in D!Pid
  BY <1>2 DEF D!Pid, Pids
<1> QED BY <1>9, <1>10, <1>11

(* A full pool refuses the spawn; otherwise claiming is not seen. *)
LEMMA ClaimMayRefuse ==
  ASSUME RInv, SpawnClaimsSlot
  PROVE  ChargeInv' /\ (UNCHANGED D!vars \/ \E pid \in D!Pid : D!Refuse(pid))
<1> DEFINE pid == local[cpu].pid
<1>0. TypeOK /\ StackInv /\ PidInv
  BY DEF RInv, IInv
<1>1. cpu \in Stacks /\ pc[cpu] = "claim"
  BY <1>0 DEF StackInv, SpawnClaimsSlot, At
<1>2. /\ UNCHANGED <<CURRENT, TICKS, rq, NEXT_PID, cpu>>
      /\ Vr' = Vr
  BY DEF SpawnClaimsSlot, runVars, timerVars, queueVars, Vr
<1>3. ChargeInv'
  BY <1>2 DEF RInv, ChargeInv
<1>4. CASE SlotOf(None) = None
  <2>1. pc'[cpu] = "leave" /\ local' = local /\ \A s \in Stacks \ {cpu} : pc'[s] = pc[s]
    BY <1>0, <1>1, <1>4, GotoMoves DEF SpawnClaimsSlot, SpawnLocations
  <2>2. pid \in Pids /\ pid \in 0 .. NEXT_PID - 1
    <3>1. pid \in Pids /\ pid < NEXT_PID
      BY <1>0, <1>1 DEF TypeOK, PidInv, Pledged
    <3> QED BY <1>0, <3>1, BridgeAssumption DEF TypeOK, Pids
  <2>3. \A s \in Stacks \ {cpu} : InSpawn(s) => local[s].pid # pid
    <3>1. \A s \in Stacks \ {cpu} : InSpawn(s) => Pledged(s)
      BY OthersWait DEF RInv, InSpawn, Pledged
    <3>2. Pledged(cpu)
      BY <1>1 DEF Pledged
    <3> QED BY <1>0, <1>1, <3>1, <3>2 DEF PidInv
  <2>4. InSpawn(cpu) /\ ~InSpawn(cpu)' /\ \A s \in Stacks \ {cpu} : InSpawn(s)' <=> InSpawn(s)
    BY <1>1, <1>2, <2>1 DEF InSpawn
  <2>5. pid \notin Used /\ Used' = Used \cup {pid}
    BY <1>1, <1>2, <2>1, <2>2, <2>3, <2>4, UsedGrows
  <2> HIDE DEF pid
  <2>6. D!Refuse(pid)
    BY <1>2, <2>5 DEF D!Refuse, Vr, Used
  <2> QED BY <1>3, <2>2, <2>6 DEF D!Pid, Pids
<1>5. CASE SlotOf(None) # None
  <2>1. /\ pc'[cpu] = "install" /\ \A s \in Stacks \ {cpu} : pc'[s] = pc[s]
        /\ local' = [local EXCEPT ![cpu].slot = SlotOf(None)]
    BY <1>0, <1>1, <1>5, GotoMoves DEF SpawnClaimsSlot, SpawnLocations
  <2>2. \A s \in Stacks : local'[s].pid = local[s].pid
    BY <1>0, <2>1 DEF TypeOK
  <2>3. \A s \in Stacks : InSpawn(s)' <=> InSpawn(s)
    BY <1>1, <2>1 DEF InSpawn
  <2> QED BY <1>1, <1>2, <1>3, <2>2, <2>3, UsedStays, Unseen
<1> QED BY <1>4, <1>5

(* A task leaves the queue: a departure. *)
LEMMA ExitDeparts ==
  ASSUME RInv, ExitLeavesQueue
  PROVE  ChargeInv' /\ D!Depart
<1>0. TypeOK /\ StackInv /\ PidInv
  BY DEF RInv, IInv
<1>1. /\ cpu \in Slots /\ pc[cpu] = "exit_remove" /\ pc'[cpu] = "exit_free"
      /\ \A s \in Stacks \ {cpu} : pc'[s] = pc[s]
  BY <1>0, GotoMoves, Numbering DEF StackInv, ExitLeavesQueue, At, ExitLocations
<1>2. UNCHANGED <<CURRENT, TICKS, NEXT_PID, cpu, local>>
  BY DEF ExitLeavesQueue, runVars, timerVars
<1>3. scheduler_up /\ CURRENT \in Queued(rq)
  <2>1. CURRENT \in Pids /\ TASK_SLOTS[cpu].pid = CURRENT /\ scheduler_up
    BY <1>0, <1>1, Numbering DEF StackInv, PidInv, TypeOK
  <2>2. Limbo = {}
    BY <1>1 DEF Limbo
  <2> QED BY <1>0, <1>1, <2>1, <2>2 DEF PidInv
<1>4. rq'.processes = [q \in Queued(rq) \ {CURRENT} |-> rq.processes[q]]
  BY <1>3 DEF ExitLeavesQueue, RemoveProcess
<1>5. /\ Queued(rq)' = Queued(rq) \ {CURRENT}
      /\ \A q \in Queued(rq)' : rq'.processes[q] = rq.processes[q]
  BY <1>4 DEF Queued
<1>6. Vr' = [q \in Queued(rq) \ {CURRENT} |-> Vr[q]]
  BY <1>5 DEF Vr
<1>7. Used' = Used
  <2>1. \A s \in Stacks : InSpawn(s)' <=> InSpawn(s)
    BY <1>1 DEF InSpawn
  <2> QED BY <1>1, <1>2, <2>1, UsedStays, Numbering
<1>8. ChargeInv'
  BY <1>2, <1>5 DEF RInv, ChargeInv
<1> QED BY <1>2, <1>3, <1>6, <1>7, <1>8 DEF D!Depart, D!Tasks, Vr, Used

(* The departed task's core is passed on. *)
LEMMA ExitHandsOff ==
  ASSUME RInv, ExitSwitchesAway
  PROVE  ChargeInv' /\ \E next \in D!Pid \cup {BOOT_PID} : D!Handoff(next)
<1> DEFINE next == NextToRun(rq, TICKS)
<1>0. TypeOK /\ StackInv /\ PidInv
  BY DEF RInv, IInv
<1>1. cpu \in Slots /\ pc[cpu] = "exit_switch"
  BY <1>0, Numbering DEF StackInv, ExitSwitchesAway, At, ExitLocations
<1>2. CURRENT' = next /\ UNCHANGED <<TICKS, NEXT_PID, rq, pc, local>>
  BY DEF ExitSwitchesAway, timerVars, queueVars, codeVars
<1>3. CURRENT \notin Queued(rq) \cup {BOOT_PID}
  BY <1>0, <1>1, Numbering DEF StackInv, PidInv, TypeOK
<1>4. Vr' = Vr /\ Used' = Used
  BY <1>2 DEF Vr, Used, Pending
<1>5. next \in Pids \cup {BOOT_PID}
  BY <1>0, NextIsQueued DEF TypeOK, PidInv
<1>6. D!Chosen(TICKS > SWITCH_TICK_BUDGET, next)
  BY NextIsChosen
<1>7. TICKS > SWITCH_TICK_BUDGET => next = BOOT_PID
  BY DEF NextToRun
<1> HIDE DEF next
<1>8. ChargeInv'
  BY <1>2, <1>7 DEF RInv, ChargeInv
<1>9. D!Handoff(next)
  BY <1>2, <1>3, <1>4, <1>6 DEF D!Handoff, D!Tasks, Vr, Used
<1> QED BY <1>5, <1>8, <1>9 DEF D!Pid, Pids

(* A timer interrupt's handler: a tick. *)
LEMMA HandlerTicks ==
  ASSUME RInv, TimerHandler
  PROVE  ChargeInv' /\ \E next \in D!Pid \cup {BOOT_PID} : D!Tick(next)
<1>0. TypeOK /\ StackInv /\ PidInv
  BY DEF RInv, IInv
<1>1. TICKS' = TickCount /\ UNCHANGED <<NEXT_PID, pc, local>>
  BY DEF TimerHandler, codeVars
<1>2. Used' = Used
  BY <1>1 DEF Used, Pending
<1>3. (TICKS' > SWITCH_TICK_BUDGET) \in {TICKS > SWITCH_TICK_BUDGET, TRUE}
  <2>1. TICKS > SWITCH_TICK_BUDGET => TICKS' > SWITCH_TICK_BUDGET
    BY <1>0, <1>1, BridgeAssumption DEF TypeOK, TickCount
  <2>2. (TICKS' > SWITCH_TICK_BUDGET) = TRUE \/ (TICKS' > SWITCH_TICK_BUDGET) = (TICKS > SWITCH_TICK_BUDGET)
    BY <2>1
  <2> QED BY <2>2, Zenon
<1>4. CASE scheduler_up
  <2> DEFINE next == NextToRun(rq, TickCount)
  <2>1. /\ ChargeInv' /\ CURRENT' = next
        /\ Vr' = IF CURRENT \in Queued(rq) THEN [Vr EXCEPT ![CURRENT] = @ + 1] ELSE Vr
    BY <1>4, TickCharges
  <2>2. D!Chosen(TICKS' > SWITCH_TICK_BUDGET, next)
    BY <1>1, NextIsChosen
  <2>3. next \in D!Pid \cup {BOOT_PID}
    BY <1>0, NextIsQueued DEF TypeOK, PidInv, D!Pid, Pids
  <2> HIDE DEF next
  <2>4. ASSUME NEW n, n = next PROVE D!Tick(n)
    BY <1>2, <1>3, <2>1, <2>2, <2>4 DEF D!Tick, D!Charged, D!Tasks, Vr, Used
  <2> QED BY <2>1, <2>3, <2>4
<1>5. CASE ~scheduler_up
  <2>1. CURRENT = BOOT_PID /\ Queued(rq) = {} /\ UNCHANGED <<rq, CURRENT>>
    <3>1. UNCHANGED <<rq, CURRENT>>
      BY <1>5 DEF TimerHandler, TickReturns, runVars
    <3>2. CURRENT = BOOT_PID
      BY <1>0, <1>5 DEF StackInv, PidInv
    <3>3. \A pid \in Pids : \A i \in Slots : TASK_SLOTS[i].pid # pid
      BY <1>0, <1>5, Numbering DEF PidInv, Occupied
    <3> QED BY <1>0, <3>1, <3>2, <3>3 DEF PidInv
  <2>2. Vr' = Vr /\ ChargeInv'
    BY <2>1 DEF Vr, ChargeInv
  <2>3. D!Tick(BOOT_PID)
    BY <1>2, <1>3, <2>1, <2>2 DEF D!Tick, D!Chosen, D!Charged, D!Tasks, Vr, Used
  <2> QED BY <2>2, <2>3
<1> QED BY <1>4, <1>5

(* Drawing a pid only moves it from the unused to the pending ones. *)
LEMMA DrawUnseen ==
  ASSUME RInv, NEW space, DrawPid(space), pc[cpu] \in {"run", "init"}
  PROVE  ChargeInv' /\ UNCHANGED D!vars
<1>0. TypeOK /\ StackInv /\ PidInv
  BY DEF RInv, IInv
<1>1. /\ UNCHANGED <<CURRENT, TICKS, rq, cpu>> /\ NEXT_PID' = NEXT_PID + 1 /\ NEXT_PID \in Nat
      /\ Vr' = Vr
  BY <1>0, BridgeAssumption DEF DrawPid, runVars, timerVars, queueVars, Vr, TypeOK
<1>2. ChargeInv'
  BY <1>1 DEF RInv, ChargeInv
<1>3. /\ cpu \in Stacks /\ pc'[cpu] = "spawn" /\ local'[cpu].pid = NEXT_PID
      /\ \A s \in Stacks \ {cpu} : pc'[s] = pc[s] /\ local'[s] = local[s]
  BY <1>0, GotoMoves DEF StackInv, DrawPid, TypeOK, SpawnLocations
<1>4. \A pid : pid \in Pending' <=> pid \in Pending \/ pid = NEXT_PID
  <2>1. \A pid : pid \in Pending <=> \E s \in Stacks : InSpawn(s) /\ local[s].pid = pid
    BY DEF Pending, InSpawn
  <2>2. \A pid : pid \in Pending' <=> \E s \in Stacks : InSpawn(s)' /\ local'[s].pid = pid
    BY DEF Pending, InSpawn
  <2>3. ~InSpawn(cpu) /\ pc'[cpu] = "spawn" /\ \A s \in Stacks \ {cpu} : InSpawn(s)' <=> InSpawn(s)
    BY <1>1, <1>3 DEF InSpawn
  <2>4. \A s \in Stacks : InSpawn(s)' <=> InSpawn(s) \/ s = cpu
    BY <1>3, <2>3 DEF InSpawn
  <2> QED BY <1>3, <2>1, <2>2, <2>3, <2>4
<1>5. Used' = Used
  <2>1. \A n \in Int : n \in 0 .. NEXT_PID' - 1 <=> n \in 0 .. NEXT_PID - 1 \/ n = NEXT_PID
    BY <1>1
  <2> QED BY <1>1, <1>4, <2>1 DEF Used
<1> QED BY <1>1, <1>2, <1>5, Unseen

(* Steps that only move code, stacks and tables. *)
LEMMA OtherStepsUnseen ==
  ASSUME RInv,
         \/ SpawnDisablesInterrupts \/ SpawnInstallsTask \/ SpawnRestoresInterrupts \/ ExitFreesSlot
         \/ InitStarts \/ InitHasNoSpace \/ InitEnds \/ TimerInterrupt \/ TaskExits
  PROVE  ChargeInv' /\ UNCHANGED D!vars
<1>0. TypeOK /\ StackInv /\ PidInv
  BY DEF RInv, IInv
<1>1. UNCHANGED <<CURRENT, TICKS, NEXT_PID, cpu>>
  BY DEF SpawnDisablesInterrupts, SpawnInstallsTask, SpawnRestoresInterrupts, ExitFreesSlot, InitStarts,
     InitHasNoSpace, InitEnds, TimerInterrupt, TaskExits, runVars, timerVars
<1>2. Vr' = Vr /\ ChargeInv'
  <2>1. CASE UNCHANGED rq
    BY <1>1, <2>1 DEF RInv, ChargeInv, Vr
  <2>2. CASE InitStarts
    <3>1. Queued(rq)' = {}
      BY <2>2, NewRunQueueMirrors DEF InitStarts
    <3>2. ~scheduler_up
      BY <1>0, <2>2, Numbering DEF InitStarts, At, StackInv, PidInv
    <3>3. \A pid \in Pids : \A i \in Slots : TASK_SLOTS[i].pid # pid
      BY <1>0, <3>2, Numbering DEF PidInv, Occupied
    <3>4. Queued(rq) = {}
      BY <1>0, <3>3 DEF PidInv
    <3> QED BY <1>1, <3>1, <3>4 DEF RInv, ChargeInv, Vr
  <2> QED BY <2>1, <2>2 DEF SpawnDisablesInterrupts, SpawnInstallsTask, SpawnRestoresInterrupts,
        ExitFreesSlot, InitHasNoSpace, InitEnds, TimerInterrupt, TaskExits, queueVars
<1>3. cpu \in Stacks
  BY <1>0 DEF StackInv
<1>4. \A s \in Stacks : (InSpawn(s)' <=> InSpawn(s)) /\ (InSpawn(s) => local'[s].pid = local[s].pid)
  <2>1. CASE SpawnDisablesInterrupts
    <3>1. pc[cpu] = "spawn" /\ pc'[cpu] = "claim" /\ \A s \in Stacks \ {cpu} : pc'[s] = pc[s]
      BY <1>0, <1>3, <2>1, GotoMoves DEF SpawnDisablesInterrupts, At, SpawnLocations
    <3>2. \A s \in Stacks : local'[s].pid = local[s].pid
      BY <1>0, <2>1 DEF SpawnDisablesInterrupts, TypeOK
    <3> QED BY <3>1, <3>2 DEF InSpawn
  <2>2. CASE SpawnInstallsTask
    <3> DEFINE slot == local[cpu].slot
    <3>1. pc[cpu] = "install" /\ slot \in Slots /\ ~Occupied(slot) /\ local' = local
      BY <1>0, <1>3, <2>2 DEF SpawnInstallsTask, At, TypeOK, PidInv
    <3>2. slot # cpu
      BY <1>0, <3>1, Numbering DEF StackInv, TypeOK, Occupied
    <3>3. pc[slot] \in {"run", "exit_switch"}
      BY <1>0, <3>1, <3>2 DEF StackInv
    <3>4. pc'[cpu] = "enqueue" /\ pc'[slot] = "run" /\ \A s \in Stacks \ {cpu, slot} : pc'[s] = pc[s]
      BY <1>0, <1>3, <2>2, <3>1, <3>2, Numbering DEF SpawnInstallsTask, TypeOK
    <3> QED BY <3>1, <3>3, <3>4 DEF InSpawn
  <2>3. CASE SpawnRestoresInterrupts
    <3>1. pc[cpu] = "leave" /\ pc'[cpu] \in {"init", "run"} /\ \A s \in Stacks \ {cpu} : pc'[s] = pc[s]
      BY <1>0, <1>3, <2>3, GotoMoves DEF SpawnRestoresInterrupts, At
    <3>2. \A s \in Stacks \ {cpu} : local'[s] = local[s]
      BY <1>0, <2>3 DEF SpawnRestoresInterrupts, TypeOK
    <3> QED BY <3>1, <3>2 DEF InSpawn
  <2>4. CASE ExitFreesSlot \/ InitStarts \/ InitEnds \/ TaskExits
    <3>1. /\ local' = local /\ ~InSpawn(cpu)
          /\ Goto("exit_switch") \/ Goto("init") \/ Goto("run") \/ Goto("exit_remove")
      BY <2>4 DEF ExitFreesSlot, InitStarts, InitEnds, TaskExits, At, InSpawn
    <3>2. pc'[cpu] \in {"exit_switch", "init", "run", "exit_remove"} /\ \A s \in Stacks \ {cpu} : pc'[s] = pc[s]
      BY <1>0, <1>3, <3>1, GotoMoves DEF ExitLocations
    <3> QED BY <1>3, <3>1, <3>2 DEF InSpawn
  <2>5. CASE InitHasNoSpace \/ TimerInterrupt
    BY <2>5 DEF InitHasNoSpace, TimerInterrupt, codeVars, InSpawn
  <2> QED BY <2>1, <2>2, <2>3, <2>4, <2>5
<1>5. Used' = Used
  BY <1>1, <1>3, <1>4, UsedStays
<1> QED BY <1>1, <1>2, <1>5, Unseen

(* One step of the kernel is one step of the dispatcher, or none. *)
LEMMA StepSimulation ==
  ASSUME RInv, [Next]_vars
  PROVE  RInv' /\ [D!Next]_(D!vars)
<1>0. IInv'
  BY IInvInductive DEF RInv
<1>1. CASE UNCHANGED vars
  BY <1>0, <1>1 DEF RInv, ChargeInv, vars, timerVars, queueVars, runVars, codeVars, D!vars, Pending
<1>2. CASE SpawnEnqueuesTask
  BY <1>0, <1>2, EnqueueArrives DEF RInv, D!Next
<1>3. CASE SpawnClaimsSlot
  BY <1>0, <1>3, ClaimMayRefuse DEF RInv, D!Next
<1>4. CASE ExitLeavesQueue
  BY <1>0, <1>4, ExitDeparts DEF RInv, D!Next
<1>5. CASE ExitSwitchesAway
  BY <1>0, <1>5, ExitHandsOff DEF RInv, D!Next
<1>6. CASE TimerHandler
  BY <1>0, <1>6, HandlerTicks DEF RInv, D!Next
<1>7. CASE TaskSpawns \/ InitSpawnsTask \/ InitSpawnsBoundTask
  <2>1. pc[cpu] \in {"run", "init"} /\ \E space : DrawPid(space)
    BY <1>7 DEF TaskSpawns, InitSpawnsTask, InitSpawnsBoundTask, At
  <2> QED BY <1>0, <2>1, DrawUnseen DEF RInv
<1>8. CASE \/ SpawnDisablesInterrupts \/ SpawnInstallsTask \/ SpawnRestoresInterrupts \/ ExitFreesSlot
           \/ InitStarts \/ InitHasNoSpace \/ InitEnds \/ TimerInterrupt \/ TaskExits
  BY <1>0, <1>8, OtherStepsUnseen DEF RInv
<1> QED BY <1>1, <1>2, <1>3, <1>4, <1>5, <1>6, <1>7, <1>8 DEF Next, KernelStep

(* The kernel boots as Dispatcher starts. *)
LEMMA InitSimulation ==
  ASSUME Init
  PROVE  RInv /\ D!Init
<1>1. Queued(rq) = {}
  BY NewRunQueueMirrors DEF Init
<1>2. RInv
  BY <1>1, InitEstablishes, BridgeAssumption DEF RInv, ChargeInv, Init
<1>3. Vr = [pid \in {} |-> 0]
  BY <1>1 DEF Vr
<1>4. Used = {} /\ ~(TICKS > SWITCH_TICK_BUDGET) /\ CURRENT = BOOT_PID
  BY BridgeAssumption DEF Used, Init
<1> QED BY <1>2, <1>3, <1>4 DEF D!Init, Vr, Used

(* The kernel's scheduler is Dispatcher, whatever the number of slots,     *)
(* tasks and ticks: each spawn queues its task once and atomically, each   *)
(* exit removes one, every tick passes the core to the least vruntime of   *)
(* before the charge, and nobody else ever gets it.                        *)
THEOREM BridgeImplementsDispatcher == Spec => ImplementsDispatcher
BY InitSimulation, StepSimulation, PTL DEF Spec, ImplementsDispatcher, D!Spec
=============================================================================
