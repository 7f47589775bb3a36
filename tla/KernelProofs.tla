--------------------------- MODULE KernelProofs ---------------------------
(***************************************************************************)
(* Proofs about the boot of the kernel (KernelMain) and the start of the   *)
(* second core in it (ApBringUp).                                          *)
(***************************************************************************)
EXTENDS KernelMain, TLAPS, WellFoundedInduction

----------------------------------------------------------------------------
(* The start of the second core on its own. *)

(* The stages, and the order they are gone through. *)
Stages ==
  {"map_lapic", "map_trampoline", "prepare", "send_init", "send_sipi1", "send_sipi2", "wait_init", "wait_sipi1",
   "wait_sipi2", "poll_started", "poll_survived"}

(* The table of stages is complete. *)
LEMMA AfterIsAStage ==
  /\ DOMAIN After = Stages
  /\ \A s \in Stages : After[s] \in Stages \cup {"returned"}
<1>1. DOMAIN After = Stages
  BY DEF After, Stages
<1>2. \A s \in Stages : After[s] \in Stages \cup {"returned"}
  BY DEF After, Stages
<1> QED
  BY <1>1, <1>2

(* Every step of the start-up keeps the types of its variables. *)
LEMMA BringUpTypeStep == TypeOK /\ [Next]_vars => TypeOK'
<1> SUFFICES ASSUME TypeOK, [Next]_vars PROVE TypeOK'
  OBVIOUS
<1> USE BringUpAssumption, AfterIsAStage DEF TypeOK, None, Stages, Waits, Polls, Sends
<1>1. CASE MapsPage
  BY <1>1 DEF MapsPage, BspAt, Return, apVars
<1>2. CASE PreparesTrampoline
  BY <1>2 DEF PreparesTrampoline, BspAt, Return, apVars
<1>3. CASE SendsIpi
  BY <1>3 DEF SendsIpi, BspAt, apVars
<1>4. CASE TickCountLocks
  BY <1>4 DEF TickCountLocks, BspAt, apVars
<1>5. CASE TickCountReturns
  <2>0. elapsed' \in {0, elapsed, None}
    BY <1>5 DEF TickCountReturns
  <2>1. elapsed' \in None .. Timeout + 1
    BY <2>0
  <2>2. stage' \in DOMAIN After \cup {"returned", "checked"} /\ result' \in BOOLEAN
    BY <1>5 DEF TickCountReturns, BspAt, Return
  <2> QED
    BY <1>5, <2>1, <2>2 DEF TickCountReturns, apVars
<1>6. CASE PollSucceeds
  BY <1>6 DEF PollSucceeds, BspAt, Polled, apVars
<1>7. CASE ChecksOutcome
  BY <1>7 DEF ChecksOutcome, BspAt, apVars
<1>8. CASE TimerInterrupt
  BY <1>8 DEF TimerInterrupt, bspVars, apVars
<1>9. CASE TimerHandler
  <2>1. elapsed' \in None .. Timeout + 1
    BY <1>9 DEF TimerHandler
  <2> QED
    BY <1>9, <2>1 DEF TimerHandler, apVars
<1>10. CASE ApWakes \/ ApReports \/ ApStarts \/ ApSurvives
  BY <1>10 DEF ApWakes, ApReports, ApStarts, ApSurvives, bspVars
<1>11. CASE UNCHANGED vars
  BY <1>11 DEF vars, bspVars, apVars
<1> QED
  BY <1>1, <1>2, <1>3, <1>4, <1>5, <1>6, <1>7, <1>8, <1>9, <1>10, <1>11 DEF Next, BspStep

(* The start-up begins with its variables well typed. *)
LEMMA BringUpTypeInit == Init => TypeOK
<1>1. Init => elapsed \in None .. Timeout + 1
  BY BringUpAssumption DEF Init, None
<1>2. Init => stage \in DOMAIN After
  BY AfterIsAStage DEF Init, Stages
<1>3. Init => AP_REPORTED_APIC_ID \in ApicIds \cup {None}
  BY DEF Init
<1> QED
  BY <1>1, <1>2, <1>3 DEF Init, TypeOK

(* The variables of bring_up_ap and of the AP keep their types: the id in  *)
(* AP_REPORTED_APIC_ID is that of a core.                                  *)
THEOREM BringUpTypeCorrect == Spec => []TypeOK
  BY BringUpTypeInit, BringUpTypeStep, PTL DEF Spec

(* The flags tell where the AP is, and it is only started with its slots   *)
(* written.                                                                *)
Beyond == {"send_init", "wait_init", "send_sipi1", "wait_sipi1", "send_sipi2", "wait_sipi2"} \cup Polls

BringUpInv ==
  /\ TypeOK
  /\ sipi_sent => slots_written
  /\ stage \in Beyond => slots_written
  /\ ap # "lost"
  /\ AP_FAULT_SURVIVED => ap = "parked"
  /\ stage = "checked" /\ result => AP_FAULT_SURVIVED /\ AP_REPORTED_APIC_ID = Target

(* Every step of the bring-up keeps BringUpInv. *)
LEMMA BringUpInvStep == BringUpInv /\ [Next]_vars => BringUpInv'
<1> SUFFICES ASSUME BringUpInv, [Next]_vars PROVE BringUpInv'
  OBVIOUS
<1>t. TypeOK'
  BY BringUpTypeStep DEF BringUpInv
<1> USE <1>t DEF BringUpInv, TypeOK, Beyond, After, Waits, Polls, Sends
<1>1. CASE MapsPage
  BY <1>1 DEF MapsPage, BspAt, Return, apVars
<1>2. CASE PreparesTrampoline
  BY <1>2 DEF PreparesTrampoline, BspAt, Return, apVars
<1>3. CASE SendsIpi
  BY <1>3 DEF SendsIpi, BspAt, apVars
<1>4. CASE TickCountLocks
  BY <1>4 DEF TickCountLocks, BspAt, apVars
<1>5. CASE TickCountReturns
  BY <1>5 DEF TickCountReturns, BspAt, Return, apVars
<1>6. CASE PollSucceeds
  BY <1>6 DEF PollSucceeds, BspAt, apVars
<1>7. CASE ChecksOutcome
  BY <1>7 DEF ChecksOutcome, BspAt, apVars
<1>8. CASE TimerInterrupt
  BY <1>8 DEF TimerInterrupt, bspVars, apVars
<1>9. CASE TimerHandler
  BY <1>9 DEF TimerHandler, apVars
<1>10. CASE ApWakes \/ ApReports \/ ApStarts \/ ApSurvives
  BY <1>10 DEF ApWakes, ApReports, ApStarts, ApSurvives, bspVars
<1>11. CASE UNCHANGED vars
  BY <1>11 DEF vars, bspVars, apVars
<1> QED
  BY <1>1, <1>2, <1>3, <1>4, <1>5, <1>6, <1>7, <1>8, <1>9, <1>10, <1>11 DEF Next, BspStep

(* smp_ok is only TRUE for the core that was asked for, after it has come  *)
(* back from its breakpoint, whatever the timeouts and the AP's pace; and  *)
(* no AP is ever woken before its slots are written.                       *)
THEOREM BringUpEvidence == Spec => []OutcomeIsEvidence
<1>1. Init => BringUpInv
  BY BringUpTypeInit DEF Init, BringUpInv, Beyond, Polls
<1>2. BringUpInv => OutcomeIsEvidence
  BY DEF BringUpInv, OutcomeIsEvidence
<1> QED
  BY <1>1, <1>2, BringUpInvStep, PTL DEF Spec

----------------------------------------------------------------------------
(* The start of the second core within the boot of the kernel. *)
LEMMA BootStepIsBringUpStep == [BootNext]_kernelVars => [Next]_vars
<1> SUFFICES ASSUME [BootNext]_kernelVars PROVE [Next]_vars
  OBVIOUS
<1>1. CASE FlowStep
  <2>1. BringsUpAp => Next
    BY DEF BringsUpAp, Next
  <2>2. EarlyBoot \/ LateBoot \/ TakesLocks => UNCHANGED vars
    BY DEF EarlyBoot, LateBoot, TakesLocks, outside
  <2>3. ChecksMemory \/ RunDemoSyscall \/ RunsProgram => UNCHANGED vars
    BY DEF ChecksMemory, RunDemoSyscall, RunsProgram, outside
  <2>4. ChecksReport \/ ChecksCapability \/ InitMasksInterrupts => UNCHANGED vars
    BY DEF ChecksReport, ChecksCapability, InitMasksInterrupts, outside
  <2>5. SchedulerBoot => UNCHANGED vars
    BY DEF SchedulerBoot, outside
  <2>6. IpcBoot \/ HaltsForTicks \/ ChecksTasks => UNCHANGED vars
    BY DEF IpcBoot, HaltsForTicks, ChecksTasks, outside
  <2>7. ChecksSmp \/ ChecksBspState \/ ExitQemu => UNCHANGED vars
    BY DEF ChecksSmp, ChecksBspState, ExitQemu, outside
  <2>8. InitSpawns => UNCHANGED vars
    BY Zenon DEF InitSpawns, outside
  <2>9. SanctumBoot => UNCHANGED vars
    BY DEF SanctumBoot, outside
  <2> QED
    BY <1>1, <2>1, <2>2, <2>3, <2>4, <2>5, <2>6, <2>7, <2>8, <2>9 DEF FlowStep
<1>2. CASE TaskStep
  BY <1>2 DEF TaskStep, TaskIterates, TaskASpawnsD, TaskCExits
<1>3. CASE TakesInterrupt
  BY <1>3 DEF TakesInterrupt, Next
<1>4. CASE OnTimerTick
  BY <1>4 DEF OnTimerTick, Next
<1>5. CASE ApRuns
  BY <1>5 DEF ApRuns, Next
<1>6. CASE UNCHANGED kernelVars
  BY <1>6 DEF kernelVars
<1> QED
  BY <1>1, <1>2, <1>3, <1>4, <1>5, <1>6 DEF BootNext

(* Seen from bring_up_ap and the AP, the booting kernel, with its tasks,   *)
(* its ring-3 program and its ticks, is a run of ApBringUp.                *)
THEOREM BootImplementsBringUp == BootSpec => Spec
<1>1. BootInit => Init
  BY DEF BootInit
<1> QED
  BY <1>1, BootStepIsBringUpStep, PTL DEF BootSpec, Spec

(* So what was proved of the start-up holds of the kernel: the Smp check   *)
(* of kernel_main never passes without a core that came through.           *)
THEOREM BootChecksEvidence == BootSpec => []OutcomeIsEvidence
  BY BootImplementsBringUp, BringUpEvidence, PTL

----------------------------------------------------------------------------
(* The boot phases: whatever complete() is called with, it keeps the       *)
(* phases complete up to a point of the order.                             *)
LEMMA CompleteKeepsOrder ==
  ASSUME NEW S, NEW phase, Boot!SatisfiesOrderingInvariant(S)
  PROVE  Boot!SatisfiesOrderingInvariant(Boot!Complete(S, phase))
BY DEF Boot!SatisfiesOrderingInvariant, Boot!Complete, Boot!MayComplete

(* boot_sequence_integrity, for the calls that kernel_main makes. *)
LEMMA BootSequenceIntegrity == BootSpec => []Boot!SatisfiesOrderingInvariant(completed)
<1>1. BootInit => Boot!SatisfiesOrderingInvariant(completed)
  BY DEF BootInit, Boot!SatisfiesOrderingInvariant
<1>2. Boot!SatisfiesOrderingInvariant(completed) /\ [BootNext]_kernelVars
        => Boot!SatisfiesOrderingInvariant(completed)'
  <2> SUFFICES ASSUME Boot!SatisfiesOrderingInvariant(completed), [BootNext]_kernelVars
               PROVE  Boot!SatisfiesOrderingInvariant(completed')
    BY DEF Boot!SatisfiesOrderingInvariant
  <2>1. EarlyBoot \/ LateBoot \/ SchedulerBoot \/ SanctumBoot \/ IpcBoot
          => \E phase : completed' = Boot!Complete(completed, phase)
    BY DEF EarlyBoot, LateBoot, SchedulerBoot, SanctumBoot, IpcBoot, CompletesPhase
  <2>2. TakesLocks \/ ChecksMemory \/ RunDemoSyscall => UNCHANGED completed
    BY DEF TakesLocks, ChecksMemory, RunDemoSyscall, flowVars
  <2>3. RunsProgram \/ ChecksReport \/ ChecksCapability => UNCHANGED completed
    BY DEF RunsProgram, ChecksReport, ChecksCapability, flowVars
  <2>4. InitMasksInterrupts \/ InitSpawns \/ HaltsForTicks => UNCHANGED completed
    BY DEF InitMasksInterrupts, InitSpawns, HaltsForTicks, flowVars
  <2>5. ChecksTasks \/ ChecksSmp \/ ChecksBspState => UNCHANGED completed
    BY DEF ChecksTasks, ChecksSmp, ChecksBspState, flowVars
  <2>6. ExitQemu \/ BringsUpAp \/ TaskIterates => UNCHANGED completed
    BY DEF ExitQemu, BringsUpAp, TaskIterates, flowVars
  <2>7. TaskASpawnsD \/ TaskCExits \/ TakesInterrupt => UNCHANGED completed
    BY DEF TaskASpawnsD, TaskCExits, TakesInterrupt, flowVars
  <2>8. OnTimerTick \/ ApRuns => UNCHANGED completed
    BY DEF OnTimerTick, ApRuns, flowVars
  <2>9. UNCHANGED kernelVars => UNCHANGED completed
    BY DEF kernelVars, flowVars
  <2>10. completed' = completed \/ \E phase : completed' = Boot!Complete(completed, phase)
    BY <2>1, <2>2, <2>3, <2>4, <2>5, <2>6, <2>7, <2>8, <2>9 DEF BootNext, FlowStep, TaskStep
  <2> QED
    BY <2>10, CompleteKeepsOrder
<1> QED
  BY <1>1, <1>2, PTL DEF BootSpec

----------------------------------------------------------------------------
(* Where the kernel can hang.  Interrupts are masked only around boot and  *)
(* init; until init is done no task runs.                                  *)
BeforeQueue == {"early_boot", "late_boot", "memory", "syscall", "ring3", "capability", "scheduler"}
InInit == {"spawn_a", "spawn_b", "spawn_c", "spawn_e", "scheduler_boot"}

MaskInv ==
  /\ ~IFlag => pc \in {"early_boot", "late_boot"} \cup InInit
  /\ pc \in InInit => ~IFlag
  /\ isr => IFlag

CoreInv ==
  /\ pc \in BeforeQueue => ~scheduler_up
  /\ pc \in BeforeQueue \cup InInit => CURRENT = BOOT_PID /\ ~TASK_C_EXITED
  /\ CURRENT # None

(* The locks that a tick needs are held by the running boot flow only. *)
LockInv ==
  /\ "SCHEDULER" \in held =>
       CURRENT = BOOT_PID /\ held = {"SCHEDULER"} /\ pc \in {"check_exit", "recheck"} /\ LooksTaskCUp
  /\ TICKS_locked =>
       CURRENT = BOOT_PID /\ pc = "smp" /\ TargetOf(cpu_topology) # None /\ stage \in Waits \cup Polls

Entries == {"a", "b", "c", "d", "e", "none"}

(* Stacks are mapped from the first slot up, and once c has exited, until  *)
(* d is spawned, a free slot has one.                                      *)
PoolInv ==
  /\ TASK_SLOTS \in [Slots -> [pid : Int, entry : Entries, in_hlt : BOOLEAN]] /\ NEXT_PID \in Nat
  /\ MAPPED \subseteq Slots
  /\ \A i \in MAPPED, j \in Slots : j < i => j \in MAPPED
  /\ \A i \in Slots \ MAPPED : TASK_SLOTS[i].pid = None
  /\ SpawnIsDue => \E i \in MAPPED : TASK_SLOTS[i].pid = None

HangInv == MaskInv /\ CoreInv /\ LockInv /\ PoolInv

(* SlotOf finds the first slot with the pid, or None if there is none. *)
LEMMA SlotOfIsFirst ==
  ASSUME NEW pid
  PROVE  \/ /\ SlotOf(pid) \in Slots /\ TASK_SLOTS[SlotOf(pid)].pid = pid
            /\ \A j \in Slots : TASK_SLOTS[j].pid = pid => SlotOf(pid) <= j
         \/ SlotOf(pid) = None /\ \A i \in Slots : TASK_SLOTS[i].pid # pid
<1> DEFINE S == {i \in Slots : TASK_SLOTS[i].pid = pid}
<1>1. CASE S = {}
  BY <1>1 DEF SlotOf
<1>2. CASE S # {}
  <2>1. S \subseteq Nat
    BY KernelAssumption DEF Slots
  <2>2. PICK m \in S : \A j \in S : ~ (<<j, m>> \in OpToRel(<, Nat))
    BY <1>2, <2>1, NatLessThanWellFounded, WFMin
  <2>3. \A j \in S : ~ (j < m)
    BY <2>1, <2>2 DEF OpToRel
  <2>4. SlotOf(pid) \in S /\ \A j \in S : SlotOf(pid) <= j
    <3>1. \A j \in S : m <= j
      BY <2>1, <2>3
    <3> QED BY <1>2, <3>1 DEF SlotOf
  <2> QED BY <2>4
<1> QED BY <1>1, <1>2

(* A free mapped slot makes the slot a spawn takes a mapped one. *)
LEMMA FirstFreeIsMapped ==
  ASSUME PoolInv, \E i \in MAPPED : TASK_SLOTS[i].pid = None
  PROVE  SlotOf(None) \in MAPPED
<1>1. PICK i \in MAPPED : TASK_SLOTS[i].pid = None
  OBVIOUS
<1>2. i \in Slots /\ i \in Int
  BY KernelAssumption DEF PoolInv, Slots
<1>3. SlotOf(None) \in Slots /\ SlotOf(None) <= i
  BY <1>1, <1>2, SlotOfIsFirst
<1>4. SlotOf(None) \in Int
  BY <1>3, KernelAssumption DEF Slots
<1> QED
  BY <1>2, <1>3, <1>4 DEF PoolInv

(* With the invariant, the only places left are the two. *)
LEMMA HangInvSuffices == HangInv => HangsOnlyInTwoPlaces
<1> SUFFICES ASSUME HangInv, Stuck
             PROVE  /\ isr /\ CURRENT = BOOT_PID
                    /\ \/ held = {"SCHEDULER"} /\ pc \in {"check_exit", "recheck"}
                       \/ TICKS_locked /\ pc = "smp"
  BY DEF HangsOnlyInTwoPlaces
<1>1. CASE isr /\ (TICKS_locked \/ "SCHEDULER" \in held)
  BY <1>1 DEF HangInv, LockInv
<1>2. CASE TaskAt({"a"}) /\ ~InHlt /\ SpawnIsDue /\ held \cap SpawnNeeds # {}
  <2>1. SlotOf(None) \in MAPPED
    BY <1>2, FirstFreeIsMapped DEF HangInv, PoolInv
  <2>2. "SCHEDULER" \notin held
    BY <1>2 DEF TaskAt, HangInv, LockInv
  <2> QED
    BY <1>2, <2>1, <2>2 DEF SpawnNeeds, MapperLocks
<1>3. CASE ~isr /\ ~IFlag /\ InHlt
  BY <1>3 DEF HangInv, MaskInv, CoreInv, InHlt, InInit, BeforeQueue
<1> QED
  BY <1>1, <1>2, <1>3 DEF Stuck

(* Every step: interrupts are masked where they should be, and nowhere     *)
(* else; int 0x80 and the way out of ring 3 leave them enabled.            *)
LEMMA MaskStep == HangInv /\ [BootNext]_kernelVars => MaskInv'
<1> SUFFICES ASSUME HangInv, [BootNext]_kernelVars PROVE MaskInv'
  OBVIOUS
<1> USE DEF HangInv, MaskInv, InInit, BeforeQueue, BootAt
<1>1. CASE EarlyBoot
  BY <1>1 DEF EarlyBoot, context, outside, vars
<1>2. CASE LateBoot
  BY <1>2 DEF LateBoot, outside, vars
<1>3. CASE TakesLocks
  BY <1>3 DEF TakesLocks, context, outside, vars
<1>4. CASE ChecksMemory
  BY <1>4 DEF ChecksMemory, context, outside, vars
<1>5. CASE RunDemoSyscall
  <2>1. R3!EnterRing3 => IFlag'
    BY DEF R3!EnterRing3
  <2>2. IFlag' \/ IFlag' = IFlag
    BY <1>5, <2>1 DEF RunDemoSyscall
  <2>3. pc = "syscall" /\ pc' \in {"ring3", "capability"}
    BY <1>5 DEF RunDemoSyscall
  <2>4. ~isr /\ isr' = isr
    BY <1>5 DEF RunDemoSyscall, outside, vars
  <2> QED
    BY <2>2, <2>3, <2>4
<1>6. CASE RunsProgram
  <2>1. R3!Executes => IFlag' = IFlag
    BY DEF R3!Executes
  <2>2. R3!TrapContinues \/ R3!TrapExits => IFlag'
    BY DEF R3!TrapContinues, R3!TrapExits
  <2>3. IFlag' \/ IFlag' = IFlag
    BY <1>6, <2>1, <2>2 DEF RunsProgram, R3!ProgramStep
  <2> QED
    BY <1>6, <2>3 DEF RunsProgram, flowVars, vars
<1>7. CASE ChecksReport
  BY <1>7 DEF ChecksReport, outside, vars
<1>8. CASE ChecksCapability
  BY <1>8 DEF ChecksCapability, context, outside, vars
<1>9. CASE InitMasksInterrupts
  BY <1>9 DEF InitMasksInterrupts, outside, vars
<1>10. CASE InitSpawns
  <2>1. pc \in InInit /\ pc' \in InInit /\ ~isr /\ isr' = isr /\ IFlag' = IFlag
    BY <1>10, Zenon DEF InitSpawns, outside, vars
  <2> QED
    BY <2>1
<1>11. CASE SchedulerBoot
  BY <1>11 DEF SchedulerBoot, outside, vars
<1>12. CASE SanctumBoot
  BY <1>12 DEF SanctumBoot, context, outside, vars
<1>13. CASE IpcBoot
  BY <1>13 DEF IpcBoot, context, outside, vars
<1>14. CASE HaltsForTicks
  BY <1>14 DEF HaltsForTicks, context, outside, vars
<1>15. CASE ChecksTasks
  BY <1>15 DEF ChecksTasks, context, outside, vars
<1>16. CASE BringsUpAp
  <2>1. isr' = isr
    BY <1>16 DEF BringsUpAp, BspStep, MapsPage, PreparesTrampoline, SendsIpi, TickCountLocks,
       TickCountReturns, PollSucceeds, ChecksOutcome
  <2> QED
    BY <1>16, <2>1 DEF BringsUpAp, flowVars
<1>17. CASE ChecksSmp
  BY <1>17 DEF ChecksSmp, context, outside, vars
<1>18. CASE ChecksBspState
  BY <1>18 DEF ChecksBspState, context, outside, vars
<1>19. CASE ExitQemu
  BY <1>19 DEF ExitQemu, context, outside, vars
<1>20. CASE TaskStep
  BY <1>20 DEF TaskStep, TaskIterates, TaskASpawnsD, TaskCExits, flowVars, vars
<1>21. CASE TakesInterrupt
  BY <1>21 DEF TakesInterrupt, flowVars, vars
<1>22. CASE OnTimerTick
  BY <1>22 DEF OnTimerTick, TimerHandler, WakesUp
<1>23. CASE ApRuns
  BY <1>23 DEF ApRuns, ApWakes, ApReports, ApStarts, ApSurvives, flowVars
<1>24. CASE UNCHANGED kernelVars
  BY <1>24 DEF kernelVars, flowVars, vars
<1> QED
  BY <1>1, <1>2, <1>3, <1>4, <1>5, <1>6, <1>7, <1>8, <1>9, <1>10, <1>11, <1>12, <1>13, <1>14,
     <1>15, <1>16, <1>17, <1>18, <1>19, <1>20, <1>21, <1>22, <1>23, <1>24 DEF BootNext, FlowStep

(* No step of the flow is taken under an interrupt or while a task runs,   *)
(* none touches what belongs to the tasks, and none goes back.             *)
FlowEffects ==
  /\ ~isr /\ CURRENT = BOOT_PID
  /\ UNCHANGED <<CURRENT, TASK_C_EXITED, TASK_D_SPAWNED, COUNTER, cpu_topology>>
  /\ pc' \in BeforeQueue => pc \in BeforeQueue /\ UNCHANGED scheduler_up
  /\ pc' \in InInit => pc \in BeforeQueue \cup InInit

(* That is so for each of kernel_main's steps. *)
LEMMA FlowHasEffects == FlowStep => FlowEffects
<1> SUFFICES ASSUME FlowStep PROVE FlowEffects
  OBVIOUS
<1> USE DEF FlowEffects, InInit, BeforeQueue, BootAt, taskVars, poolVars, cpuVars, demoVars, outside, context
<1>1. CASE EarlyBoot
  BY <1>1 DEF EarlyBoot
<1>2. CASE LateBoot
  BY <1>2 DEF LateBoot
<1>3. CASE TakesLocks
  BY <1>3 DEF TakesLocks, LocksNeeded, MapperLocks
<1>4. CASE ChecksMemory
  BY <1>4 DEF ChecksMemory
<1>5. CASE RunDemoSyscall
  BY <1>5 DEF RunDemoSyscall
<1>6. CASE RunsProgram
  BY <1>6 DEF RunsProgram, flowVars
<1>7. CASE ChecksReport
  BY <1>7 DEF ChecksReport
<1>8. CASE ChecksCapability
  BY <1>8 DEF ChecksCapability
<1>9. CASE InitMasksInterrupts
  BY <1>9 DEF InitMasksInterrupts
<1>10. CASE InitSpawns
  BY <1>10, Zenon DEF InitSpawns
<1>11. CASE SchedulerBoot
  BY <1>11 DEF SchedulerBoot
<1>12. CASE SanctumBoot
  BY <1>12 DEF SanctumBoot
<1>13. CASE IpcBoot
  BY <1>13 DEF IpcBoot
<1>14. CASE HaltsForTicks
  BY <1>14 DEF HaltsForTicks
<1>15. CASE ChecksTasks
  BY <1>15 DEF ChecksTasks
<1>16. CASE BringsUpAp
  BY <1>16 DEF BringsUpAp, flowVars
<1>17. CASE ChecksSmp
  BY <1>17 DEF ChecksSmp
<1>18. CASE ChecksBspState
  BY <1>18 DEF ChecksBspState
<1>19. CASE ExitQemu
  BY <1>19 DEF ExitQemu
<1> QED
  BY <1>1, <1>2, <1>3, <1>4, <1>5, <1>6, <1>7, <1>8, <1>9, <1>10, <1>11, <1>12, <1>13, <1>14,
     <1>15, <1>16, <1>17, <1>18, <1>19 DEF FlowStep

(* Who may hold what a tick needs. *)
LEMMA FlowLocks == HangInv /\ FlowStep =>
  /\ "SCHEDULER" \in held' => TakesLocks
  /\ TICKS_locked' => BringsUpAp
<1> SUFFICES ASSUME HangInv, FlowStep
             PROVE  ("SCHEDULER" \in held' => TakesLocks) /\ (TICKS_locked' => BringsUpAp)
  OBVIOUS
<1> USE DEF HangInv, LockInv, BootAt, outside, vars, bspVars, Unlocks
<1>1. CASE EarlyBoot
  BY <1>1 DEF EarlyBoot
<1>2. CASE LateBoot
  BY <1>2 DEF LateBoot
<1>3. CASE TakesLocks
  BY <1>3 DEF TakesLocks, LocksNeeded, MapperLocks
<1>4. CASE ChecksMemory
  BY <1>4 DEF ChecksMemory
<1>5. CASE RunDemoSyscall
  BY <1>5 DEF RunDemoSyscall
<1>6. CASE RunsProgram
  BY <1>6 DEF RunsProgram, flowVars
<1>7. CASE ChecksReport
  BY <1>7 DEF ChecksReport
<1>8. CASE ChecksCapability
  BY <1>8 DEF ChecksCapability
<1>9. CASE InitMasksInterrupts
  BY <1>9 DEF InitMasksInterrupts
<1>10. CASE InitSpawns
  BY <1>10, Zenon DEF InitSpawns
<1>11. CASE SchedulerBoot
  BY <1>11 DEF SchedulerBoot
<1>12. CASE SanctumBoot
  BY <1>12 DEF SanctumBoot
<1>13. CASE IpcBoot
  BY <1>13 DEF IpcBoot
<1>14. CASE HaltsForTicks
  BY <1>14 DEF HaltsForTicks
<1>15. CASE ChecksTasks
  BY <1>15 DEF ChecksTasks
<1>16. CASE BringsUpAp
  BY <1>16 DEF BringsUpAp, flowVars
<1>17. CASE ChecksSmp
  BY <1>17 DEF ChecksSmp, Waits, Polls
<1>18. CASE ChecksBspState
  BY <1>18 DEF ChecksBspState
<1>19. CASE ExitQemu
  BY <1>19 DEF ExitQemu
<1> QED
  BY <1>1, <1>2, <1>3, <1>4, <1>5, <1>6, <1>7, <1>8, <1>9, <1>10, <1>11, <1>12, <1>13, <1>14,
     <1>15, <1>16, <1>17, <1>18, <1>19 DEF FlowStep

(* Every step: the boot flow has the core until init is done. *)
LEMMA CoreStep == HangInv /\ [BootNext]_kernelVars => CoreInv'
<1> SUFFICES ASSUME HangInv, [BootNext]_kernelVars PROVE CoreInv'
  OBVIOUS
<1> USE DEF HangInv, CoreInv
<1>1. CASE FlowStep
  BY <1>1, FlowHasEffects DEF FlowEffects
<1>2. \A rq, tick : NextToRun(rq, tick) # None
  BY KernelAssumption DEF NextToRun, None, RQ!None
<1>3. CASE TaskStep
  <2>1. CURRENT # BOOT_PID /\ pc' = pc
    BY <1>3 DEF TaskStep, TaskIterates, TaskASpawnsD, TaskCExits, Iterates, TaskAt, flowVars
  <2>2. CURRENT' # None
    BY <1>2, <1>3 DEF TaskStep, TaskIterates, TaskASpawnsD, TaskCExits, cpuVars
  <2> QED
    BY <2>1, <2>2
<1>4. CASE OnTimerTick
  <2>1. pc \notin InInit
    BY <1>4 DEF OnTimerTick, TimerHandler, MaskInv
  <2>2. pc' \in BeforeQueue \cup InInit => pc' = pc
    BY <1>4 DEF OnTimerTick, WakesUp, BeforeQueue, InInit
  <2>3. CURRENT' = IF scheduler_up THEN NextToRun(queue, TICKS') ELSE CURRENT
    BY <1>4 DEF OnTimerTick
  <2>4. UNCHANGED <<scheduler_up, TASK_C_EXITED>>
    BY <1>4 DEF OnTimerTick, demoVars
  <2> QED
    BY <1>2, <2>1, <2>2, <2>3, <2>4
<1>5. CASE TakesInterrupt \/ ApRuns \/ UNCHANGED kernelVars
  BY <1>5 DEF TakesInterrupt, ApRuns, kernelVars, taskVars, cpuVars, poolVars, demoVars, flowVars
<1> QED
  BY <1>1, <1>3, <1>4, <1>5 DEF BootNext

(* Every step: a lock that a tick needs is held by the running boot flow,  *)
(* in the two calls that take one with interrupts enabled.                 *)
LEMMA LockStep == HangInv /\ [BootNext]_kernelVars => LockInv'
<1> SUFFICES ASSUME HangInv, [BootNext]_kernelVars PROVE LockInv'
  OBVIOUS
<1> USE DEF HangInv, LockInv
<1>1. CASE FlowStep
  <2> USE <1>1, FlowLocks, FlowHasEffects DEF FlowEffects
  <2>1. CASE TakesLocks
    <3>1. ("SCHEDULER" \in held') => held' = {"SCHEDULER"} /\ pc \in {"check_exit", "recheck"}
      BY <2>1 DEF TakesLocks, BootAt, LocksNeeded, MapperLocks
    <3>2. pc' = pc /\ TICKS_locked' = TICKS_locked /\ stage' = stage /\ LooksTaskCUp
      BY <2>1 DEF TakesLocks, outside, vars, bspVars
    <3>3. LooksTaskCUp'
      BY <3>2 DEF LooksTaskCUp, TaskCRanOut, BothTasksMadeRealProgress
    <3> QED
      BY <3>1, <3>2, <3>3
  <2>2. CASE BringsUpAp
    <3>1. pc = "smp" /\ pc' = pc /\ held' = held /\ TargetOf(cpu_topology) # None
      BY <2>2 DEF BringsUpAp, BootAt, flowVars
    <3>2. TICKS_locked' => stage' \in Waits \cup Polls
      <4>1. MapsPage \/ PreparesTrampoline => ~TICKS_locked'
        BY DEF MapsPage, PreparesTrampoline, BspAt, Waits, Polls
      <4>s. SendsIpi => ~TICKS_locked'
        BY DEF SendsIpi, BspAt, Waits, Polls, Sends
      <4>2. (TickCountLocks \/ TickCountReturns) /\ TICKS_locked' => stage' \in Waits \cup Polls
        BY DEF TickCountLocks, TickCountReturns, BspAt
      <4>3. PollSucceeds \/ ChecksOutcome => ~TICKS_locked'
        BY DEF PollSucceeds, ChecksOutcome, BspAt, Waits, Polls
      <4> QED
        BY <2>2, <4>1, <4>s, <4>2, <4>3 DEF BringsUpAp, BspStep
    <3> QED
      BY <3>1, <3>2
  <2> QED
    BY <2>1, <2>2
<1>2. CASE TaskStep
  <2>1. CURRENT # BOOT_PID
    BY <1>2 DEF TaskStep, TaskIterates, TaskASpawnsD, TaskCExits, Iterates, TaskAt
  <2>2. held' = held /\ TICKS_locked' = TICKS_locked
    BY <1>2 DEF TaskStep, TaskIterates, TaskASpawnsD, TaskCExits, flowVars, vars, bspVars
  <2> QED
    BY <2>1, <2>2
<1>3. CASE OnTimerTick
  BY <1>3 DEF OnTimerTick, TimerHandler
<1>4. CASE TakesInterrupt \/ ApRuns \/ UNCHANGED kernelVars
  <2>1. UNCHANGED <<held, pc, cpu_topology>>
    BY <1>4 DEF TakesInterrupt, ApRuns, kernelVars, flowVars
  <2>2. UNCHANGED <<CURRENT, COUNTER, TASK_C_EXITED>>
    BY <1>4 DEF TakesInterrupt, ApRuns, kernelVars, taskVars, cpuVars, demoVars
  <2>3. UNCHANGED <<TICKS_locked, stage>>
    BY <1>4 DEF TakesInterrupt, TimerInterrupt, ApRuns, ApWakes, ApReports, ApStarts, ApSurvives,
       kernelVars, vars, bspVars
  <2> QED
    BY <2>1, <2>2, <2>3 DEF LooksTaskCUp, TaskCRanOut, BothTasksMadeRealProgress
<1> QED
  BY <1>1, <1>2, <1>3, <1>4 DEF BootNext

(* What a spawn does to the pool. *)
LEMMA SpawnKeepsPool ==
  ASSUME PoolInv, NEW entry \in Entries, NEW slots, SpawnTask(entry, slots),
         slots \in [Slots -> [pid : Int, entry : Entries, in_hlt : BOOLEAN]],
         \A i \in Slots : slots[i].pid = TASK_SLOTS[i].pid, ~SpawnIsDue'
  PROVE  PoolInv'
<1> DEFINE s == SlotOf(None)
<1>t. Slots' = Slots
  BY DEF Slots
<1>n. NEXT_PID' \in Nat
  BY DEF PoolInv, SpawnTask
<1>1. CASE s = None
  <2>1. TASK_SLOTS' = slots /\ MAPPED' = MAPPED
    BY <1>1 DEF SpawnTask
  <2> QED
    BY <1>n, <1>t, <2>1 DEF PoolInv
<1>2. CASE s # None
  <2>1. s \in Slots /\ \A j \in Slots : TASK_SLOTS[j].pid = None => s <= j
    BY <1>2, SlotOfIsFirst
  <2>2. TASK_SLOTS' = [slots EXCEPT ![s] = [pid |-> NEXT_PID, entry |-> entry, in_hlt |-> FALSE]]
    BY <1>2 DEF SpawnTask
  <2>3. MAPPED' = MAPPED \cup {s}
    BY <1>2 DEF SpawnTask
  <2>4. TASK_SLOTS' \in [Slots -> [pid : Int, entry : Entries, in_hlt : BOOLEAN]]
    BY <2>1, <2>2 DEF PoolInv
  <2>5. \A j \in Slots : j < s => j \in MAPPED
    <3>1. \A j \in Slots : j \in Int
      BY KernelAssumption DEF Slots
    <3> QED
      BY <2>1, <3>1 DEF PoolInv
  <2>6. \A i \in Slots \ MAPPED' : TASK_SLOTS'[i].pid = None
    BY <2>1, <2>2, <2>3 DEF PoolInv
  <2>7. \A i \in MAPPED', j \in Slots : j < i => j \in MAPPED'
    BY <2>3, <2>5 DEF PoolInv
  <2>8. MAPPED' \subseteq Slots
    BY <2>1, <2>3 DEF PoolInv
  <2> QED
    BY <1>n, <1>t, <2>4, <2>6, <2>7, <2>8 DEF PoolInv
<1> QED
  BY <1>1, <1>2

(* What only marks a hlt leaves the pool as it is. *)
LEMMA HltKeepsPool ==
  ASSUME PoolInv, TASK_SLOTS' \in [Slots -> [pid : Int, entry : Entries, in_hlt : BOOLEAN]],
         \A i \in Slots : TASK_SLOTS'[i].pid = TASK_SLOTS[i].pid,
         UNCHANGED <<MAPPED, NEXT_PID, TASK_C_EXITED, TASK_D_SPAWNED>>
  PROVE  PoolInv'
<1>1. Slots' = Slots /\ SpawnIsDue' = SpawnIsDue
  BY DEF Slots, SpawnIsDue
<1> QED
  BY <1>1 DEF PoolInv

(* Entering a hlt or waking from it changes no pid. *)
LEMMA HltMark ==
  ASSUME PoolInv, NEW b \in BOOLEAN, NEW slots,
         slots = [TASK_SLOTS EXCEPT ![RunningSlot].in_hlt = b]
  PROVE  /\ slots \in [Slots -> [pid : Int, entry : Entries, in_hlt : BOOLEAN]]
         /\ \A i \in Slots : slots[i].pid = TASK_SLOTS[i].pid
<1>1. CASE RunningSlot \in Slots
  BY <1>1 DEF PoolInv
<1>2. CASE RunningSlot \notin Slots
  <2>1. slots = TASK_SLOTS
    BY <1>2 DEF PoolInv
  <2> QED
    BY <2>1 DEF PoolInv
<1> QED
  BY <1>1, <1>2

(* Every step: the pool of stacks stays in order. *)
LEMMA PoolStep == HangInv /\ [BootNext]_kernelVars => PoolInv'
<1> SUFFICES ASSUME HangInv, [BootNext]_kernelVars PROVE PoolInv'
  OBVIOUS
<1> USE DEF HangInv
<1>1. CASE InitSpawns
  <2>1. ~SpawnIsDue'
    <3>1. pc \in InInit /\ TASK_C_EXITED' = TASK_C_EXITED
      BY <1>1, Zenon DEF InitSpawns, BootAt, InInit, demoVars
    <3> QED
      BY <3>1 DEF CoreInv, SpawnIsDue
  <2>2. (\E e \in {"a", "b", "c", "e"} : SpawnTask(e, TASK_SLOTS)) \/ UNCHANGED <<NEXT_PID, TASK_SLOTS, MAPPED>>
    BY <1>1, Zenon DEF InitSpawns
  <2>3. CASE UNCHANGED <<NEXT_PID, TASK_SLOTS, MAPPED>>
    BY <2>1, <2>3 DEF PoolInv, Slots
  <2>4. CASE \E e \in {"a", "b", "c", "e"} : SpawnTask(e, TASK_SLOTS)
    <3>1. PICK e \in {"a", "b", "c", "e"} : SpawnTask(e, TASK_SLOTS)
      BY <2>4
    <3>2. e \in Entries
      BY DEF Entries
    <3>3. TASK_SLOTS \in [Slots -> [pid : Int, entry : Entries, in_hlt : BOOLEAN]]
      BY DEF PoolInv
    <3> QED
      BY <2>1, <3>1, <3>2, <3>3, SpawnKeepsPool
  <2> QED
    BY <2>2, <2>3, <2>4
<1>2. CASE TaskIterates
  <2>2. TASK_SLOTS' = [TASK_SLOTS EXCEPT ![RunningSlot].in_hlt = TRUE]
    BY <1>2 DEF TaskIterates, GoesToHlt
  <2>3. UNCHANGED <<MAPPED, NEXT_PID, TASK_C_EXITED, TASK_D_SPAWNED>>
    BY <1>2 DEF TaskIterates
  <2> QED
    BY <2>2, <2>3, HltMark, HltKeepsPool
<1>3. CASE TaskASpawnsD
  <2>2. SpawnTask("d", GoesToHlt(TASK_SLOTS)) /\ ~SpawnIsDue'
    BY <1>3 DEF TaskASpawnsD, SpawnIsDue
  <2>3. GoesToHlt(TASK_SLOTS) = [TASK_SLOTS EXCEPT ![RunningSlot].in_hlt = TRUE]
    BY DEF GoesToHlt
  <2>4. "d" \in Entries
    BY DEF Entries
  <2>5. /\ GoesToHlt(TASK_SLOTS) \in [Slots -> [pid : Int, entry : Entries, in_hlt : BOOLEAN]]
        /\ \A i \in Slots : GoesToHlt(TASK_SLOTS)[i].pid = TASK_SLOTS[i].pid
    BY <2>3, HltMark
  <2> QED
    BY <2>2, <2>4, <2>5, SpawnKeepsPool
<1>4. CASE TaskCExits
  <2> DEFINE s == RunningSlot
  <2>1. s \in Slots /\ TASK_SLOTS[s].pid = CURRENT
    BY <1>4, SlotOfIsFirst DEF TaskCExits, TaskAt, RunningSlot
  <2>2. s \in MAPPED
    BY <2>1 DEF CoreInv, PoolInv
  <2>3. TASK_SLOTS' = [TASK_SLOTS EXCEPT ![s] = EmptySlot] /\ MAPPED' = MAPPED /\ NEXT_PID' = NEXT_PID
    BY <1>4 DEF TaskCExits
  <2>4. EmptySlot \in [pid : Int, entry : Entries, in_hlt : BOOLEAN] /\ EmptySlot.pid = None
    BY DEF EmptySlot, None, Entries
  <2>5. Slots' = Slots
    BY DEF Slots
  <2> QED
    BY <2>1, <2>2, <2>3, <2>4, <2>5 DEF PoolInv
<1>5. CASE OnTimerTick
  <2>1. UNCHANGED <<MAPPED, NEXT_PID, TASK_C_EXITED, TASK_D_SPAWNED>>
    BY <1>5 DEF OnTimerTick, demoVars
  <2>2. CASE CURRENT = BOOT_PID
    <3>1. TASK_SLOTS' = TASK_SLOTS
      BY <1>5, <2>2 DEF OnTimerTick, WakesUp
    <3> QED
      BY <2>1, <3>1, HltKeepsPool DEF PoolInv
  <2>3. CASE CURRENT # BOOT_PID
    <3>1. TASK_SLOTS' = [TASK_SLOTS EXCEPT ![RunningSlot].in_hlt = FALSE]
      BY <1>5, <2>3 DEF OnTimerTick, WakesUp
    <3> QED
      BY <2>1, <2>3, <3>1, HltMark, HltKeepsPool
  <2> QED
    BY <2>2, <2>3
<1>6. CASE UNCHANGED <<TASK_SLOTS, MAPPED, NEXT_PID, TASK_C_EXITED, TASK_D_SPAWNED>>
  BY <1>6, HltKeepsPool DEF PoolInv
<1>7. CASE FlowStep /\ ~InitSpawns
  <2> USE DEF context, taskVars, poolVars, cpuVars, demoVars, outside
  <2>1. EarlyBoot \/ LateBoot \/ TakesLocks \/ ChecksMemory => UNCHANGED <<TASK_SLOTS, MAPPED, NEXT_PID>>
    BY DEF EarlyBoot, LateBoot, TakesLocks, ChecksMemory
  <2>2. RunDemoSyscall \/ RunsProgram \/ ChecksReport => UNCHANGED <<TASK_SLOTS, MAPPED, NEXT_PID>>
    BY DEF RunDemoSyscall, RunsProgram, ChecksReport
  <2>3. ChecksCapability \/ InitMasksInterrupts \/ SchedulerBoot => UNCHANGED <<TASK_SLOTS, MAPPED, NEXT_PID>>
    BY DEF ChecksCapability, InitMasksInterrupts, SchedulerBoot
  <2>4. SanctumBoot => UNCHANGED <<TASK_SLOTS, MAPPED, NEXT_PID>>
    BY DEF SanctumBoot
  <2>5. IpcBoot \/ HaltsForTicks \/ ChecksTasks => UNCHANGED <<TASK_SLOTS, MAPPED, NEXT_PID>>
    BY DEF IpcBoot, HaltsForTicks, ChecksTasks
  <2>6. BringsUpAp \/ ChecksSmp \/ ChecksBspState \/ ExitQemu => UNCHANGED <<TASK_SLOTS, MAPPED, NEXT_PID>>
    BY DEF BringsUpAp, ChecksSmp, ChecksBspState, ExitQemu
  <2>7. UNCHANGED <<TASK_SLOTS, MAPPED, NEXT_PID>>
    BY <1>7, <2>1, <2>2, <2>3, <2>4, <2>5, <2>6 DEF FlowStep
  <2> QED
    BY <1>6, <1>7, <2>7, FlowHasEffects DEF FlowEffects
<1>8. CASE TakesInterrupt \/ ApRuns \/ UNCHANGED kernelVars
  BY <1>6, <1>8 DEF TakesInterrupt, ApRuns, kernelVars, taskVars, poolVars, demoVars
<1> QED
  BY <1>1, <1>2, <1>3, <1>4, <1>5, <1>7, <1>8 DEF BootNext, TaskStep

(* The invariant holds. *)
LEMMA HangInvInit == BootInit => HangInv
<1>1. BootInit => MaskInv /\ CoreInv /\ LockInv
  BY KernelAssumption DEF BootInit, Init, MaskInv, CoreInv, LockInv, BeforeQueue, InInit, None
<1>2. BootInit => PoolInv
  <2>1. EmptySlot \in [pid : Int, entry : Entries, in_hlt : BOOLEAN] /\ EmptySlot.pid = None
    BY DEF EmptySlot, Entries, None
  <2> QED
    BY <2>1 DEF BootInit, PoolInv, SpawnIsDue
<1> QED
  BY <1>1, <1>2 DEF HangInv

(* HangInv holds throughout the boot. *)
LEMMA HangInvHolds == BootSpec => []HangInv
<1>1. HangInv /\ [BootNext]_kernelVars => HangInv'
  BY MaskStep, CoreStep, LockStep, PoolStep DEF HangInv
<1> QED
  BY <1>1, HangInvInit, PTL DEF BootSpec

(* The kernel hangs nowhere but in the two places, whatever the topology,  *)
(* the sizes, the budget and the moments at which the ticks come.          *)
THEOREM HangsAreLocated == BootSpec => []HangsOnlyInTwoPlaces
  BY HangInvHolds, HangInvSuffices, PTL

----------------------------------------------------------------------------
(* The vaults.  What enter_vault can refuse: a vault whose attestation is  *)
(* not that of its configuration.  Neither create_vault nor attest_vault   *)
(* makes one, whatever the checksum, and no vault is lost or changed.      *)
Enterable(m) == \A id \in VM!Vaults(m) : VM!MayEnterVault(m, id)

(* Storing a configuration with its checksum. *)
LEMMA StoreKeepsEnterable ==
  ASSUME NEW m, Enterable(m), NEW i, NEW cfg, NEW n, n.vaults = VM!Store(m, i, cfg)
  PROVE  Enterable(n) /\ VM!Vaults(n) = VM!Vaults(m) \cup {i}
<1>1. VM!Vaults(n) = VM!Vaults(m) \cup {i}
  BY DEF VM!Vaults, VM!Store
<1>2. ASSUME NEW j \in VM!Vaults(n) PROVE VM!MayEnterVault(n, j)
  <2>1. n.vaults[j] = IF j = i THEN [config |-> cfg, attestation_hash |-> Attest(cfg)] ELSE m.vaults[j]
    BY <1>1, <1>2 DEF VM!Store
  <2>2. CASE j = i
    BY <2>1, <2>2, <1>2 DEF VM!MayEnterVault
  <2>3. CASE j # i
    <3>1. VM!MayEnterVault(m, j) /\ n.vaults[j] = m.vaults[j]
      BY <1>1, <1>2, <2>1, <2>3 DEF Enterable
    <3> QED
      BY <1>2, <3>1 DEF VM!MayEnterVault
  <2> QED
    BY <2>2, <2>3
<1> QED
  BY <1>1, <1>2 DEF Enterable

(* Any vault that could be entered can still be entered after a call of    *)
(* create_vault or of attest_vault, and so can the new one.                *)
LEMMA VaultsStayEnterable ==
  ASSUME NEW m, Enterable(m), NEW owner, NEW type, NEW low, NEW high, NEW id
  PROVE  /\ Enterable(VM!CreateVault(m, owner, type, low, high))
         /\ VM!Vaults(m) \subseteq VM!Vaults(VM!CreateVault(m, owner, type, low, high))
         /\ "vaults" \in DOMAIN m => Enterable(VM!AttestVault(m, id))
<1>1. VM!CreateVault(m, owner, type, low, high).vaults =
        VM!Store(m, m.next_vault_id, VM!Config(m.next_vault_id, owner, type, low, high))
  BY DEF VM!CreateVault
<1>2. ASSUME "vaults" \in DOMAIN m PROVE Enterable(VM!AttestVault(m, id))
  <2>1. CASE id \in VM!Vaults(m)
    <3>1. VM!AttestVault(m, id).vaults = VM!Store(m, id, m.vaults[id].config)
      BY <1>2, <2>1 DEF VM!AttestVault
    <3> QED
      BY <3>1, StoreKeepsEnterable
  <2>2. CASE id \notin VM!Vaults(m)
    BY <2>2 DEF VM!AttestVault
  <2> QED
    BY <2>1, <2>2
<1> QED
  BY <1>1, <1>2, StoreKeepsEnterable

----------------------------------------------------------------------------
(* The round trip through ring 3. *)

(* The registers of the kernel that a call must preserve are as they were. *)
CalleeSavedKept == \A r \in R3!Registers \ R3!CallerSaved : regs[r] = R3!KernelRegs[r]

(* What the program has computed when it comes to each of its              *)
(* instructions, whatever the traps have left in the other registers.      *)
ProgramInv ==
  /\ rip \in 2 .. 4 => regs["rax"] = 1
  /\ rip \in 3 .. 4 => regs["rdi"] = 7
  /\ rip = 4 => regs["rsi"] = 8
  /\ rip = 5 => regs["rax"] = 15
  /\ rip \in 6 .. 9 => regs["rbx"] = 15
  /\ rip \in 7 .. 8 => regs["rax"] = 2
  /\ rip = 8 => regs["rdi"] = 1234
  /\ rip = 9 => regs["rax"] = 1234
  /\ rip \in 10 .. 12 => regs["rbx"] = 1249
  /\ rip \in 11 .. 12 => regs["rax"] = 3
  /\ rip = 12 => regs["rdi"] = 1249
  /\ rip \in 13 .. 14 => REPORTED_VALUE = 1249
  /\ rip = 14 => regs["rax"] = 999

BeforeRing3 == {"early_boot", "late_boot", "memory", "syscall"}

(* Until the program runs and after its exit, the kernel's callee-saved    *)
(* registers are its own; while it runs, they are on the kernel's stack.   *)
Ring3Inv ==
  /\ regs \in [R3!Registers -> 0 .. U64 - 1] /\ rip \in 0 .. 14
  /\ pc \in BeforeRing3 => CalleeSavedKept
  /\ pc = "ring3" =>
       \/ rip = 0 /\ REPORTED_VALUE = 1249 /\ CalleeSavedKept
       \/ /\ rip \in 1 .. 14 /\ ProgramInv
          /\ kernel_stack = [i \in DOMAIN R3!CalleeSaved |-> R3!KernelRegs[R3!CalleeSaved[i]]]

(* The registers by name, and the order in which the stub pushes the       *)
(* callee-saved ones.                                                      *)
LEMMA RegistersAre ==
  /\ R3!Registers = {"rbp", "rbx", "r12", "r13", "r14", "r15", "rax", "rcx", "rdx", "rsi", "rdi"}
  /\ R3!CallerSaved = {"rax", "rcx", "rdx", "rsi", "rdi"}
  /\ DOMAIN R3!CalleeSaved = 1 .. 6
  /\ R3!CalleeSaved[1] = "rbp" /\ R3!CalleeSaved[2] = "rbx" /\ R3!CalleeSaved[3] = "r12"
  /\ R3!CalleeSaved[4] = "r13" /\ R3!CalleeSaved[5] = "r14" /\ R3!CalleeSaved[6] = "r15"
<1>1. DOMAIN R3!CalleeSaved = 1 .. 6
  BY DEF R3!CalleeSaved
<1>2. /\ R3!CalleeSaved[1] = "rbp" /\ R3!CalleeSaved[2] = "rbx" /\ R3!CalleeSaved[3] = "r12"
      /\ R3!CalleeSaved[4] = "r13" /\ R3!CalleeSaved[5] = "r14" /\ R3!CalleeSaved[6] = "r15"
  BY DEF R3!CalleeSaved
<1>3. R3!CallerSaved = {"rax", "rcx", "rdx", "rsi", "rdi"}
  BY DEF R3!CallerSaved
<1>4. R3!Registers = {"rbp", "rbx", "r12", "r13", "r14", "r15", "rax", "rcx", "rdx", "rsi", "rdi"}
  <2>1. \A i \in 1 .. 6 : i = 1 \/ i = 2 \/ i = 3 \/ i = 4 \/ i = 5 \/ i = 6
    OBVIOUS
  <2> QED
    BY <1>1, <1>2, <1>3, <2>1 DEF R3!Registers
<1> QED
  BY <1>1, <1>2, <1>3, <1>4

(* The user program, instruction by instruction. *)
Program(i) == R3!USER_PROGRAM[i]

LEMMA ProgramIs ==
  /\ DOMAIN R3!USER_PROGRAM = 1 .. 14
  /\ Program(1).op = "load" /\ Program(1).to = "rax" /\ Program(1).value = 1
  /\ Program(2).op = "load" /\ Program(2).to = "rdi" /\ Program(2).value = 7
  /\ Program(3).op = "load" /\ Program(3).to = "rsi" /\ Program(3).value = 8
  /\ Program(4).op = "int80"
  /\ Program(5).op = "move" /\ Program(5).to = "rbx" /\ Program(5).from = "rax"
  /\ Program(6).op = "load" /\ Program(6).to = "rax" /\ Program(6).value = 2
  /\ Program(7).op = "load" /\ Program(7).to = "rdi" /\ Program(7).value = 1234
  /\ Program(8).op = "int80"
  /\ Program(9).op = "add" /\ Program(9).to = "rbx" /\ Program(9).from = "rax"
  /\ Program(10).op = "load" /\ Program(10).to = "rax" /\ Program(10).value = 3
  /\ Program(11).op = "move" /\ Program(11).to = "rdi" /\ Program(11).from = "rbx"
  /\ Program(12).op = "int80"
  /\ Program(13).op = "load" /\ Program(13).to = "rax" /\ Program(13).value = 999
  /\ Program(14).op = "int80"
  BY DEF Program, R3!USER_PROGRAM, R3!Load, R3!Move, R3!AddTo, R3!Int80, R3!SYS_ADD, R3!SYS_ECHO,
     R3!SYS_REPORT, R3!EXIT_SYSCALL

(* What the kernel has in its registers fits them. *)
LEMMA KernelRegsAreSmall == \A r \in R3!Registers : R3!KernelRegs[r] \in 0 .. U64 - 1
<1> SUFFICES ASSUME NEW r \in R3!Registers PROVE R3!KernelRegs[r] \in 0 .. U64 - 1
  OBVIOUS
<1>0. U64 \in Nat /\ 1249 < U64
  BY KernelAssumption
<1>1. CASE r \in R3!CallerSaved
  BY <1>0, <1>1 DEF R3!KernelRegs
<1>2. CASE r \notin R3!CallerSaved
  <2>1. \E i \in DOMAIN R3!CalleeSaved : R3!CalleeSaved[i] = r
    BY <1>2 DEF R3!Registers
  <2> DEFINE k == CHOOSE i \in DOMAIN R3!CalleeSaved : R3!CalleeSaved[i] = r
  <2>2. k \in 1 .. 6
    BY <2>1, RegistersAre
  <2>3. R3!KernelRegs[r] = k
    BY <1>2 DEF R3!KernelRegs
  <2> HIDE DEF k
  <2> QED
    BY <1>0, <2>2, <2>3
<1> QED
  BY <1>1, <1>2

(* In ring 3 and not at the end yet. *)
InProgram ==
  /\ regs \in [R3!Registers -> 0 .. U64 - 1] /\ rip \in 1 .. 14 /\ ProgramInv
  /\ kernel_stack = [i \in DOMAIN R3!CalleeSaved |-> R3!KernelRegs[R3!CalleeSaved[i]]]

(* An instruction of the program other than a trap. *)
LEMMA ExecutesKeepsProgram == InProgram /\ R3!Executes => InProgram'
<1> SUFFICES ASSUME InProgram, R3!Executes PROVE InProgram'
  OBVIOUS
<1>0. U64 \in Nat /\ 1249 < U64
  BY KernelAssumption
<1>1. /\ rip \in 1 .. 14 /\ Program(rip).op # "int80" /\ rip' = rip + 1
      /\ kernel_stack' = kernel_stack /\ REPORTED_VALUE' = REPORTED_VALUE
  BY DEF R3!Executes, R3!Instruction, InProgram, Program
<1>2. /\ Program(rip).op = "load" => regs' = [regs EXCEPT ![Program(rip).to] = Program(rip).value]
      /\ Program(rip).op = "move" => regs' = [regs EXCEPT ![Program(rip).to] = regs[Program(rip).from]]
      /\ Program(rip).op = "add" =>
           regs' = [regs EXCEPT ![Program(rip).to] = (regs[Program(rip).to] + regs[Program(rip).from]) % U64]
  BY RegistersAre DEF R3!Executes, R3!Instruction, InProgram, Program
<1>3. regs \in [R3!Registers -> 0 .. U64 - 1]
  BY DEF InProgram
<1>4. rip \in {1, 2, 3, 5, 6, 7, 9, 10, 11, 13}
  BY <1>1, ProgramIs
<1>5. CASE rip \in {1, 2, 3, 5}
  <2>1. /\ rip = 1 => regs' = [regs EXCEPT !["rax"] = 1]
        /\ rip = 2 => regs' = [regs EXCEPT !["rdi"] = 7]
        /\ rip = 3 => regs' = [regs EXCEPT !["rsi"] = 8]
        /\ rip = 5 => regs' = [regs EXCEPT !["rbx"] = regs["rax"]]
    BY <1>2, ProgramIs
  <2>2. regs' \in [R3!Registers -> 0 .. U64 - 1]
    BY <1>0, <1>3, <1>5, <2>1, RegistersAre
  <2>3. ProgramInv'
    BY <1>1, <1>3, <1>5, <2>1, RegistersAre DEF InProgram, ProgramInv
  <2> QED
    BY <1>1, <1>5, <2>2, <2>3 DEF InProgram
<1>6. CASE rip \in {6, 7, 10, 11, 13}
  <2>1. /\ rip = 6 => regs' = [regs EXCEPT !["rax"] = 2]
        /\ rip = 7 => regs' = [regs EXCEPT !["rdi"] = 1234]
        /\ rip = 10 => regs' = [regs EXCEPT !["rax"] = 3]
        /\ rip = 11 => regs' = [regs EXCEPT !["rdi"] = regs["rbx"]]
        /\ rip = 13 => regs' = [regs EXCEPT !["rax"] = 999]
    BY <1>2, ProgramIs
  <2>2. regs' \in [R3!Registers -> 0 .. U64 - 1]
    BY <1>0, <1>3, <1>6, <2>1, RegistersAre
  <2>3. ProgramInv'
    BY <1>1, <1>3, <1>6, <2>1, RegistersAre DEF InProgram, ProgramInv
  <2> QED
    BY <1>1, <1>6, <2>2, <2>3 DEF InProgram
<1>7. CASE rip = 9
  <2>1. regs' = [regs EXCEPT !["rbx"] = (regs["rbx"] + regs["rax"]) % U64]
    BY <1>2, <1>7, ProgramIs
  <2>2. regs["rbx"] = 15 /\ regs["rax"] = 1234
    BY <1>7 DEF InProgram, ProgramInv
  <2>3. 1249 % U64 = 1249
    BY <1>0
  <2>s. (regs["rbx"] + regs["rax"]) % U64 = 1249
    BY <2>2, <2>3
  <2>4. regs' = [regs EXCEPT !["rbx"] = 1249]
    BY <2>1, <2>s
  <2>5. regs' \in [R3!Registers -> 0 .. U64 - 1]
    BY <1>0, <1>3, <2>4, RegistersAre
  <2>6. ProgramInv'
    BY <1>1, <1>3, <1>7, <2>4, RegistersAre DEF ProgramInv
  <2> QED
    BY <1>1, <1>7, <2>5, <2>6 DEF InProgram
<1> QED
  BY <1>4, <1>5, <1>6, <1>7

(* What a call finds in its argument registers, and what it returns. *)
LEMMA CallIs ==
  ASSUME InProgram, NEW junk \in {0, U64 - 1}
  PROVE  /\ R3!Shuffle(regs)["rdi"] = regs["rax"] /\ R3!Shuffle(regs)["rsi"] = regs["rdi"]
         /\ R3!AfterCall(R3!Shuffle(regs), junk) \in [R3!Registers -> 0 .. U64 - 1]
         /\ R3!AfterCall(R3!Shuffle(regs), junk)["rbx"] = regs["rbx"]
         /\ rip = 4 => R3!AfterCall(R3!Shuffle(regs), junk)["rax"] = 15
         /\ rip = 8 => R3!AfterCall(R3!Shuffle(regs), junk)["rax"] = 1234
<1> DEFINE s == R3!Shuffle(regs)
<1> USE RegistersAre
<1>0. U64 \in Nat /\ 1249 < U64 /\ regs \in [R3!Registers -> 0 .. U64 - 1]
  BY KernelAssumption DEF InProgram
<1>1. /\ s \in [R3!Registers -> 0 .. U64 - 1] /\ s["rdi"] = regs["rax"] /\ s["rsi"] = regs["rdi"]
      /\ s["rdx"] = regs["rsi"] /\ s["rbx"] = regs["rbx"]
  BY <1>0 DEF R3!Shuffle
<1> HIDE DEF s
<1>2. R3!DispatchSyscall(s) \in 0 .. U64 - 1
  <2>1. s["rsi"] + s["rdx"] \in Nat /\ s["rsi"] \in 0 .. U64 - 1
    BY <1>0, <1>1
  <2>2. (s["rsi"] + s["rdx"]) % U64 \in 0 .. U64 - 1
    BY <1>0, <2>1
  <2>3. U64 - 1 \in 0 .. U64 - 1 /\ 0 \in 0 .. U64 - 1
    BY <1>0
  <2> QED
    BY <2>1, <2>2, <2>3 DEF R3!DispatchSyscall
<1>3. rip = 4 => R3!DispatchSyscall(s) = 15
  <2>1. rip = 4 => s["rdi"] = 1 /\ s["rsi"] = 7 /\ s["rdx"] = 8
    BY <1>1 DEF InProgram, ProgramInv
  <2>2. 15 % U64 = 15
    BY <1>0
  <2> QED
    BY <2>1, <2>2 DEF R3!DispatchSyscall, R3!SYS_ADD, R3!SYS_ECHO, R3!SYS_REPORT, R3!EXIT_SYSCALL
<1>4. rip = 8 => R3!DispatchSyscall(s) = 1234
  BY <1>1 DEF InProgram, ProgramInv, R3!DispatchSyscall, R3!SYS_ADD, R3!SYS_ECHO, R3!SYS_REPORT,
     R3!EXIT_SYSCALL
<1>5. junk \in 0 .. U64 - 1
  BY <1>0
<1> DEFINE c == R3!AfterCall(s, junk)
<1>6. c \in [R3!Registers -> 0 .. U64 - 1] /\ c["rbx"] = s["rbx"] /\ c["rax"] = R3!DispatchSyscall(s)
  BY <1>1, <1>2, <1>5 DEF R3!AfterCall
<1> HIDE DEF c
<1> QED
  BY <1>1, <1>3, <1>4, <1>6 DEF c, s

(* A trap is at one of four places, and only the last one asks to exit. *)
LEMMA TrapsAre == InProgram /\ R3!Trapped => rip \in {4, 8, 12, 14} /\ (regs["rax"] = 999 <=> rip = 14)
<1> SUFFICES ASSUME InProgram, R3!Trapped PROVE rip \in {4, 8, 12, 14} /\ (regs["rax"] = 999 <=> rip = 14)
  OBVIOUS
<1>1. rip \in {4, 8, 12, 14}
  <2>1. Program(rip).op = "int80" /\ rip \in 1 .. 14
    BY DEF R3!Trapped, R3!Instruction, InProgram, Program
  <2> QED
    BY <2>1, ProgramIs
<1> QED
  BY <1>1 DEF InProgram, ProgramInv

(* A system call that returns to the program. *)
LEMMA TrapKeepsProgram == InProgram /\ R3!TrapContinues => InProgram'
<1> SUFFICES ASSUME InProgram, R3!TrapContinues PROVE InProgram'
  OBVIOUS
<1>1. rip \in {4, 8, 12} /\ rip' = rip + 1 /\ kernel_stack' = kernel_stack
  BY TrapsAre DEF R3!TrapContinues, R3!EXIT_SYSCALL
<1>2. PICK junk \in {0, U64 - 1} : regs' = R3!AfterCall(R3!Shuffle(regs), junk)
  BY DEF R3!TrapContinues
<1>3. /\ regs' \in [R3!Registers -> 0 .. U64 - 1] /\ regs'["rbx"] = regs["rbx"]
      /\ rip = 4 => regs'["rax"] = 15
      /\ rip = 8 => regs'["rax"] = 1234
  BY <1>2, CallIs
<1>4. rip = 12 => REPORTED_VALUE' = 1249
  <2>1. R3!Shuffle(regs).rdi = regs["rax"] /\ R3!Shuffle(regs).rsi = regs["rdi"]
    BY <1>2, CallIs
  <2>2. REPORTED_VALUE' = IF R3!Shuffle(regs).rdi = 3 THEN R3!Shuffle(regs).rsi ELSE REPORTED_VALUE
    BY DEF R3!TrapContinues, R3!Trapped, R3!SYS_REPORT
  <2> QED
    BY <2>1, <2>2 DEF InProgram, ProgramInv
<1>5. ProgramInv'
  BY <1>1, <1>3, <1>4 DEF InProgram, ProgramInv
<1> QED
  BY <1>1, <1>3, <1>5 DEF InProgram

(* The last system call: the registers pushed come back, whatever the      *)
(* program and the call left in them.                                      *)
LEMMA ExitRestoresKernel ==
  InProgram /\ R3!TrapExits
    => /\ rip' = 0 /\ REPORTED_VALUE' = 1249 /\ CalleeSavedKept'
       /\ regs' \in [R3!Registers -> 0 .. U64 - 1]
<1> SUFFICES ASSUME InProgram, R3!TrapExits
             PROVE  /\ rip' = 0 /\ REPORTED_VALUE' = 1249 /\ CalleeSavedKept'
                    /\ regs' \in [R3!Registers -> 0 .. U64 - 1]
  OBVIOUS
<1>1. rip = 14 /\ rip' = 0
  BY TrapsAre DEF R3!TrapExits, R3!EXIT_SYSCALL
<1>2. PICK junk \in {0, U64 - 1} : regs' = R3!Popped(R3!AfterCall(R3!Shuffle(regs), junk))
  BY DEF R3!TrapExits
<1>3. REPORTED_VALUE' = 1249
  <2>1. R3!Shuffle(regs).rdi = 999 /\ REPORTED_VALUE = 1249
    BY <1>1, <1>2, CallIs DEF InProgram, ProgramInv
  <2>2. REPORTED_VALUE' = IF R3!Shuffle(regs).rdi = 3 THEN R3!Shuffle(regs).rsi ELSE REPORTED_VALUE
    BY DEF R3!TrapExits, R3!Trapped, R3!SYS_REPORT
  <2> QED
    BY <2>1, <2>2
<1> DEFINE c == R3!AfterCall(R3!Shuffle(regs), junk)
<1>4. c \in [R3!Registers -> 0 .. U64 - 1]
  BY CallIs
<1> HIDE DEF c
<1>5. ASSUME NEW r \in R3!Registers
      PROVE  R3!Popped(c)[r] = IF r \in R3!CallerSaved THEN c[r] ELSE R3!KernelRegs[r]
  <2>1. R3!Popped(c)[r] = IF r \in R3!CallerSaved THEN c[r]
                          ELSE kernel_stack[CHOOSE i \in DOMAIN R3!CalleeSaved : R3!CalleeSaved[i] = r]
    BY <1>5 DEF R3!Popped
  <2>2. ASSUME r \notin R3!CallerSaved
        PROVE  kernel_stack[CHOOSE i \in DOMAIN R3!CalleeSaved : R3!CalleeSaved[i] = r] = R3!KernelRegs[r]
    <3>1. \E i \in DOMAIN R3!CalleeSaved : R3!CalleeSaved[i] = r
      BY <1>5, <2>2 DEF R3!Registers
    <3> DEFINE k == CHOOSE i \in DOMAIN R3!CalleeSaved : R3!CalleeSaved[i] = r
    <3>2. k \in DOMAIN R3!CalleeSaved /\ R3!CalleeSaved[k] = r
      BY <3>1
    <3> HIDE DEF k
    <3>3. kernel_stack[k] = R3!KernelRegs[r]
      BY <3>2 DEF InProgram
    <3> QED
      BY <3>3 DEF k
  <2> QED
    BY <2>1, <2>2
<1>6. regs' = R3!Popped(c) /\ DOMAIN R3!Popped(c) = R3!Registers
  BY <1>2 DEF c, R3!Popped
<1>7. CalleeSavedKept'
  BY <1>5, <1>6 DEF CalleeSavedKept
<1>8. \A r \in R3!Registers : R3!KernelRegs[r] \in 0 .. U64 - 1
  BY KernelRegsAreSmall
<1>9. \A r \in R3!Registers : R3!Popped(c)[r] \in 0 .. U64 - 1
  BY <1>4, <1>5, <1>8
<1>10. R3!Popped(c) = [r \in R3!Registers |-> R3!Popped(c)[r]]
  BY DEF R3!Popped
<1> QED
  BY <1>1, <1>3, <1>6, <1>7, <1>9, <1>10

(* What the ring-3 program has to do with the other steps: nothing. *)
Ring3Quiet ==
  /\ UNCHANGED ring3Vars
  /\ pc' = "ring3" => pc = "ring3"
  /\ pc' \in BeforeRing3 => pc \in BeforeRing3
  /\ pc' \notin BeforeRing3 \cup {"ring3"} => pc \notin BeforeRing3 \cup {"ring3"}

(* Only the demo call, the program and the check of the report touch the   *)
(* registers and the reported value.                                       *)
LEMMA OthersLeaveRing3 ==
  [BootNext]_kernelVars => Ring3Quiet \/ RunDemoSyscall \/ RunsProgram \/ ChecksReport
<1> SUFFICES ASSUME [BootNext]_kernelVars, ~RunDemoSyscall, ~RunsProgram, ~ChecksReport PROVE Ring3Quiet
  OBVIOUS
<1> USE DEF Ring3Quiet, BeforeRing3, BootAt, context
<1>1. CASE EarlyBoot \/ LateBoot \/ TakesLocks
  BY <1>1 DEF EarlyBoot, LateBoot, TakesLocks
<1>2. CASE ChecksMemory \/ ChecksCapability \/ InitMasksInterrupts
  BY <1>2 DEF ChecksMemory, ChecksCapability, InitMasksInterrupts
<1>3. CASE InitSpawns
  BY <1>3, Zenon DEF InitSpawns
<1>4. CASE SchedulerBoot \/ IpcBoot \/ HaltsForTicks
  BY <1>4 DEF SchedulerBoot, IpcBoot, HaltsForTicks
<1>5. CASE SanctumBoot
  BY <1>5 DEF SanctumBoot
<1>6. CASE ChecksTasks \/ ChecksSmp \/ ChecksBspState \/ ExitQemu
  BY <1>6 DEF ChecksTasks, ChecksSmp, ChecksBspState, ExitQemu
<1>7. CASE BringsUpAp \/ TaskStep \/ TakesInterrupt \/ ApRuns
  BY <1>7 DEF BringsUpAp, TaskStep, TaskIterates, TaskASpawnsD, TaskCExits, TakesInterrupt, ApRuns,
     flowVars
<1>8. CASE OnTimerTick
  BY <1>8 DEF OnTimerTick, WakesUp, InHlt
<1>9. CASE UNCHANGED kernelVars
  BY <1>9 DEF kernelVars, flowVars
<1> QED
  BY <1>1, <1>2, <1>3, <1>4, <1>5, <1>6, <1>7, <1>8, <1>9 DEF BootNext, FlowStep

(* Every step of the boot keeps Ring3Inv. *)
LEMMA Ring3Step == Ring3Inv /\ [BootNext]_kernelVars => Ring3Inv'
<1> SUFFICES ASSUME Ring3Inv, [BootNext]_kernelVars PROVE Ring3Inv'
  OBVIOUS
<1>1. CASE Ring3Quiet
  <2>1. UNCHANGED <<regs, rip, kernel_stack, REPORTED_VALUE>>
    BY <1>1 DEF Ring3Quiet, ring3Vars
  <2>2. CalleeSavedKept' = CalleeSavedKept /\ ProgramInv' = ProgramInv
    BY <2>1 DEF CalleeSavedKept, ProgramInv
  <2> QED
    BY <1>1, <2>1, <2>2 DEF Ring3Inv, Ring3Quiet
<1>2. CASE RunDemoSyscall
  <2>1. pc \in BeforeRing3 /\ pc' \in {"ring3", "capability"}
    BY <1>2 DEF RunDemoSyscall, BootAt, BeforeRing3
  <2>2. CASE pc' = "ring3"
    <3>1. R3!EnterRing3
      BY <1>2, <2>2 DEF RunDemoSyscall
    <3>2. regs' = regs /\ rip' = 1
      BY <3>1 DEF R3!EnterRing3
    <3>3. ProgramInv'
      BY <3>2 DEF ProgramInv
    <3>4. kernel_stack' = [i \in DOMAIN R3!CalleeSaved |-> R3!KernelRegs[R3!CalleeSaved[i]]]
      <4>1. kernel_stack' = [i \in DOMAIN R3!CalleeSaved |-> regs[R3!CalleeSaved[i]]]
        BY <3>1 DEF R3!EnterRing3
      <4>2. \A i \in DOMAIN R3!CalleeSaved : R3!CalleeSaved[i] \in R3!Registers \ R3!CallerSaved
        <5>1. \A i \in 1 .. 6 : i = 1 \/ i = 2 \/ i = 3 \/ i = 4 \/ i = 5 \/ i = 6
          OBVIOUS
        <5> QED
          BY <5>1, RegistersAre
      <4>3. \A i \in DOMAIN R3!CalleeSaved : regs[R3!CalleeSaved[i]] = R3!KernelRegs[R3!CalleeSaved[i]]
        BY <2>1, <4>2 DEF Ring3Inv, CalleeSavedKept
      <4> QED
        BY <4>1, <4>3
    <3> QED
      BY <2>2, <3>2, <3>3, <3>4 DEF Ring3Inv, BeforeRing3
  <2>3. CASE pc' = "capability"
    <3>1. regs' = regs /\ rip' = rip
      BY <1>2, <2>3 DEF RunDemoSyscall, ring3Vars
    <3> QED
      BY <2>3, <3>1 DEF Ring3Inv, BeforeRing3
  <2> QED
    BY <2>1, <2>2, <2>3
<1>3. CASE RunsProgram
  <2>1. pc = "ring3" /\ pc' = "ring3" /\ R3!ProgramStep
    BY <1>3 DEF RunsProgram, BootAt, flowVars
  <2>2. rip \in DOMAIN R3!USER_PROGRAM
    BY <2>1 DEF R3!ProgramStep, R3!Executes, R3!TrapContinues, R3!TrapExits, R3!Trapped
  <2>3. rip \in 1 .. 14
    BY <2>2, ProgramIs
  <2>4. InProgram
    BY <2>1, <2>3 DEF Ring3Inv, InProgram
  <2>5. CASE R3!Executes \/ R3!TrapContinues
    <3>1. InProgram'
      BY <2>4, <2>5, ExecutesKeepsProgram, TrapKeepsProgram
    <3> QED
      BY <2>1, <3>1 DEF Ring3Inv, InProgram, BeforeRing3
  <2>6. CASE R3!TrapExits
    BY <2>1, <2>4, <2>6, ExitRestoresKernel DEF Ring3Inv, BeforeRing3
  <2> QED
    BY <2>1, <2>5, <2>6 DEF R3!ProgramStep
<1>4. CASE ChecksReport
  <2>1. pc' = "capability" /\ rip' = rip
    BY <1>4 DEF ChecksReport
  <2>2. regs' = [r \in R3!Registers |-> IF r \in R3!CallerSaved THEN 0 ELSE regs[r]]
    BY <1>4 DEF ChecksReport
  <2>3. regs' \in [R3!Registers -> 0 .. U64 - 1]
    BY <2>2, KernelAssumption DEF Ring3Inv
  <2> QED
    BY <2>1, <2>3 DEF Ring3Inv, BeforeRing3
<1> QED
  BY <1>1, <1>2, <1>3, <1>4, OthersLeaveRing3

(* Ring3Inv holds when the kernel starts. *)
LEMMA Ring3InvInit == BootInit => Ring3Inv
<1>1. BootInit => regs = R3!KernelRegs /\ rip = 0 /\ pc = "early_boot"
  BY DEF BootInit, R3!Ring3Init
<1>2. R3!KernelRegs \in [R3!Registers -> 0 .. U64 - 1]
  BY KernelRegsAreSmall DEF R3!KernelRegs
<1> QED
  BY <1>1, <1>2 DEF Ring3Inv, CalleeSavedKept

(* The round trip through ring 3 holds for every width of the registers    *)
(* that can hold the sum, wherever the ticks come and whatever the calls   *)
(* leave in the registers they may clobber.                                *)
THEOREM Ring3Returns == BootSpec => []Ring3RoundTrip
<1>1. Ring3Inv /\ HangInv => Ring3RoundTrip
  BY DEF Ring3Inv, HangInv, MaskInv, InInit, Ring3RoundTrip, CalleeSavedKept
<1> QED
  BY <1>1, Ring3InvInit, Ring3Step, HangInvHolds, PTL DEF BootSpec

----------------------------------------------------------------------------
(* The run queue that the tasks of the boot are in. *)

(* The kernel's queue: ordinary processes only, and no key without one. *)
QueueOfTasks(rq) ==
  /\ RQ!Queued(rq) \subseteq Nat
  /\ \A q \in RQ!Queued(rq) : rq.processes[q] \in [class : {"Normal"}, deadline : Nat, vruntime : Nat]
  /\ rq.real_time_order = {}
  /\ \A k \in rq.normal_order :
       k \in Nat \X Nat /\ k[2] \in RQ!Queued(rq) /\ k[1] = rq.processes[k[2]].vruntime

(* A new run queue is empty. *)
LEMMA NewQueueIsOfTasks == QueueOfTasks(RQ!NewRunQueue) /\ RQ!Queued(RQ!NewRunQueue) = {}
  BY DEF QueueOfTasks, RQ!NewRunQueue, RQ!Queued

(* add_process of a task with a fresh pid. *)
LEMMA AddKeepsQueue ==
  ASSUME NEW rq, QueueOfTasks(rq), NEW pid \in Nat, pid \notin RQ!Queued(rq)
  PROVE  /\ QueueOfTasks(RQ!AddProcess(rq, pid, SpawnedProcess))
         /\ RQ!Queued(RQ!AddProcess(rq, pid, SpawnedProcess)) = RQ!Queued(rq) \cup {pid}
<1> DEFINE new == RQ!AddProcess(rq, pid, SpawnedProcess)
<1>1. /\ SpawnedProcess \in [class : {"Normal"}, deadline : Nat, vruntime : Nat]
      /\ SpawnedProcess.class = "Normal" /\ SpawnedProcess.vruntime = 0
  BY DEF SpawnedProcess
<1>2. /\ new.processes = [q \in RQ!Queued(rq) \cup {pid} |-> IF q = pid THEN SpawnedProcess ELSE rq.processes[q]]
      /\ new.real_time_order = rq.real_time_order
      /\ new.normal_order = rq.normal_order \cup {<<0, pid>>}
  BY <1>1 DEF RQ!AddProcess, RQ!CfsKey
<1> HIDE DEF new
<1>3. RQ!Queued(new) = RQ!Queued(rq) \cup {pid}
  BY <1>2 DEF RQ!Queued
<1>4. ASSUME NEW k \in new.normal_order
      PROVE  k \in Nat \X Nat /\ k[2] \in RQ!Queued(new) /\ k[1] = new.processes[k[2]].vruntime
  <2>1. CASE k = <<0, pid>>
    BY <1>1, <1>2, <1>3, <2>1
  <2>2. CASE k \in rq.normal_order
    BY <1>2, <1>3, <2>2 DEF QueueOfTasks
  <2> QED
    BY <1>2, <1>4, <2>1, <2>2
<1>5. \A q \in RQ!Queued(new) : new.processes[q] \in [class : {"Normal"}, deadline : Nat, vruntime : Nat]
  BY <1>1, <1>2, <1>3 DEF QueueOfTasks
<1>6. RQ!Queued(new) \subseteq Nat /\ new.real_time_order = {}
  BY <1>2, <1>3 DEF QueueOfTasks
<1>7. QueueOfTasks(new)
  BY <1>4, <1>5, <1>6 DEF QueueOfTasks
<1> QED
  BY <1>3, <1>7 DEF new

(* remove_process. *)
LEMMA RemoveKeepsQueue ==
  ASSUME NEW rq, QueueOfTasks(rq), NEW pid
  PROVE  /\ QueueOfTasks(RQ!RemoveProcess(rq, pid))
         /\ RQ!Queued(RQ!RemoveProcess(rq, pid)) = RQ!Queued(rq) \ {pid}
<1> DEFINE new == RQ!RemoveProcess(rq, pid)
<1>1. CASE pid \notin RQ!Queued(rq)
  BY <1>1 DEF RQ!RemoveProcess
<1>2. CASE pid \in RQ!Queued(rq)
  <2>0. rq.processes[pid] \in [class : {"Normal"}, deadline : Nat, vruntime : Nat]
    BY <1>2 DEF QueueOfTasks
  <2>1. /\ new.processes = [q \in RQ!Queued(rq) \ {pid} |-> rq.processes[q]]
        /\ new.real_time_order \subseteq rq.real_time_order
        /\ new.normal_order = rq.normal_order \ {<<rq.processes[pid].vruntime, pid>>}
    BY <1>2, <2>0 DEF RQ!RemoveProcess, RQ!CfsKey
  <2> HIDE DEF new
  <2>2. RQ!Queued(new) = RQ!Queued(rq) \ {pid}
    BY <2>1 DEF RQ!Queued
  <2>3. ASSUME NEW k \in new.normal_order
        PROVE  k \in Nat \X Nat /\ k[2] \in RQ!Queued(new) /\ k[1] = new.processes[k[2]].vruntime
    <3>1. k \in Nat \X Nat /\ k[2] \in RQ!Queued(rq) /\ k[1] = rq.processes[k[2]].vruntime
      BY <2>1, <2>3 DEF QueueOfTasks
    <3>2. k # <<rq.processes[pid].vruntime, pid>> /\ k = <<k[1], k[2]>>
      BY <2>1, <2>3, <3>1
    <3>3. k[2] # pid
      BY <3>1, <3>2
    <3> QED
      BY <2>1, <2>2, <3>1, <3>3
  <2>4. RQ!Queued(new) \subseteq Nat /\ new.real_time_order = {}
    BY <2>1, <2>2 DEF QueueOfTasks
  <2>5. \A q \in RQ!Queued(new) : new.processes[q] \in [class : {"Normal"}, deadline : Nat, vruntime : Nat]
    BY <2>1, <2>2 DEF QueueOfTasks
  <2>6. QueueOfTasks(new)
    BY <2>3, <2>4, <2>5 DEF QueueOfTasks
  <2> QED
    BY <2>2, <2>6 DEF new
<1> QED
  BY <1>1, <1>2

(* update_vruntime, by the one tick a task has run. *)
LEMMA UpdateKeepsQueue ==
  ASSUME NEW rq, QueueOfTasks(rq), NEW pid
  PROVE  /\ QueueOfTasks(RQ!UpdateVruntime(rq, pid, 1))
         /\ RQ!Queued(RQ!UpdateVruntime(rq, pid, 1)) = RQ!Queued(rq)
<1> DEFINE new == RQ!UpdateVruntime(rq, pid, 1)
<1>1. CASE pid \notin RQ!Normal(rq)
  BY <1>1 DEF RQ!UpdateVruntime
<1>2. CASE pid \in RQ!Normal(rq)
  <2> DEFINE p == rq.processes[pid]
             v == (p.vruntime + 1) % U64
  <2>0. pid \in RQ!Queued(rq) /\ p \in [class : {"Normal"}, deadline : Nat, vruntime : Nat]
    BY <1>2 DEF QueueOfTasks, RQ!Normal
  <2>v. v \in Nat
    BY <2>0, KernelAssumption
  <2>1. /\ new.processes = [rq.processes EXCEPT ![pid] = [p EXCEPT !.vruntime = v]]
        /\ new.real_time_order = rq.real_time_order
        /\ new.normal_order = (rq.normal_order \ {<<p.vruntime, pid>>}) \cup {<<v, pid>>}
    BY <1>2, <2>0 DEF RQ!UpdateVruntime, RQ!CfsKey
  <2>2. RQ!Queued(new) = RQ!Queued(rq)
    BY <2>1 DEF RQ!Queued
  <2>p. [p EXCEPT !.vruntime = v] \in [class : {"Normal"}, deadline : Nat, vruntime : Nat] /\ [p EXCEPT !.vruntime = v].vruntime = v
    BY <2>0, <2>v
  <2> HIDE DEF new, v
  <2>3. ASSUME NEW k \in new.normal_order
        PROVE  k \in Nat \X Nat /\ k[2] \in RQ!Queued(new) /\ k[1] = new.processes[k[2]].vruntime
    <3>1. CASE k = <<v, pid>>
      <4>1. new.processes[pid] = [p EXCEPT !.vruntime = v] /\ pid \in Nat
        BY <2>0, <2>1 DEF RQ!Queued, QueueOfTasks
      <4> QED
        BY <2>0, <2>2, <2>v, <2>p, <3>1, <4>1
    <3>2. CASE k \in rq.normal_order /\ k # <<p.vruntime, pid>>
      <4>1. k \in Nat \X Nat /\ k[2] \in RQ!Queued(rq) /\ k[1] = rq.processes[k[2]].vruntime
        BY <3>2 DEF QueueOfTasks
      <4>2. k[2] # pid
        BY <3>2, <4>1
      <4> QED
        BY <2>1, <2>2, <4>1, <4>2 DEF RQ!Queued
    <3> QED
      BY <2>1, <2>3, <3>1, <3>2
  <2>4. RQ!Queued(new) \subseteq Nat /\ new.real_time_order = {}
    BY <2>1, <2>2 DEF QueueOfTasks
  <2>5. \A q \in RQ!Queued(new) : new.processes[q] \in [class : {"Normal"}, deadline : Nat, vruntime : Nat]
    BY <2>1, <2>2, <2>p DEF QueueOfTasks, RQ!Queued
  <2>6. QueueOfTasks(new)
    BY <2>3, <2>4, <2>5 DEF QueueOfTasks
  <2> QED
    BY <2>2, <2>6 DEF new
<1> QED
  BY <1>1, <1>2

(* The first key of an ordering is one of its keys. *)
LEMMA FirstKeyIsAKey ==
  ASSUME NEW order, order # {}, order \subseteq Nat \X Nat
  PROVE  RQ!FirstKey(order) \in order
<1> DEFINE Less == LexPairOrdering(OpToRel(<, Nat), OpToRel(<, Nat), Nat, Nat)
<1>1. IsWellFoundedOn(Less, Nat \X Nat)
  BY NatLessThanWellFounded, WFLexPairOrdering
<1>2. PICK k \in order : \A j \in order : ~ (<<j, k>> \in Less)
  BY <1>1, WFMin
<1>3. ASSUME NEW j \in order, j # k PROVE RQ!KeyLess(k, j)
  <2>1. /\ j \in Nat \X Nat /\ k \in Nat \X Nat
        /\ j = <<j[1], j[2]>> /\ k = <<k[1], k[2]>>
    OBVIOUS
  <2>2. ~ (j[1] < k[1] \/ (j[1] = k[1] /\ j[2] < k[2]))
    BY <1>2, <2>1 DEF LexPairOrdering, OpToRel
  <2> QED
    BY <1>3, <2>1, <2>2 DEF RQ!KeyLess
<1> QED
  BY <1>3 DEF RQ!FirstKey

(* pick_next_task answers with a task that is queued. *)
LEMMA PickIsOfQueue ==
  ASSUME NEW rq, QueueOfTasks(rq)
  PROVE  RQ!PickNextTask(rq) \in RQ!Queued(rq) \cup {None}
<1> DEFINE order == rq.normal_order
<1>1. CASE order = {}
  BY <1>1 DEF RQ!PickNextTask, QueueOfTasks, RQ!None, None
<1>2. CASE order # {}
  <2>0. order \subseteq Nat \X Nat
    BY DEF QueueOfTasks
  <2>4. RQ!FirstKey(order) \in order
    BY <1>2, <2>0, FirstKeyIsAKey
  <2>5. RQ!PickNextTask(rq) = RQ!FirstKey(order)[2]
    BY <1>2 DEF RQ!PickNextTask, QueueOfTasks
  <2> QED
    BY <2>4, <2>5 DEF QueueOfTasks
<1> QED
  BY <1>1, <1>2

----------------------------------------------------------------------------
(* The whole of the boot: the invariant that its types and its verdict     *)
(* follow from.  It says what is certain at each place of kernel_main.     *)

(* The places of kernel_main once init has returned, and between late boot *)
(* and init.                                                               *)
Finale == {"hlt", "in_hlt", "check_exit", "check_reuse", "smp", "recheck", "verdict", "exited"}
Mid == {"memory", "syscall", "ring3", "capability", "scheduler"}

(* Where kernel_main is tells which phases are complete and which vaults   *)
(* there are.                                                              *)
StoryInv ==
  /\ pc \in Locations
  /\ pc = "early_boot" => completed = {}
  /\ pc = "late_boot" => completed = {"EarlyBoot"}
  /\ pc \in Mid \cup InInit => completed = {"EarlyBoot", "LateBoot"}
  /\ pc = "sanctum" => completed = {"EarlyBoot", "LateBoot", "SchedulerBoot"}
  /\ pc = "ipc" => completed = {"EarlyBoot", "LateBoot", "SchedulerBoot", "SanctumBoot"}
  /\ pc \in Finale => completed = {"EarlyBoot", "LateBoot", "SchedulerBoot", "SanctumBoot", "IpcBoot"}
  /\ pc \in BeforeQueue \cup InInit \cup {"sanctum"} => vaults = VM!NewVaultManager
  /\ pc \in {"ipc"} \cup Finale => vaults = VM!CreateVault(VM!NewVaultManager, 1, "Standard", 4096, 8192)

(* What must have happened for all_passed to be TRUE still. *)
EvidenceInv ==
  /\ all_passed /\ pc \notin BeforeRing3 \cup {"ring3"} => REPORTED_VALUE = 1249
  /\ all_passed /\ pc \in {"recheck", "verdict", "exited"} => stage = "checked" /\ result
  /\ all_passed /\ pc \in {"verdict", "exited"} =>
       /\ TASK_EXIT_SLOT # None /\ TASK_EXIT_SLOT = TASK_D_SPAWN_SLOT
       /\ TASK_C_PID \notin RQ!Queued(queue)
  /\ pc = "exited" => ~isr /\ CURRENT = BOOT_PID
  /\ exit_code = "Success" => pc = "exited" /\ all_passed

(* A slot that a task has. *)
Owned(i) == TASK_SLOTS[i].pid # None

(* The tasks' slots, as they are filled. *)
SlotInv ==
  /\ \A i \in Slots : TASK_SLOTS[i].pid \in None .. NEXT_PID - 1
  /\ \A i \in Slots : TASK_SLOTS[i].entry = "c" => i = 2
  /\ pc \in BeforeQueue \cup {"spawn_a"} => NEXT_PID = 0
  /\ pc = "spawn_b" => NEXT_PID = 1 /\ Owned(0) /\ \A i \in Slots \ {0} : ~Owned(i)
  /\ pc = "spawn_c" => NEXT_PID = 2 /\ Owned(0) /\ Owned(1) /\ \A i \in Slots \ {0, 1} : ~Owned(i)
  /\ pc = "spawn_e" => NEXT_PID = 3
  /\ pc \notin BeforeQueue \cup InInit \/ pc = "scheduler_boot" => NEXT_PID \in 3 .. 5 /\ (~TASK_D_SPAWNED => NEXT_PID <= 4)
  /\ pc \in BeforeQueue \cup InInit => ~TASK_D_SPAWNED
  /\ TASK_EXIT_SLOT \in {None, 2}
  /\ TASK_D_SPAWN_SLOT # None =>
       TASK_D_SPAWNED /\ TASK_D_SPAWN_SLOT \in Slots /\ TASK_SLOTS[TASK_D_SPAWN_SLOT].entry = "d"

(* Every pid in the run queue, and the one that runs, has a slot. *)
QueueInv ==
  /\ QueueOfTasks(queue)
  /\ \A p \in RQ!Queued(queue) : \E i \in Slots : TASK_SLOTS[i].pid = p
  /\ CURRENT = BOOT_PID \/ \E i \in Slots : TASK_SLOTS[i].pid = CURRENT

(* Locks, counters and flags stay within their ranges. *)
CountInv ==
  /\ held \subseteq {"MAPPER", "PHYS", "ALLOCATOR", "SCHEDULER"} 
  /\ halts \in 0 .. Halts /\ (pc = "in_hlt" => halts < Halts)
  /\ all_passed \in BOOLEAN /\ exit_code \in {"none", "Success", "Failed"} /\ IFlag \in BOOLEAN
  /\ TICKS \in 0 .. SWITCH_TICK_BUDGET + 1 /\ early_ticks \in None .. SWITCH_TICK_BUDGET + 1
  /\ COUNTER \in [DOMAIN CountedTo -> Nat]
  /\ \A e \in DOMAIN CountedTo : COUNTER[e] \in 0 .. CountedTo[e]

(* The phases that must be complete before each phase. *)
LEMMA EarlierIs ==
  /\ Boot!Earlier("EarlyBoot") = {}
  /\ Boot!Earlier("LateBoot") = {"EarlyBoot"}
  /\ Boot!Earlier("SchedulerBoot") = {"EarlyBoot", "LateBoot"}
  /\ Boot!Earlier("SanctumBoot") = {"EarlyBoot", "LateBoot", "SchedulerBoot"}
  /\ Boot!Earlier("IpcBoot") = {"EarlyBoot", "LateBoot", "SchedulerBoot", "SanctumBoot"}
  /\ Boot!Phases = {"EarlyBoot", "LateBoot", "SchedulerBoot", "SanctumBoot", "IpcBoot", "SyscallBoot"}
<1> DEFINE O == Boot!ORDER
<1>1. /\ DOMAIN O = 1 .. 6 /\ O[1] = "EarlyBoot" /\ O[2] = "LateBoot" /\ O[3] = "SchedulerBoot"
      /\ O[4] = "SanctumBoot" /\ O[5] = "IpcBoot" /\ O[6] = "SyscallBoot"
  BY DEF Boot!ORDER
<1>2. \A i \in 1 .. 6 : i = 1 \/ i = 2 \/ i = 3 \/ i = 4 \/ i = 5 \/ i = 6
  OBVIOUS
<1> HIDE DEF O
<1>3. ASSUME NEW n \in 1 .. 6 PROVE Boot!Earlier(O[n]) = {O[i] : i \in 1 .. n - 1}
  <2>1. \A i \in DOMAIN O : O[i] = O[n] => i = n
    BY <1>1, <1>2
  <2>2. Boot!Index(O[n]) = n
    BY <1>1, <2>1 DEF Boot!Index, O
  <2>3. {j \in DOMAIN O : j < n} = 1 .. n - 1
    BY <1>1
  <2> QED
    BY <2>2, <2>3 DEF Boot!Earlier, O
<1>4. /\ {O[i] : i \in 1 .. 0} = {} /\ {O[i] : i \in 1 .. 1} = {O[1]} /\ {O[i] : i \in 1 .. 2} = {O[1], O[2]}
      /\ {O[i] : i \in 1 .. 3} = {O[1], O[2], O[3]} /\ {O[i] : i \in 1 .. 4} = {O[1], O[2], O[3], O[4]}
      /\ {O[i] : i \in 1 .. 6} = {O[1], O[2], O[3], O[4], O[5], O[6]}
  OBVIOUS
<1>5. Boot!Earlier(O[1]) = {O[i] : i \in 1 .. 0} /\ Boot!Earlier(O[2]) = {O[i] : i \in 1 .. 1}
  BY <1>3
<1>6. Boot!Earlier(O[3]) = {O[i] : i \in 1 .. 2} /\ Boot!Earlier(O[4]) = {O[i] : i \in 1 .. 3} /\ Boot!Earlier(O[5]) = {O[i] : i \in 1 .. 4}
  BY <1>3
<1>7. Boot!Phases = {O[i] : i \in 1 .. 6}
  BY <1>1 DEF Boot!Phases, O
<1> QED
  BY <1>1, <1>4, <1>5, <1>6, <1>7

(* The steps that complete no phase. *)
LEMMA StoryKept ==
  ASSUME StoryInv, UNCHANGED <<completed, vaults>>, pc' \in Locations,
         \/ pc' = pc
         \/ pc \in Mid \cup InInit /\ pc' \in Mid \cup InInit
         \/ pc \in Finale /\ pc' \in Finale
  PROVE  StoryInv'
  BY DEF StoryInv, Mid, InInit, Finale, BeforeQueue

(* Every step of the boot keeps StoryInv. *)
LEMMA StoryStep == StoryInv /\ [BootNext]_kernelVars => StoryInv'
<1> SUFFICES ASSUME StoryInv, [BootNext]_kernelVars PROVE StoryInv'
  OBVIOUS
<1>l. /\ pc \in Locations
      /\ Mid \cup InInit \cup Finale \cup {"early_boot", "late_boot", "sanctum", "ipc"} \subseteq Locations
  BY DEF StoryInv, Locations, LocksNeeded, Mid, InInit, Finale
<1>1. CASE EarlyBoot
  <2>1. pc = "early_boot" /\ pc' = "late_boot" /\ vaults' = vaults /\ completed' = Boot!Complete(completed, "EarlyBoot")
    BY <1>1 DEF EarlyBoot, BootAt, CompletesPhase
  <2>2. completed' = {"EarlyBoot"}
    <3>1. completed = {}
      BY <2>1 DEF StoryInv
    <3>2. Boot!Earlier("EarlyBoot") = completed /\ "EarlyBoot" \notin completed
      BY <3>1, EarlierIs
    <3> QED
      BY <2>1, <3>1, <3>2 DEF Boot!Complete, Boot!MayComplete
  <2> QED
    BY <1>l, <2>1, <2>2 DEF StoryInv, Mid, InInit, Finale, BeforeQueue
<1>2. CASE LateBoot
  <2>1. pc = "late_boot" /\ pc' = "memory" /\ vaults' = vaults /\ completed' = Boot!Complete(completed, "LateBoot")
    BY <1>2 DEF LateBoot, BootAt, CompletesPhase
  <2>2. completed' = {"EarlyBoot", "LateBoot"}
    <3>1. completed = {"EarlyBoot"}
      BY <2>1 DEF StoryInv
    <3>2. Boot!Earlier("LateBoot") = completed /\ "LateBoot" \notin completed
      BY <3>1, EarlierIs
    <3> QED
      BY <2>1, <3>1, <3>2 DEF Boot!Complete, Boot!MayComplete
  <2> QED
    BY <1>l, <2>1, <2>2 DEF StoryInv, Mid, InInit, Finale, BeforeQueue
<1>3. CASE SchedulerBoot
  <2>1. pc = "scheduler_boot" /\ pc' = "sanctum" /\ vaults' = vaults /\ completed' = Boot!Complete(completed, "SchedulerBoot")
    BY <1>3 DEF SchedulerBoot, BootAt, CompletesPhase
  <2>2. completed' = {"EarlyBoot", "LateBoot", "SchedulerBoot"}
    <3>1. completed = {"EarlyBoot", "LateBoot"}
      BY <2>1 DEF StoryInv, InInit
    <3>2. Boot!Earlier("SchedulerBoot") = completed /\ "SchedulerBoot" \notin completed
      BY <3>1, EarlierIs
    <3> QED
      BY <2>1, <3>1, <3>2 DEF Boot!Complete, Boot!MayComplete
  <2> QED
    BY <1>l, <2>1, <2>2 DEF StoryInv, Mid, InInit, Finale, BeforeQueue
<1>4. CASE SanctumBoot
  <2>1. /\ pc = "sanctum" /\ pc' = "ipc" /\ vaults' = VM!CreateVault(vaults, 1, "Standard", 4096, 8192)
        /\ completed' = Boot!Complete(completed, "SanctumBoot")
    BY <1>4 DEF SanctumBoot, BootAt, CompletesPhase
  <2>2. completed' = {"EarlyBoot", "LateBoot", "SchedulerBoot", "SanctumBoot"}
    <3>1. completed = {"EarlyBoot", "LateBoot", "SchedulerBoot"}
      BY <2>1 DEF StoryInv
    <3>2. Boot!Earlier("SanctumBoot") = completed /\ "SanctumBoot" \notin completed
      BY <3>1, EarlierIs
    <3> QED
      BY <2>1, <3>1, <3>2 DEF Boot!Complete, Boot!MayComplete
  <2>3. vaults' = VM!CreateVault(VM!NewVaultManager, 1, "Standard", 4096, 8192)
    BY <2>1 DEF StoryInv
  <2> QED
    BY <1>l, <2>1, <2>2, <2>3 DEF StoryInv, Mid, InInit, Finale, BeforeQueue
<1>5. CASE IpcBoot
  <2>1. pc = "ipc" /\ pc' = "hlt" /\ vaults' = vaults /\ completed' = Boot!Complete(completed, "IpcBoot")
    BY <1>5 DEF IpcBoot, BootAt, CompletesPhase
  <2>2. completed' = {"EarlyBoot", "LateBoot", "SchedulerBoot", "SanctumBoot", "IpcBoot"}
    <3>1. completed = {"EarlyBoot", "LateBoot", "SchedulerBoot", "SanctumBoot"}
      BY <2>1 DEF StoryInv
    <3>2. Boot!Earlier("IpcBoot") = completed /\ "IpcBoot" \notin completed
      BY <3>1, EarlierIs
    <3> QED
      BY <2>1, <3>1, <3>2 DEF Boot!Complete, Boot!MayComplete
  <2> QED
    BY <1>l, <2>1, <2>2 DEF StoryInv, Mid, InInit, Finale, BeforeQueue
<1> USE DEF BootAt, Mid, InInit, Finale
<1>6. CASE ChecksMemory \/ RunDemoSyscall \/ ChecksReport
  <2>1. UNCHANGED <<completed, vaults>> /\ pc \in Mid /\ pc' \in Mid
    BY <1>6 DEF ChecksMemory, RunDemoSyscall, ChecksReport
  <2> QED
    BY <1>l, <2>1, StoryKept
<1>7. CASE ChecksCapability \/ InitMasksInterrupts
  <2>1. UNCHANGED <<completed, vaults>> /\ pc \in Mid /\ pc' \in Mid \cup InInit
    BY <1>7 DEF ChecksCapability, InitMasksInterrupts
  <2> QED
    BY <1>l, <2>1, StoryKept
<1>8. CASE InitSpawns
  <2>1. UNCHANGED <<completed, vaults>> /\ pc \in InInit /\ pc' \in InInit
    BY <1>8, Zenon DEF InitSpawns
  <2> QED
    BY <1>l, <2>1, StoryKept
<1>9. CASE HaltsForTicks \/ ChecksTasks
  <2>1. UNCHANGED <<completed, vaults>> /\ pc \in Finale /\ pc' \in Finale
    BY <1>9 DEF HaltsForTicks, ChecksTasks
  <2> QED
    BY <1>l, <2>1, StoryKept
<1>10. CASE ChecksSmp \/ ChecksBspState \/ ExitQemu
  <2>1. UNCHANGED <<completed, vaults>> /\ pc \in Finale /\ pc' \in Finale
    BY <1>10 DEF ChecksSmp, ChecksBspState, ExitQemu
  <2> QED
    BY <1>l, <2>1, StoryKept
<1>11. CASE OnTimerTick
  <2>1. UNCHANGED <<completed, vaults>> /\ (pc' = pc \/ (pc = "in_hlt" /\ pc' = "hlt"))
    BY <1>11 DEF OnTimerTick, WakesUp, InHlt
  <2> QED
    BY <1>l, <2>1, StoryKept
<1>12. CASE TakesLocks \/ RunsProgram \/ BringsUpAp
  <2>1. UNCHANGED <<completed, vaults, pc>>
    BY <1>12 DEF TakesLocks, RunsProgram, BringsUpAp, flowVars
  <2> QED
    BY <1>l, <2>1, StoryKept
<1>13. CASE TaskStep \/ TakesInterrupt \/ ApRuns \/ UNCHANGED kernelVars
  <2>1. UNCHANGED <<completed, vaults, pc>>
    BY <1>13 DEF TaskStep, TaskIterates, TaskASpawnsD, TaskCExits, TakesInterrupt, ApRuns,
       kernelVars, flowVars
  <2> QED
    BY <1>l, <2>1, StoryKept
<1> QED
  BY <1>1, <1>2, <1>3, <1>4, <1>5, <1>6, <1>7, <1>8, <1>9, <1>10, <1>11, <1>12, <1>13 DEF BootNext,
     FlowStep

----------------------------------------------------------------------------
(* The slots and the queue, step by step. *)

(* The first five slots are there, and None is not one of them. *)
LEMMA SlotFacts == Slots \subseteq Nat /\ {0, 1, 2, 3, 4} \subseteq Slots /\ None \notin Slots
  BY KernelAssumption DEF Slots, None

(* Entering a hlt or waking from it changes no entry either. *)
LEMMA HltMarkEntry ==
  ASSUME PoolInv, NEW b \in BOOLEAN, NEW slots,
         slots = [TASK_SLOTS EXCEPT ![RunningSlot].in_hlt = b]
  PROVE  \A i \in Slots : slots[i].entry = TASK_SLOTS[i].entry
<1>1. CASE RunningSlot \in Slots
  BY <1>1 DEF PoolInv
<1>2. CASE RunningSlot \notin Slots
  BY <1>2 DEF PoolInv
<1> QED
  BY <1>1, <1>2

(* A spawn draws a pid, and fills the first free slot with it if there is  *)
(* one.                                                                    *)
SpawnFills(entry) ==
  LET s == SlotOf(None) IN
  /\ s \in Slots /\ ~Owned(s) /\ \A j \in Slots : ~Owned(j) => s <= j
  /\ TASK_SLOTS'[s].pid = NEXT_PID /\ TASK_SLOTS'[s].entry = entry
  /\ \A i \in Slots \ {s} : TASK_SLOTS'[i].pid = TASK_SLOTS[i].pid /\ TASK_SLOTS'[i].entry = TASK_SLOTS[i].entry
  /\ queue' = RQ!AddProcess(queue, NEXT_PID, SpawnedProcess)

(* A spawn that finds the pool full leaves slots and queue as they were. *)
SpawnFails ==
  /\ SlotOf(None) = None /\ \A i \in Slots : Owned(i)
  /\ \A i \in Slots : TASK_SLOTS'[i].pid = TASK_SLOTS[i].pid /\ TASK_SLOTS'[i].entry = TASK_SLOTS[i].entry
  /\ queue' = queue

(* spawn_task draws a pid, and either fills the first free slot or fails. *)
LEMMA SpawnEffects ==
  ASSUME PoolInv, NEW entry, NEW slots, SpawnTask(entry, slots),
         slots \in [Slots -> [pid : Int, entry : Entries, in_hlt : BOOLEAN]],
         \A i \in Slots : slots[i].pid = TASK_SLOTS[i].pid /\ slots[i].entry = TASK_SLOTS[i].entry
  PROVE  NEXT_PID' = NEXT_PID + 1 /\ (SpawnFills(entry) \/ SpawnFails)
<1> DEFINE s == SlotOf(None)
<1>1. NEXT_PID' = NEXT_PID + 1
  BY DEF SpawnTask
<1>2. CASE s = None
  <2>1. TASK_SLOTS' = slots /\ queue' = queue
    BY <1>2 DEF SpawnTask
  <2>2. \A i \in Slots : TASK_SLOTS[i].pid # None
    BY <1>2, SlotOfIsFirst, SlotFacts
  <2> QED
    BY <1>1, <1>2, <2>1, <2>2 DEF SpawnFails, Owned
<1>3. CASE s # None
  <2>1. s \in Slots /\ TASK_SLOTS[s].pid = None /\ \A j \in Slots : TASK_SLOTS[j].pid = None => s <= j
    BY <1>3, SlotOfIsFirst
  <2>2. TASK_SLOTS' = [slots EXCEPT ![s] = [pid |-> NEXT_PID, entry |-> entry, in_hlt |-> FALSE]]
    BY <1>3 DEF SpawnTask
  <2>3. queue' = RQ!AddProcess(queue, NEXT_PID, SpawnedProcess)
    BY <1>3 DEF SpawnTask
  <2>4. TASK_SLOTS'[s].pid = NEXT_PID /\ TASK_SLOTS'[s].entry = entry
    BY <2>1, <2>2
  <2>5. \A i \in Slots \ {s} : TASK_SLOTS'[i].pid = TASK_SLOTS[i].pid /\ TASK_SLOTS'[i].entry = TASK_SLOTS[i].entry
    BY <2>1, <2>2
  <2> HIDE DEF s
  <2> QED
    BY <1>1, <2>1, <2>3, <2>4, <2>5 DEF SpawnFills, Owned, s
<1> QED
  BY <1>2, <1>3

(* kernel_main's other steps leave slots and queue alone. *)
FlowLeavesPool ==
  /\ UNCHANGED <<TASK_SLOTS, NEXT_PID, queue, TASK_EXIT_SLOT, TASK_D_SPAWN_SLOT, TASK_D_SPAWNED, CURRENT>>
  /\ \/ pc \in BeforeQueue /\ pc' \in BeforeQueue \cup {"spawn_a"}
     \/ pc \notin BeforeQueue \cup {"spawn_a", "spawn_b", "spawn_c", "spawn_e"} /\ pc' \notin BeforeQueue \cup InInit

(* Of the steps of kernel_main only the spawns of init change the pool. *)
LEMMA FlowAndPool == FlowStep => InitSpawns \/ FlowLeavesPool
<1> SUFFICES ASSUME FlowStep, ~InitSpawns PROVE FlowLeavesPool
  OBVIOUS
<1> USE DEF FlowLeavesPool, BootAt, BeforeQueue, InInit, context, taskVars, poolVars, cpuVars, demoVars
<1>1. CASE EarlyBoot \/ LateBoot
  BY <1>1 DEF EarlyBoot, LateBoot
<1>2. CASE TakesLocks
  BY <1>2 DEF TakesLocks, LocksNeeded
<1>3. CASE ChecksMemory \/ RunDemoSyscall \/ ChecksReport
  BY <1>3 DEF ChecksMemory, RunDemoSyscall, ChecksReport
<1>4. CASE RunsProgram
  BY <1>4 DEF RunsProgram, flowVars
<1>5. CASE ChecksCapability \/ InitMasksInterrupts
  BY <1>5 DEF ChecksCapability, InitMasksInterrupts
<1>6. CASE SchedulerBoot \/ IpcBoot \/ HaltsForTicks
  BY <1>6 DEF SchedulerBoot, IpcBoot, HaltsForTicks
<1>7. CASE SanctumBoot
  BY <1>7 DEF SanctumBoot
<1>8. CASE ChecksTasks
  BY <1>8 DEF ChecksTasks
<1>9. CASE BringsUpAp
  BY <1>9 DEF BringsUpAp, flowVars
<1>10. CASE ChecksSmp \/ ChecksBspState \/ ExitQemu
  BY <1>10 DEF ChecksSmp, ChecksBspState, ExitQemu
<1> QED
  BY <1>1, <1>2, <1>3, <1>4, <1>5, <1>6, <1>7, <1>8, <1>9, <1>10 DEF FlowStep

(* A spawn of init is at one of its four calls. *)
LEMMA InitSpawnsAre ==
  ASSUME InitSpawns
  PROVE  /\ \/ pc = "spawn_a" /\ pc' = "spawn_b" /\ SpawnTask("a", TASK_SLOTS)
            \/ pc = "spawn_b" /\ pc' = "spawn_c" /\ SpawnTask("b", TASK_SLOTS)
            \/ pc = "spawn_c" /\ pc' = "spawn_e" /\ SpawnTask("c", TASK_SLOTS)
            \/ pc = "spawn_e" /\ pc' = "scheduler_boot" /\ SpawnTask("e", TASK_SLOTS)
            \/ pc = "spawn_e" /\ pc' = "scheduler_boot" /\ UNCHANGED <<NEXT_PID, TASK_SLOTS, queue>>
         /\ UNCHANGED <<CURRENT, TASK_D_SPAWNED, TASK_EXIT_SLOT, TASK_D_SPAWN_SLOT>>
<1>1. \/ pc = "spawn_a" /\ pc' = "spawn_b" /\ SpawnTask("a", TASK_SLOTS)
      \/ pc = "spawn_b" /\ pc' = "spawn_c" /\ SpawnTask("b", TASK_SLOTS)
      \/ pc = "spawn_c" /\ pc' = "spawn_e" /\ SpawnTask("c", TASK_SLOTS)
      \/ pc = "spawn_e" /\ pc' = "scheduler_boot" /\ SpawnTask("e", TASK_SLOTS)
      \/ pc = "spawn_e" /\ pc' = "scheduler_boot" /\ UNCHANGED <<NEXT_PID, TASK_SLOTS, queue>>
  BY Zenon DEF InitSpawns, BootAt
<1>2. UNCHANGED <<CURRENT, TASK_D_SPAWNED, TASK_EXIT_SLOT, TASK_D_SPAWN_SLOT>>
  BY Zenon DEF InitSpawns, cpuVars, demoVars
<1> QED
  BY <1>1, <1>2

(* Pids and entries of the slots, and the pid counter, as they were. *)
SamePool ==
  /\ UNCHANGED NEXT_PID
  /\ \A i \in Slots : TASK_SLOTS'[i].pid = TASK_SLOTS[i].pid /\ TASK_SLOTS'[i].entry = TASK_SLOTS[i].entry

(* No task runs before init has returned. *)
LEMMA TasksRunLate == HangInv /\ TaskStep => pc \notin BeforeQueue \cup InInit /\ pc' = pc
<1> SUFFICES ASSUME HangInv, TaskStep PROVE pc \notin BeforeQueue \cup InInit /\ pc' = pc
  OBVIOUS
<1>1. CURRENT # BOOT_PID /\ pc' = pc
  BY DEF TaskStep, TaskIterates, TaskASpawnsD, TaskCExits, Iterates, TaskAt, flowVars
<1> QED
  BY <1>1 DEF HangInv, CoreInv

(* A task's iteration leaves the pool alone. *)
LEMMA IterationKeepsPool == HangInv /\ TaskIterates =>
  SamePool /\ UNCHANGED <<queue, CURRENT, TASK_D_SPAWNED, TASK_EXIT_SLOT, TASK_D_SPAWN_SLOT>>
<1> SUFFICES ASSUME HangInv, TaskIterates
             PROVE SamePool /\ UNCHANGED <<queue, CURRENT, TASK_D_SPAWNED, TASK_EXIT_SLOT, TASK_D_SPAWN_SLOT>>
  OBVIOUS
<1>1. TASK_SLOTS' = [TASK_SLOTS EXCEPT ![RunningSlot].in_hlt = TRUE]
  BY DEF TaskIterates, GoesToHlt
<1>2. UNCHANGED <<NEXT_PID, queue, CURRENT, TASK_D_SPAWNED, TASK_EXIT_SLOT, TASK_D_SPAWN_SLOT>>
  BY DEF TaskIterates, cpuVars
<1> QED
  BY <1>1, <1>2, HltMark, HltMarkEntry DEF SamePool, HangInv

(* So does a tick, which may wake kernel_main from its hlt. *)
LEMMA TickKeepsPool == HangInv /\ OnTimerTick =>
  /\ SamePool /\ UNCHANGED <<TASK_D_SPAWNED, TASK_EXIT_SLOT, TASK_D_SPAWN_SLOT>>
  /\ pc' = pc \/ (pc = "in_hlt" /\ pc' = "hlt")
<1> SUFFICES ASSUME HangInv, OnTimerTick
             PROVE /\ SamePool /\ UNCHANGED <<TASK_D_SPAWNED, TASK_EXIT_SLOT, TASK_D_SPAWN_SLOT>>
                   /\ pc' = pc \/ (pc = "in_hlt" /\ pc' = "hlt")
  OBVIOUS
<1>1. TASK_SLOTS' = IF CURRENT = BOOT_PID THEN TASK_SLOTS
                    ELSE [TASK_SLOTS EXCEPT ![RunningSlot].in_hlt = FALSE]
  BY DEF OnTimerTick, WakesUp
<1>2. UNCHANGED <<NEXT_PID, TASK_D_SPAWNED, TASK_EXIT_SLOT, TASK_D_SPAWN_SLOT>>
  BY DEF OnTimerTick, demoVars
<1>3. pc' = pc \/ (pc = "in_hlt" /\ pc' = "hlt")
  BY DEF OnTimerTick, WakesUp, InHlt
<1> QED
  BY <1>1, <1>2, <1>3, HltMark, HltMarkEntry DEF SamePool, HangInv

(* Task a's spawn of d happens once and notes the slot that was free. *)
LEMMA TaskASpawnIs == HangInv /\ TaskASpawnsD =>
  /\ NEXT_PID' = NEXT_PID + 1 /\ (SpawnFills("d") \/ SpawnFails)
  /\ ~TASK_D_SPAWNED /\ TASK_D_SPAWNED' /\ TASK_D_SPAWN_SLOT' = SlotOf(None) /\ UNCHANGED <<TASK_EXIT_SLOT, CURRENT>>
<1> SUFFICES ASSUME HangInv, TaskASpawnsD
             PROVE  /\ NEXT_PID' = NEXT_PID + 1 /\ (SpawnFills("d") \/ SpawnFails)
                    /\ ~TASK_D_SPAWNED /\ TASK_D_SPAWNED' /\ TASK_D_SPAWN_SLOT' = SlotOf(None)
                    /\ UNCHANGED <<TASK_EXIT_SLOT, CURRENT>>
  OBVIOUS
<1>1. SpawnTask("d", GoesToHlt(TASK_SLOTS))
  BY DEF TaskASpawnsD
<1>2. GoesToHlt(TASK_SLOTS) = [TASK_SLOTS EXCEPT ![RunningSlot].in_hlt = TRUE] /\ PoolInv
  BY DEF GoesToHlt, HangInv
<1>3. /\ GoesToHlt(TASK_SLOTS) \in [Slots -> [pid : Int, entry : Entries, in_hlt : BOOLEAN]]
      /\ \A i \in Slots : GoesToHlt(TASK_SLOTS)[i].pid = TASK_SLOTS[i].pid
  BY <1>2, HltMark
<1>4. \A i \in Slots : GoesToHlt(TASK_SLOTS)[i].entry = TASK_SLOTS[i].entry
  BY <1>2, HltMarkEntry
<1>5. NEXT_PID' = NEXT_PID + 1 /\ (SpawnFills("d") \/ SpawnFails)
  BY <1>1, <1>2, <1>3, <1>4, SpawnEffects
<1>6. ~TASK_D_SPAWNED /\ TASK_D_SPAWNED' /\ TASK_D_SPAWN_SLOT' = SlotOf(None) /\ UNCHANGED <<TASK_EXIT_SLOT, CURRENT>>
  BY DEF TaskASpawnsD, SpawnIsDue, cpuVars
<1> QED
  BY <1>5, <1>6

(* The exit of task c empties its slot, notes which it was, and hands the  *)
(* core on.                                                                *)
LEMMA TaskCExitIs == HangInv /\ TaskCExits =>
  /\ RunningSlot \in Slots /\ TASK_SLOTS[RunningSlot].pid = CURRENT /\ TASK_SLOTS[RunningSlot].entry = "c"
  /\ TASK_SLOTS' = [TASK_SLOTS EXCEPT ![RunningSlot] = EmptySlot]
  /\ queue' = RQ!RemoveProcess(queue, CURRENT) /\ CURRENT' = NextToRun(queue', TICKS)
  /\ TASK_EXIT_SLOT' = RunningSlot /\ UNCHANGED <<NEXT_PID, TASK_D_SPAWNED, TASK_D_SPAWN_SLOT>>
<1>1. TaskCExits => RunningSlot \in Slots /\ TASK_SLOTS[RunningSlot].pid = CURRENT /\ TASK_SLOTS[RunningSlot].entry = "c"
  BY SlotOfIsFirst DEF TaskCExits, TaskAt, RunningSlot
<1> QED
  BY <1>1 DEF TaskCExits

(* Interrupt entry and the second core leave the pool alone. *)
LEMMA RestLeavesPool == TakesInterrupt \/ ApRuns \/ UNCHANGED kernelVars =>
  UNCHANGED <<TASK_SLOTS, NEXT_PID, queue, CURRENT, TASK_D_SPAWNED, TASK_EXIT_SLOT, TASK_D_SPAWN_SLOT, pc>>
  BY DEF TakesInterrupt, ApRuns, kernelVars, taskVars, poolVars, cpuVars, demoVars, flowVars

(* Steps that leave pids, entries and counter of the slots alone. *)
LEMMA SlotsKept ==
  ASSUME SlotInv, SamePool, UNCHANGED <<TASK_D_SPAWNED, TASK_EXIT_SLOT, TASK_D_SPAWN_SLOT>>,
         \/ pc' = pc
         \/ pc \in BeforeQueue /\ pc' \in BeforeQueue \cup {"spawn_a"}
         \/ pc \notin BeforeQueue \cup {"spawn_a", "spawn_b", "spawn_c", "spawn_e"} /\ pc' \notin BeforeQueue \cup InInit
  PROVE  SlotInv'
<1>0. 0 \in Slots /\ 1 \in Slots
  BY SlotFacts
<1>1. \A i \in Slots : Owned(i)' <=> Owned(i)
  BY DEF SamePool, Owned
<1>2. Slots' = Slots
  BY DEF Slots
<1>3. \A i \in Slots : TASK_SLOTS'[i].pid \in None .. NEXT_PID' - 1
  BY DEF SlotInv, SamePool
<1>4. \A i \in Slots : TASK_SLOTS'[i].entry = "c" => i = 2
  BY DEF SlotInv, SamePool
<1>5. TASK_D_SPAWN_SLOT' # None =>
       TASK_D_SPAWNED' /\ TASK_D_SPAWN_SLOT' \in Slots /\ TASK_SLOTS'[TASK_D_SPAWN_SLOT'].entry = "d"
  BY DEF SlotInv, SamePool
<1>6. CASE pc' = pc
  BY <1>0, <1>1, <1>2, <1>3, <1>4, <1>5, <1>6 DEF SlotInv, SamePool, BeforeQueue, InInit, Owned
<1>7. CASE pc \in BeforeQueue /\ pc' \in BeforeQueue \cup {"spawn_a"}
  <2>1. NEXT_PID' = 0 /\ ~TASK_D_SPAWNED' /\ TASK_EXIT_SLOT' \in {None, 2}
    BY <1>7 DEF SlotInv, SamePool
  <2>2. pc' \notin {"spawn_b", "spawn_c", "spawn_e", "scheduler_boot"} /\ pc' \in BeforeQueue \cup InInit
    BY <1>7 DEF BeforeQueue, InInit
  <2> QED
    BY <1>2, <1>3, <1>4, <1>5, <2>1, <2>2 DEF SlotInv
<1>8. CASE pc \notin BeforeQueue \cup {"spawn_a", "spawn_b", "spawn_c", "spawn_e"} /\ pc' \notin BeforeQueue \cup InInit
  <2>1. NEXT_PID' \in 3 .. 5 /\ (~TASK_D_SPAWNED' => NEXT_PID' <= 4) /\ TASK_EXIT_SLOT' \in {None, 2}
    BY <1>8 DEF SlotInv, SamePool, InInit
  <2>2. pc' \notin BeforeQueue \cup {"spawn_a", "spawn_b", "spawn_c", "spawn_e"}
    BY <1>8 DEF InInit
  <2> QED
    BY <1>2, <1>3, <1>4, <1>5, <1>8, <2>1, <2>2 DEF SlotInv
<1> QED
  BY <1>6, <1>7, <1>8

(* A spawn gives out a new pid, and keeps the old ones. *)
LEMMA SpawnKeepsPids ==
  ASSUME SlotInv, PoolInv, NEW entry, NEXT_PID' = NEXT_PID + 1, SpawnFills(entry) \/ SpawnFails
  PROVE  \A i \in Slots : TASK_SLOTS'[i].pid \in None .. NEXT_PID' - 1
<1>0. NEXT_PID \in Nat /\ \A i \in Slots : TASK_SLOTS[i].pid \in None .. NEXT_PID - 1
  BY DEF PoolInv, SlotInv
<1>1. \A i \in Slots : TASK_SLOTS'[i].pid = TASK_SLOTS[i].pid \/ TASK_SLOTS'[i].pid = NEXT_PID
  BY DEF SpawnFills, SpawnFails
<1> QED
  BY <1>0, <1>1 DEF None

(* Every step of the boot keeps SlotInv. *)
LEMMA SlotStep == HangInv /\ SlotInv /\ [BootNext]_kernelVars => SlotInv'
<1> SUFFICES ASSUME HangInv, SlotInv, [BootNext]_kernelVars PROVE SlotInv'
  OBVIOUS
<1>s. Slots' = Slots /\ PoolInv
  BY DEF Slots, HangInv
<1>1. CASE FlowStep /\ ~InitSpawns
  <2>1. FlowLeavesPool
    BY <1>1, FlowAndPool
  <2>2. SamePool /\ UNCHANGED <<TASK_D_SPAWNED, TASK_EXIT_SLOT, TASK_D_SPAWN_SLOT>>
    BY <2>1 DEF FlowLeavesPool, SamePool
  <2> QED
    BY <2>1, <2>2, SlotsKept DEF FlowLeavesPool
<1>2. CASE TaskIterates
  BY <1>2, IterationKeepsPool, SlotsKept, TasksRunLate DEF TaskStep
<1>3. CASE OnTimerTick
  BY <1>3, TickKeepsPool, SlotsKept DEF BeforeQueue, InInit
<1>4. CASE TakesInterrupt \/ ApRuns \/ UNCHANGED kernelVars
  <2>1. SamePool /\ UNCHANGED <<TASK_D_SPAWNED, TASK_EXIT_SLOT, TASK_D_SPAWN_SLOT, pc>>
    BY <1>4, RestLeavesPool DEF SamePool
  <2> QED
    BY <2>1, SlotsKept
<1>5. CASE TaskCExits
  <2> DEFINE s == RunningSlot
  <2>1. /\ s \in Slots /\ TASK_SLOTS[s].entry = "c" /\ TASK_SLOTS' = [TASK_SLOTS EXCEPT ![s] = EmptySlot]
        /\ TASK_EXIT_SLOT' = s /\ UNCHANGED <<NEXT_PID, TASK_D_SPAWNED, TASK_D_SPAWN_SLOT>>
    BY <1>5, TaskCExitIs
  <2>2. pc \notin BeforeQueue \cup InInit /\ pc' = pc
    BY <1>5, TasksRunLate DEF TaskStep
  <2> HIDE DEF s
  <2>3. s = 2
    BY <2>1 DEF SlotInv
  <2>4. EmptySlot.pid = None /\ EmptySlot.entry = "none"
    BY DEF EmptySlot
  <2>5. NEXT_PID' = NEXT_PID /\ NEXT_PID \in Nat /\ TASK_SLOTS \in [Slots -> [pid : Int, entry : Entries, in_hlt : BOOLEAN]]
    BY <1>s, <2>1 DEF PoolInv
  <2>6. \A i \in Slots : TASK_SLOTS'[i].pid \in None .. NEXT_PID' - 1
    <3>1. None \in None .. NEXT_PID - 1
      BY <2>5 DEF None
    <3> QED
      BY <2>1, <2>4, <2>5, <3>1 DEF SlotInv
  <2>7. \A i \in Slots : TASK_SLOTS'[i].entry = "c" => i = 2
    BY <2>1, <2>4, <2>5 DEF SlotInv
  <2>8. TASK_D_SPAWN_SLOT' # None =>
          TASK_D_SPAWNED' /\ TASK_D_SPAWN_SLOT' \in Slots /\ TASK_SLOTS'[TASK_D_SPAWN_SLOT'].entry = "d"
    <3>1. TASK_D_SPAWN_SLOT # None => TASK_D_SPAWN_SLOT # s
      BY <2>1 DEF SlotInv
    <3> QED
      BY <2>1, <2>5, <3>1 DEF SlotInv
  <2>9. NEXT_PID' \in 3 .. 5 /\ (~TASK_D_SPAWNED' => NEXT_PID' <= 4)
    BY <2>1, <2>2 DEF SlotInv
  <2>10. pc' \notin BeforeQueue \cup InInit /\ pc' \notin {"spawn_a", "spawn_b", "spawn_c", "spawn_e"}
    BY <2>2 DEF InInit
  <2> QED
    BY <1>s, <2>1, <2>3, <2>6, <2>7, <2>8, <2>9, <2>10 DEF SlotInv
<1>6. CASE TaskASpawnsD
  <2>1. /\ NEXT_PID' = NEXT_PID + 1 /\ (SpawnFills("d") \/ SpawnFails) /\ ~TASK_D_SPAWNED /\ TASK_D_SPAWNED'
        /\ TASK_D_SPAWN_SLOT' = SlotOf(None) /\ TASK_EXIT_SLOT' = TASK_EXIT_SLOT
    BY <1>6, TaskASpawnIs
  <2>2. pc \notin BeforeQueue \cup InInit /\ pc' = pc
    BY <1>6, TasksRunLate DEF TaskStep
  <2>3. \A i \in Slots : TASK_SLOTS'[i].pid \in None .. NEXT_PID' - 1
    BY <1>s, <2>1, SpawnKeepsPids
  <2>4. \A i \in Slots : TASK_SLOTS'[i].entry = "c" => i = 2
    BY <2>1 DEF SlotInv, SpawnFills, SpawnFails
  <2>5. TASK_D_SPAWN_SLOT' # None =>
          TASK_D_SPAWNED' /\ TASK_D_SPAWN_SLOT' \in Slots /\ TASK_SLOTS'[TASK_D_SPAWN_SLOT'].entry = "d"
    BY <2>1 DEF SpawnFills, SpawnFails
  <2>6. NEXT_PID' \in 3 .. 5
    BY <2>1, <2>2 DEF SlotInv
  <2>7. pc' \notin BeforeQueue \cup InInit /\ pc' \notin {"spawn_a", "spawn_b", "spawn_c", "spawn_e"}
    BY <2>2 DEF InInit
  <2>8. TASK_EXIT_SLOT' \in {None, 2}
    BY <2>1 DEF SlotInv
  <2> QED
    BY <1>s, <2>1, <2>3, <2>4, <2>5, <2>6, <2>7, <2>8 DEF SlotInv
<1>7. CASE InitSpawns
  <2>0. ~TASK_D_SPAWNED' /\ TASK_D_SPAWN_SLOT' = None /\ TASK_EXIT_SLOT' \in {None, 2} /\ pc' \in InInit
    <3>1. pc \in InInit /\ pc' \in InInit
      BY <1>7, InitSpawnsAre DEF InInit
    <3>2. ~TASK_D_SPAWNED /\ TASK_D_SPAWN_SLOT = None /\ TASK_EXIT_SLOT \in {None, 2}
      BY <3>1 DEF SlotInv
    <3> QED
      BY <1>7, <3>1, <3>2, InitSpawnsAre
  <2>t. TASK_SLOTS \in [Slots -> [pid : Int, entry : Entries, in_hlt : BOOLEAN]]
    BY <1>s DEF PoolInv
  <2>f. Slots \subseteq Nat /\ 0 \in Slots /\ 1 \in Slots /\ 2 \in Slots
    BY SlotFacts
  <2>n. None \notin Slots /\ None = -1
    BY SlotFacts DEF None
  <2>1. CASE pc = "spawn_a" /\ pc' = "spawn_b" /\ SpawnTask("a", TASK_SLOTS)
    <3>1. NEXT_PID' = NEXT_PID + 1 /\ (SpawnFills("a") \/ SpawnFails)
      BY <1>s, <2>1, <2>t, SpawnEffects
    <3>2. NEXT_PID = 0 /\ \A i \in Slots : ~Owned(i)
      BY <2>1, <2>n DEF SlotInv, Owned
    <3>3. SpawnFills("a") /\ SlotOf(None) = 0
      <4>1. SpawnFills("a")
        BY <2>f, <3>1, <3>2 DEF SpawnFails
      <4>2. /\ SlotOf(None) \in Slots /\ ~Owned(SlotOf(None))
            /\ \A j \in Slots : ~Owned(j) => SlotOf(None) <= j
        BY <4>1 DEF SpawnFills
      <4> DEFINE t == SlotOf(None)
      <4> HIDE DEF t
      <4>3. t \in Slots /\ ~Owned(t) /\ \A j \in Slots : ~Owned(j) => t <= j
        BY <4>2 DEF t
      <4>4. t \in Nat /\ t = NEXT_PID
        BY <2>f, <3>2, <4>3 DEF Owned
      <4> QED
        BY <3>2, <4>1, <4>4 DEF t
    <3>4. \A i \in Slots : TASK_SLOTS'[i].pid \in None .. NEXT_PID' - 1
      BY <1>s, <3>1, SpawnKeepsPids
    <3>5. \A i \in Slots : TASK_SLOTS'[i].entry = "c" => i = 2
      BY <3>3 DEF SlotInv, SpawnFills
    <3>6. NEXT_PID' = 1 /\ Owned(0)' /\ \A i \in Slots \ {0} : ~Owned(i)'
      BY <2>n, <3>1, <3>2, <3>3 DEF SpawnFills, Owned
    <3> QED
      BY <1>s, <2>0, <2>1, <3>4, <3>5, <3>6 DEF SlotInv, BeforeQueue, Owned
  <2>2. CASE pc = "spawn_b" /\ pc' = "spawn_c" /\ SpawnTask("b", TASK_SLOTS)
    <3>1. NEXT_PID' = NEXT_PID + 1 /\ (SpawnFills("b") \/ SpawnFails)
      BY <1>s, <2>2, <2>t, SpawnEffects
    <3>2. NEXT_PID = 1 /\ Owned(0) /\ \A i \in Slots \ {0} : ~Owned(i)
      BY <2>2 DEF SlotInv
    <3>3. SpawnFills("b") /\ SlotOf(None) = 1
      <4>1. SpawnFills("b")
        BY <2>f, <3>1, <3>2 DEF SpawnFails
      <4>2. /\ SlotOf(None) \in Slots /\ ~Owned(SlotOf(None))
            /\ \A j \in Slots : ~Owned(j) => SlotOf(None) <= j
        BY <4>1 DEF SpawnFills
      <4> DEFINE t == SlotOf(None)
      <4> HIDE DEF t
      <4>3. t \in Slots /\ ~Owned(t) /\ \A j \in Slots : ~Owned(j) => t <= j
        BY <4>2 DEF t
      <4>4. t \in Nat /\ t = NEXT_PID
        BY <2>f, <3>2, <4>3 DEF Owned
      <4> QED
        BY <3>2, <4>1, <4>4 DEF t
    <3>4. \A i \in Slots : TASK_SLOTS'[i].pid \in None .. NEXT_PID' - 1
      BY <1>s, <3>1, SpawnKeepsPids
    <3>5. \A i \in Slots : TASK_SLOTS'[i].entry = "c" => i = 2
      BY <3>3 DEF SlotInv, SpawnFills
    <3>6. NEXT_PID' = 2 /\ Owned(0)' /\ Owned(1)' /\ \A i \in Slots \ {0, 1} : ~Owned(i)'
      BY <2>f, <2>n, <3>1, <3>2, <3>3 DEF SpawnFills, Owned
    <3> QED
      BY <1>s, <2>0, <2>2, <3>4, <3>5, <3>6 DEF SlotInv, BeforeQueue, Owned
  <2>3. CASE pc = "spawn_c" /\ pc' = "spawn_e" /\ SpawnTask("c", TASK_SLOTS)
    <3>1. NEXT_PID' = NEXT_PID + 1 /\ (SpawnFills("c") \/ SpawnFails)
      BY <1>s, <2>3, <2>t, SpawnEffects
    <3>2. NEXT_PID = 2 /\ Owned(0) /\ Owned(1) /\ \A i \in Slots \ {0, 1} : ~Owned(i)
      BY <2>3 DEF SlotInv
    <3>3. SpawnFills("c") /\ SlotOf(None) = 2
      <4>1. SpawnFills("c")
        BY <2>f, <3>1, <3>2 DEF SpawnFails
      <4>2. /\ SlotOf(None) \in Slots /\ ~Owned(SlotOf(None))
            /\ \A j \in Slots : ~Owned(j) => SlotOf(None) <= j
        BY <4>1 DEF SpawnFills
      <4> DEFINE t == SlotOf(None)
      <4> HIDE DEF t
      <4>3. t \in Slots /\ ~Owned(t) /\ \A j \in Slots : ~Owned(j) => t <= j
        BY <4>2 DEF t
      <4>4. t \in Nat /\ t = NEXT_PID
        BY <2>f, <3>2, <4>3 DEF Owned
      <4> QED
        BY <3>2, <4>1, <4>4 DEF t
    <3>4. \A i \in Slots : TASK_SLOTS'[i].pid \in None .. NEXT_PID' - 1
      BY <1>s, <3>1, SpawnKeepsPids
    <3>5. \A i \in Slots : TASK_SLOTS'[i].entry = "c" => i = 2
      BY <3>3 DEF SlotInv, SpawnFills
    <3> QED
      BY <1>s, <2>0, <2>3, <3>1, <3>2, <3>4, <3>5 DEF SlotInv, BeforeQueue
  <2>4. CASE pc = "spawn_e" /\ pc' = "scheduler_boot" /\ SpawnTask("e", TASK_SLOTS)
    <3>1. NEXT_PID' = NEXT_PID + 1 /\ (SpawnFills("e") \/ SpawnFails) /\ NEXT_PID = 3
      BY <1>s, <2>4, <2>t, SpawnEffects DEF SlotInv
    <3>4. \A i \in Slots : TASK_SLOTS'[i].pid \in None .. NEXT_PID' - 1
      BY <1>s, <3>1, SpawnKeepsPids
    <3>5. \A i \in Slots : TASK_SLOTS'[i].entry = "c" => i = 2
      BY <3>1 DEF SlotInv, SpawnFills, SpawnFails
    <3> QED
      BY <1>s, <2>0, <2>4, <3>1, <3>4, <3>5 DEF SlotInv, BeforeQueue
  <2>5. CASE pc = "spawn_e" /\ pc' = "scheduler_boot" /\ UNCHANGED <<NEXT_PID, TASK_SLOTS>>
    <3>1. NEXT_PID' = 3 /\ TASK_SLOTS' = TASK_SLOTS /\ NEXT_PID = 3
      BY <2>5 DEF SlotInv
    <3> QED
      BY <1>s, <2>0, <2>5, <3>1 DEF SlotInv, BeforeQueue
  <2> QED
    BY <1>7, <2>1, <2>2, <2>3, <2>4, <2>5, InitSpawnsAre
<1> QED
  BY <1>1, <1>2, <1>3, <1>4, <1>5, <1>6, <1>7 DEF BootNext, TaskStep

(* Every step of the boot keeps QueueInv. *)
LEMMA QueueStep == HangInv /\ SlotInv /\ QueueInv /\ [BootNext]_kernelVars => QueueInv'
<1> SUFFICES ASSUME HangInv, SlotInv, QueueInv, [BootNext]_kernelVars PROVE QueueInv'
  OBVIOUS
<1>s. Slots' = Slots /\ PoolInv /\ CURRENT # None /\ None = -1
  BY DEF Slots, HangInv, CoreInv, None
<1>g. ASSUME QueueOfTasks(queue'), \A p \in RQ!Queued(queue') : \E i \in Slots : TASK_SLOTS'[i].pid = p,
             CURRENT' = BOOT_PID \/ \E i \in Slots : TASK_SLOTS'[i].pid = CURRENT'
      PROVE  QueueInv'
  <2>1. (QueueOfTasks(queue))' = QueueOfTasks(queue') /\ (RQ!Queued(queue))' = RQ!Queued(queue')
    BY DEF QueueOfTasks, RQ!Queued
  <2> QED
    BY <1>s, <1>g, <2>1 DEF QueueInv
<1>p. ASSUME NEW entry, SpawnFills(entry) \/ SpawnFails, UNCHANGED CURRENT PROVE QueueInv'
  <2>1. \A i \in Slots : Owned(i) => TASK_SLOTS'[i].pid = TASK_SLOTS[i].pid
    BY <1>p DEF SpawnFills, SpawnFails
  <2>2. \A p \in RQ!Queued(queue) : p # None
    BY <1>s DEF QueueInv, QueueOfTasks
  <2>3. \A p \in RQ!Queued(queue) : \E i \in Slots : TASK_SLOTS'[i].pid = p
    BY <2>1, <2>2 DEF QueueInv, Owned
  <2>4. CURRENT' = BOOT_PID \/ \E i \in Slots : TASK_SLOTS'[i].pid = CURRENT'
    BY <1>p, <1>s, <2>1 DEF QueueInv, Owned
  <2>5. CASE SpawnFails
    BY <1>g, <2>3, <2>4, <2>5 DEF SpawnFails, QueueInv
  <2>6. CASE SpawnFills(entry)
    <3>1. NEXT_PID \in Nat
      BY <1>s DEF PoolInv
    <3>2. NEXT_PID \notin RQ!Queued(queue)
      BY <3>1 DEF QueueInv, SlotInv
    <3>3. queue' = RQ!AddProcess(queue, NEXT_PID, SpawnedProcess)
      BY <2>6 DEF SpawnFills
    <3>4. QueueOfTasks(queue') /\ RQ!Queued(queue') = RQ!Queued(queue) \cup {NEXT_PID}
      BY <3>1, <3>2, <3>3, AddKeepsQueue DEF QueueInv
    <3>5. \E i \in Slots : TASK_SLOTS'[i].pid = NEXT_PID
      BY <2>6 DEF SpawnFills
    <3> QED
      BY <1>g, <2>3, <2>4, <3>4, <3>5
  <2> QED
    BY <1>p, <2>5, <2>6
<1>1. CASE UNCHANGED <<TASK_SLOTS, queue, CURRENT>>
  BY <1>1, <1>g DEF QueueInv
<1>2. CASE TaskIterates
  BY <1>2, <1>g, IterationKeepsPool DEF QueueInv, SamePool
<1>3. CASE TaskASpawnsD
  BY <1>3, <1>p, TaskASpawnIs
<1>4. CASE InitSpawns
  <2>1. CASE \E e \in {"a", "b", "c", "e"} : SpawnTask(e, TASK_SLOTS)
    <3>1. PICK e \in {"a", "b", "c", "e"} : SpawnTask(e, TASK_SLOTS)
      BY <2>1
    <3>2. TASK_SLOTS \in [Slots -> [pid : Int, entry : Entries, in_hlt : BOOLEAN]]
      BY <1>s DEF PoolInv
    <3>3. SpawnFills(e) \/ SpawnFails
      BY <1>s, <3>1, <3>2, SpawnEffects
    <3> QED
      BY <1>4, <1>p, <3>3, InitSpawnsAre
  <2> QED
    BY <1>1, <1>4, <2>1, InitSpawnsAre
<1>n. ASSUME NEW rq, QueueOfTasks(rq), NEW t
      PROVE  NextToRun(rq, t) = BOOT_PID \/ NextToRun(rq, t) \in RQ!Queued(rq)
  <2>1. RQ!PickNextTask(rq) \in RQ!Queued(rq) \cup {None}
    BY <1>n, PickIsOfQueue
  <2> QED
    BY <2>1 DEF NextToRun
<1>5. CASE TaskCExits
  <2> DEFINE s == RunningSlot
  <2>1. /\ s \in Slots /\ TASK_SLOTS[s].pid = CURRENT /\ TASK_SLOTS' = [TASK_SLOTS EXCEPT ![s] = EmptySlot]
        /\ queue' = RQ!RemoveProcess(queue, CURRENT) /\ CURRENT' = NextToRun(queue', TICKS)
    BY <1>5, TaskCExitIs
  <2> HIDE DEF s
  <2>2. QueueOfTasks(queue') /\ RQ!Queued(queue') = RQ!Queued(queue) \ {CURRENT}
    BY <2>1, RemoveKeepsQueue DEF QueueInv
  <2>3. \A p \in RQ!Queued(queue') : \E i \in Slots : TASK_SLOTS'[i].pid = p
    <3>1. \A i \in Slots \ {s} : TASK_SLOTS'[i] = TASK_SLOTS[i]
      BY <1>s, <2>1 DEF PoolInv
    <3> QED
      BY <2>1, <2>2, <3>1 DEF QueueInv
  <2>4. CURRENT' = BOOT_PID \/ CURRENT' \in RQ!Queued(queue')
    BY <1>n, <2>1, <2>2
  <2> QED
    BY <1>g, <2>2, <2>3, <2>4
<1>6. CASE OnTimerTick
  <2>1. SamePool
    BY <1>6, TickKeepsPool
  <2>2. queue' = IF CURRENT = BOOT_PID THEN queue ELSE RQ!UpdateVruntime(queue, CURRENT, 1)
    BY <1>6 DEF OnTimerTick
  <2>3. QueueOfTasks(queue') /\ RQ!Queued(queue') = RQ!Queued(queue)
    BY <2>2, UpdateKeepsQueue DEF QueueInv
  <2>4. \A p \in RQ!Queued(queue') : \E i \in Slots : TASK_SLOTS'[i].pid = p
    BY <2>1, <2>3 DEF QueueInv, SamePool
  <2>5. CURRENT' = IF scheduler_up THEN NextToRun(queue, TICKS') ELSE CURRENT
    BY <1>6 DEF OnTimerTick
  <2>6. NextToRun(queue, TICKS') = BOOT_PID \/ NextToRun(queue, TICKS') \in RQ!Queued(queue)
    BY <1>n DEF QueueInv
  <2>7. CURRENT' = BOOT_PID \/ \E i \in Slots : TASK_SLOTS'[i].pid = CURRENT'
    <3>1. CASE CURRENT' = CURRENT
      BY <2>1, <3>1 DEF QueueInv, SamePool
    <3>2. CASE CURRENT' = NextToRun(queue, TICKS')
      BY <2>3, <2>4, <2>6, <3>2
    <3> QED
      BY <2>5, <3>1, <3>2
  <2> QED
    BY <1>g, <2>3, <2>4, <2>7
<1>7. CASE FlowStep /\ ~InitSpawns
  BY <1>1, <1>7, FlowAndPool DEF FlowLeavesPool
<1>8. CASE TakesInterrupt \/ ApRuns \/ UNCHANGED kernelVars
  BY <1>1, <1>8, RestLeavesPool
<1> QED
  BY <1>2, <1>3, <1>4, <1>5, <1>6, <1>7, <1>8 DEF BootNext, TaskStep

----------------------------------------------------------------------------
(* The verdict. *)

(* What the steps of kernel_main do to the verdict. *)
FlowFacts ==
  /\ pc # "exited"
  /\ all_passed' => all_passed
  /\ exit_code' = exit_code \/ ExitQemu
  /\ pc' = "exited" => ExitQemu
  /\ pc' = "verdict" => ChecksBspState
  /\ pc' = "recheck" => ChecksSmp \/ pc = "recheck"
  /\ UNCHANGED <<stage, result, isr>> \/ (BringsUpAp /\ pc = "smp" /\ pc' = "smp" /\ UNCHANGED isr)

(* all_passed, once false, stays false. *)
LEMMA RecordOnlyLowers == ASSUME NEW ok, Record(ok) PROVE all_passed' => all_passed
  BY DEF Record

(* No step of kernel_main raises all_passed. *)
LEMMA FlowOnlyLowers == FlowStep => (all_passed' => all_passed)
<1> SUFFICES ASSUME FlowStep PROVE all_passed' => all_passed
  OBVIOUS
<1>1. CASE UNCHANGED all_passed
  BY <1>1
<1>2. CASE \E ok : Record(ok)
  BY <1>2, RecordOnlyLowers
<1>3. EarlyBoot \/ LateBoot \/ SchedulerBoot \/ IpcBoot => \E ok : Record(ok)
  BY Zenon DEF EarlyBoot, LateBoot, SchedulerBoot, IpcBoot, CompletesPhase
<1>8. SanctumBoot => \E ok : Record(ok)
  BY DEF SanctumBoot, CompletesPhase
<1>4. ChecksMemory \/ RunDemoSyscall \/ ChecksReport \/ ChecksCapability => (\E ok : Record(ok)) \/ UNCHANGED all_passed
  BY Zenon DEF ChecksMemory, RunDemoSyscall, ChecksReport, ChecksCapability
<1>5. ChecksTasks \/ ChecksSmp \/ ChecksBspState => \E ok : Record(ok)
  BY Zenon DEF ChecksTasks, ChecksSmp, ChecksBspState
<1>6. TakesLocks \/ RunsProgram \/ InitMasksInterrupts \/ HaltsForTicks \/ BringsUpAp \/ ExitQemu => UNCHANGED all_passed
  BY DEF TakesLocks, RunsProgram, InitMasksInterrupts, HaltsForTicks, BringsUpAp, ExitQemu, flowVars
<1>7. InitSpawns => UNCHANGED all_passed
  BY Zenon DEF InitSpawns
<1> QED
  BY <1>1, <1>2, <1>3, <1>4, <1>5, <1>6, <1>7, <1>8 DEF FlowStep

(* FlowFacts holds of every step of kernel_main. *)
LEMMA FlowHasFacts == FlowStep => FlowFacts
<1> SUFFICES ASSUME FlowStep PROVE FlowFacts
  OBVIOUS
<1> USE FlowOnlyLowers DEF FlowFacts, BootAt, CompletesPhase, outside, vars, bspVars
<1>1. CASE EarlyBoot \/ LateBoot
  BY <1>1 DEF EarlyBoot, LateBoot
<1>2. CASE TakesLocks
  BY <1>2 DEF TakesLocks, LocksNeeded
<1>3. CASE ChecksMemory \/ RunDemoSyscall \/ ChecksReport
  <2>1. /\ pc \in {"memory", "syscall", "ring3"} /\ pc' \in {"syscall", "ring3", "capability"}
        /\ UNCHANGED <<exit_code, stage, result, isr>>
    BY <1>3 DEF ChecksMemory, RunDemoSyscall, ChecksReport
  <2> QED
    BY <2>1
<1>4. CASE RunsProgram
  BY <1>4 DEF RunsProgram, flowVars
<1>5. CASE ChecksCapability \/ InitMasksInterrupts
  BY <1>5 DEF ChecksCapability, InitMasksInterrupts
<1>6. CASE InitSpawns
  <2>1. /\ pc \in {"spawn_a", "spawn_b", "spawn_c", "spawn_e"} /\ pc' \in {"spawn_b", "spawn_c", "spawn_e", "scheduler_boot"}
        /\ UNCHANGED <<all_passed, exit_code, stage, result, isr>>
    BY <1>6, Zenon DEF InitSpawns
  <2> QED
    BY <2>1
<1>7. CASE SchedulerBoot \/ IpcBoot \/ HaltsForTicks
  BY <1>7 DEF SchedulerBoot, IpcBoot, HaltsForTicks
<1>8. CASE SanctumBoot
  BY <1>8 DEF SanctumBoot
<1>9. CASE ChecksTasks
  BY <1>9 DEF ChecksTasks
<1>10. CASE BringsUpAp
  <2>1. isr' = isr
    BY <1>10 DEF BringsUpAp, BspStep, MapsPage, PreparesTrampoline, SendsIpi, TickCountLocks,
       TickCountReturns, PollSucceeds, ChecksOutcome
  <2> QED
    BY <1>10, <2>1 DEF BringsUpAp, flowVars
<1>11. CASE ChecksSmp \/ ChecksBspState \/ ExitQemu
  BY <1>11 DEF ChecksSmp, ChecksBspState, ExitQemu
<1> QED
  BY <1>1, <1>2, <1>3, <1>4, <1>5, <1>6, <1>7, <1>8, <1>9, <1>10, <1>11 DEF FlowStep

(* Nothing but kernel_main touches the verdict or the result of the bring- *)
(* up.                                                                     *)
LEMMA RestHasFacts == TaskStep \/ TakesInterrupt \/ OnTimerTick \/ ApRuns \/ UNCHANGED kernelVars =>
  /\ UNCHANGED <<all_passed, exit_code, stage, result>>
  /\ pc' = pc \/ (pc = "in_hlt" /\ pc' = "hlt")
<1>1. TaskStep => UNCHANGED <<all_passed, exit_code, stage, result, pc>>
  BY DEF TaskStep, TaskIterates, TaskASpawnsD, TaskCExits, flowVars, vars, bspVars
<1>2. TakesInterrupt => UNCHANGED <<all_passed, exit_code, stage, result, pc>>
  BY DEF TakesInterrupt, TimerInterrupt, flowVars, bspVars
<1>3. OnTimerTick => UNCHANGED <<all_passed, exit_code, stage, result>> /\ (pc' = pc \/ (pc = "in_hlt" /\ pc' = "hlt"))
  BY DEF OnTimerTick, TimerHandler, WakesUp, InHlt
<1>4. ApRuns => UNCHANGED <<all_passed, exit_code, stage, result, pc>>
  BY DEF ApRuns, ApWakes, ApReports, ApStarts, ApSurvives, flowVars, bspVars
<1>5. UNCHANGED kernelVars => UNCHANGED <<all_passed, exit_code, stage, result, pc>>
  BY DEF kernelVars, flowVars, vars, bspVars
<1> QED
  BY <1>1, <1>2, <1>3, <1>4, <1>5

(* When exit_qemu has been called nothing of this moves any more. *)
LEMMA ExitedIsFrozen == EvidenceInv /\ pc = "exited" /\ [BootNext]_kernelVars =>
  UNCHANGED <<pc, isr, CURRENT, all_passed, exit_code>>
<1> SUFFICES ASSUME EvidenceInv, pc = "exited", [BootNext]_kernelVars
             PROVE  UNCHANGED <<pc, isr, CURRENT, all_passed, exit_code>>
  OBVIOUS
<1>1. ~isr /\ CURRENT = BOOT_PID
  BY DEF EvidenceInv
<1>2. ~FlowStep
  BY FlowHasFacts DEF FlowFacts
<1>3. ~TaskStep
  BY <1>1 DEF TaskStep, TaskIterates, TaskASpawnsD, TaskCExits, Iterates, TaskAt
<1>4. ~TakesInterrupt /\ ~OnTimerTick /\ ~ApRuns
  BY <1>1 DEF TakesInterrupt, OnTimerTick, TimerHandler, ApRuns
<1>5. UNCHANGED kernelVars
  BY <1>2, <1>3, <1>4 DEF BootNext
<1> QED
  BY <1>5 DEF kernelVars, flowVars, vars, taskVars, cpuVars

(* Once d has taken the slot of c, with c out of the queue, it stays so. *)
ReuseSeen == TASK_EXIT_SLOT # None /\ TASK_EXIT_SLOT = TASK_D_SPAWN_SLOT /\ TASK_C_PID \notin RQ!Queued(queue)

(* Once the reuse of c's slot has been seen, it stays visible up to the    *)
(* verdict.                                                                *)
LEMMA ReuseIsStable ==
  HangInv /\ SlotInv /\ QueueInv /\ ReuseSeen /\ pc \in {"recheck", "verdict", "exited"} /\ [BootNext]_kernelVars
    => ReuseSeen'
<1> SUFFICES ASSUME HangInv, SlotInv, QueueInv, ReuseSeen, pc \in {"recheck", "verdict", "exited"}, [BootNext]_kernelVars
             PROVE  ReuseSeen'
  OBVIOUS
<1>q. (RQ!Queued(queue))' = RQ!Queued(queue')
  BY DEF RQ!Queued
<1>1. CASE UNCHANGED <<queue, TASK_EXIT_SLOT, TASK_D_SPAWN_SLOT>>
  BY <1>1 DEF ReuseSeen, RQ!Queued
<1>2. TASK_EXIT_SLOT = 2 /\ TASK_D_SPAWN_SLOT = 2 /\ TASK_D_SPAWNED /\ TASK_SLOTS[2].entry = "d"
  BY DEF ReuseSeen, SlotInv
<1>3. CASE FlowStep
  <2>1. ~InitSpawns
    BY InitSpawnsAre
  <2> QED
    BY <1>1, <1>3, <2>1, FlowAndPool DEF FlowLeavesPool
<1>4. CASE TaskStep
  <2>1. ~TaskASpawnsD
    BY <1>2, TaskASpawnIs
  <2>2. ~TaskCExits
    <3>1. TaskCExits => RunningSlot \in Slots /\ TASK_SLOTS[RunningSlot].entry = "c"
      BY TaskCExitIs
    <3>2. TaskCExits => RunningSlot = 2
      BY <3>1 DEF SlotInv
    <3> QED
      BY <1>2, <3>1, <3>2
  <2> QED
    BY <1>1, <1>4, <2>1, <2>2, IterationKeepsPool DEF TaskStep
<1>5. CASE OnTimerTick
  <2>1. queue' = IF CURRENT = BOOT_PID THEN queue ELSE RQ!UpdateVruntime(queue, CURRENT, 1)
    BY <1>5 DEF OnTimerTick
  <2>2. RQ!Queued(queue') = RQ!Queued(queue)
    BY <2>1, UpdateKeepsQueue DEF QueueInv
  <2> QED
    BY <1>5, <1>q, <2>2, TickKeepsPool DEF ReuseSeen, TASK_C_PID
<1>6. CASE TakesInterrupt \/ ApRuns \/ UNCHANGED kernelVars
  BY <1>1, <1>6, RestLeavesPool
<1> QED
  BY <1>3, <1>4, <1>5, <1>6 DEF BootNext

(* Every step of the boot keeps EvidenceInv. *)
LEMMA EvidenceStep ==
  HangInv /\ SlotInv /\ QueueInv /\ EvidenceInv /\ [BootNext]_kernelVars => EvidenceInv'
<1> SUFFICES ASSUME HangInv, SlotInv, QueueInv, EvidenceInv, [BootNext]_kernelVars PROVE EvidenceInv'
  OBVIOUS
<1>0. all_passed' => all_passed
  BY FlowHasFacts, RestHasFacts DEF BootNext, FlowFacts
<1>1. ASSUME all_passed', pc' \notin BeforeRing3 \cup {"ring3"} PROVE REPORTED_VALUE' = 1249
  <2>1. CASE Ring3Quiet
    BY <1>0, <1>1, <2>1 DEF Ring3Quiet, ring3Vars, EvidenceInv
  <2>2. CASE RunDemoSyscall
    <3>1. pc' = "capability" /\ Record(FALSE)
      BY <1>1, <2>2 DEF RunDemoSyscall
    <3> QED
      BY <1>1, <3>1 DEF Record
  <2>3. CASE RunsProgram
    BY <1>1, <2>3 DEF RunsProgram, BootAt, flowVars
  <2>4. CASE ChecksReport
    BY <1>1, <2>4 DEF ChecksReport, Record
  <2> QED
    BY <2>1, <2>2, <2>3, <2>4, OthersLeaveRing3
<1>2. ASSUME all_passed', pc' \in {"recheck", "verdict", "exited"} PROVE stage' = "checked" /\ result'
  <2>1. CASE ChecksSmp
    BY <1>2, <2>1 DEF ChecksSmp, Record, outside, vars, bspVars
  <2>2. CASE FlowStep /\ ~ChecksSmp
    <3>1. UNCHANGED <<stage, result>>
      BY <1>2, <2>2, FlowHasFacts DEF FlowFacts
    <3>2. pc \in {"recheck", "verdict", "exited"}
      <4>1. pc' = "verdict" => pc = "recheck"
        BY <2>2, FlowHasFacts DEF FlowFacts, ChecksBspState, BootAt
      <4>2. pc' = "exited" => pc = "verdict"
        BY <2>2, FlowHasFacts DEF FlowFacts, ExitQemu, BootAt
      <4>3. pc' = "recheck" => pc = "recheck"
        BY <2>2, FlowHasFacts DEF FlowFacts
      <4> QED
        BY <1>2, <4>1, <4>2, <4>3
    <3> QED
      BY <1>0, <1>2, <3>1, <3>2 DEF EvidenceInv
  <2>3. CASE ~FlowStep
    <3>1. UNCHANGED <<stage, result>> /\ (pc' = pc \/ (pc = "in_hlt" /\ pc' = "hlt"))
      BY <2>3, RestHasFacts DEF BootNext
    <3> QED
      BY <1>0, <1>2, <3>1 DEF EvidenceInv
  <2> QED
    BY <2>1, <2>2, <2>3
<1>3. ASSUME all_passed', pc' \in {"verdict", "exited"} PROVE ReuseSeen'
  <2>1. CASE ChecksBspState
    <3>1. pc = "recheck" /\ TaskCReallyExited /\ TaskReusedAGuardedSlot
      BY <1>3, <2>1 DEF ChecksBspState, Record, BootAt
    <3>2. ReuseSeen
      BY <3>1 DEF TaskCReallyExited, TaskReusedAGuardedSlot, ReuseSeen
    <3> QED
      BY <3>1, <3>2, ReuseIsStable
  <2>2. CASE ~ChecksBspState
    <3>1. pc \in {"verdict", "exited"}
      <4>1. CASE FlowStep
        <5>1. ExitQemu => pc = "verdict"
          BY DEF ExitQemu, BootAt
        <5> QED
          BY <1>3, <2>2, <4>1, <5>1, FlowHasFacts DEF FlowFacts
      <4>2. CASE ~FlowStep
        BY <1>3, <4>2, RestHasFacts DEF BootNext
      <4> QED
        BY <4>1, <4>2
    <3>2. ReuseSeen
      BY <1>0, <1>3, <3>1 DEF EvidenceInv, ReuseSeen
    <3> QED
      BY <3>1, <3>2, ReuseIsStable
  <2> QED
    BY <2>1, <2>2
<1>4. pc' = "exited" => ~isr' /\ CURRENT' = BOOT_PID
  <2>1. CASE FlowStep
    <3>1. pc' = "exited" => ExitQemu
      BY <2>1, FlowHasFacts DEF FlowFacts
    <3>2. ExitQemu => ~isr' /\ CURRENT' = BOOT_PID
      BY DEF ExitQemu, BootAt, context, outside, vars, taskVars, cpuVars
    <3> QED
      BY <3>1, <3>2
  <2>2. CASE ~FlowStep
    <3>1. pc' = "exited" => pc = "exited"
      BY <2>2, RestHasFacts DEF BootNext
    <3> QED
      BY <3>1, ExitedIsFrozen DEF EvidenceInv
  <2> QED
    BY <2>1, <2>2
<1>5. exit_code' = "Success" => pc' = "exited" /\ all_passed'
  <2>1. CASE ExitQemu
    BY <2>1 DEF ExitQemu
  <2>2. CASE ~ExitQemu
    <3>1. exit_code' = exit_code
      <4>1. FlowStep => exit_code' = exit_code
        BY <2>2, FlowHasFacts DEF FlowFacts
      <4> QED
        BY <4>1, RestHasFacts DEF BootNext
    <3> QED
      BY <3>1, ExitedIsFrozen DEF EvidenceInv
  <2> QED
    BY <2>1, <2>2
<1> QED
  BY <1>1, <1>2, <1>3, <1>4, <1>5 DEF EvidenceInv, ReuseSeen

(* The locks of KernelMain that outlive a step. *)
Locks == {"MAPPER", "PHYS", "ALLOCATOR", "SCHEDULER"}

(* What the steps of kernel_main do to the locks and counters. *)
FlowBounds ==
  /\ held' \in SUBSET Locks
  /\ halts' = halts /\ TICKS' = TICKS /\ COUNTER' = COUNTER
  /\ pc' = "in_hlt" => pc = "hlt" /\ halts < Halts
  /\ all_passed' \in BOOLEAN /\ exit_code' \in {"none", "Success", "Failed"} /\ IFlag' \in BOOLEAN
  /\ early_ticks' \in {early_ticks, TICKS}

(* What kernel_main takes at each place are such locks. *)
LEMMA LocksNeededAre ==
  ASSUME NEW l \in DOMAIN LocksNeeded PROVE LocksNeeded[l] \in SUBSET Locks
  BY DEF LocksNeeded, MapperLocks, Locks

(* all_passed stays a Boolean. *)
LEMMA RecordIsBoolean == ASSUME NEW ok, Record(ok) PROVE all_passed' \in BOOLEAN
  BY DEF Record

(* FlowBounds holds of every step of kernel_main. *)
LEMMA FlowIsBounded == CountInv /\ FlowStep => FlowBounds
<1> SUFFICES ASSUME CountInv, FlowStep PROVE FlowBounds
  OBVIOUS
<1> USE DEF FlowBounds, BootAt, context, outside, taskVars, poolVars, demoVars
<1>h. held \in SUBSET Locks /\ {} \in SUBSET Locks /\ all_passed \in BOOLEAN /\ IFlag \in BOOLEAN /\ exit_code \in {"none", "Success", "Failed"}
  BY DEF CountInv, Locks
<1>u. Unlocks => held' = {}
  BY DEF Unlocks
<1>1. CASE EarlyBoot \/ LateBoot \/ SchedulerBoot
  <2>1. \E ok : Record(ok)
    BY <1>1 DEF EarlyBoot, LateBoot, SchedulerBoot, CompletesPhase
  <2>2. all_passed' \in BOOLEAN
    BY <2>1, RecordIsBoolean
  <2> QED
    BY <1>1, <1>h, <2>2 DEF EarlyBoot, LateBoot, SchedulerBoot
<1>2. CASE TakesLocks
  <2>1. held' \in SUBSET Locks
    BY <1>2, LocksNeededAre DEF TakesLocks
  <2>2. pc # "in_hlt"
    BY <1>2 DEF TakesLocks, LocksNeeded
  <2> QED
    BY <1>2, <1>h, <2>1, <2>2 DEF TakesLocks
<1>3. CASE ChecksMemory \/ ChecksCapability
  <2>1. all_passed' \in BOOLEAN
    BY <1>3, RecordIsBoolean DEF ChecksMemory, ChecksCapability
  <2> QED
    BY <1>3, <1>h, <1>u, <2>1 DEF ChecksMemory, ChecksCapability
<1>4. CASE RunDemoSyscall
  <2>1. all_passed' \in BOOLEAN
    BY <1>4, <1>h, RecordIsBoolean DEF RunDemoSyscall
  <2>2. R3!EnterRing3 => IFlag' \in BOOLEAN
    BY DEF R3!EnterRing3
  <2> QED
    BY <1>4, <1>h, <2>1, <2>2 DEF RunDemoSyscall
<1>5. CASE RunsProgram
  <2>1. IFlag' \in BOOLEAN
    BY <1>5, <1>h DEF RunsProgram, R3!ProgramStep, R3!Executes, R3!TrapContinues, R3!TrapExits
  <2> QED
    BY <1>5, <1>h, <2>1 DEF RunsProgram, flowVars
<1>6. CASE ChecksReport
  <2>1. all_passed' \in BOOLEAN
    BY <1>6, RecordIsBoolean DEF ChecksReport
  <2> QED
    BY <1>6, <1>h, <2>1 DEF ChecksReport
<1>7. CASE InitMasksInterrupts \/ HaltsForTicks
  BY <1>7, <1>h DEF InitMasksInterrupts, HaltsForTicks
<1>8. CASE InitSpawns
  <2>1. /\ UNCHANGED <<held, halts, TICKS, COUNTER, all_passed, exit_code, IFlag, early_ticks>>
        /\ pc' \in {"spawn_b", "spawn_c", "spawn_e", "scheduler_boot"}
    BY <1>8, Zenon DEF InitSpawns
  <2> QED
    BY <1>h, <2>1
<1>9. CASE SanctumBoot
  <2>1. \E ok : Record(ok)
    BY <1>9 DEF SanctumBoot, CompletesPhase
  <2>2. all_passed' \in BOOLEAN
    BY <2>1, RecordIsBoolean
  <2> QED
    BY <1>9, <1>h, <1>u, <2>2 DEF SanctumBoot
<1>10. CASE IpcBoot
  <2>1. \E ok : Record(ok)
    BY <1>10 DEF IpcBoot, CompletesPhase
  <2>2. all_passed' \in BOOLEAN
    BY <2>1, RecordIsBoolean
  <2> QED
    BY <1>10, <1>h, <1>u, <2>2 DEF IpcBoot
<1>11. CASE ChecksTasks
  <2>1. \E ok : Record(ok)
    BY <1>11, Zenon DEF ChecksTasks
  <2>2. all_passed' \in BOOLEAN
    BY <2>1, RecordIsBoolean
  <2>3. held' \in SUBSET Locks
    BY <1>11, <1>h, <1>u DEF ChecksTasks
  <2>4. pc' \in {"check_exit", "check_reuse", "smp"}
    BY <1>11 DEF ChecksTasks
  <2>5. UNCHANGED <<halts, TICKS, COUNTER, exit_code, IFlag, early_ticks>>
    BY <1>11 DEF ChecksTasks
  <2> QED
    BY <1>h, <2>2, <2>3, <2>4, <2>5
<1>12. CASE BringsUpAp
  BY <1>12, <1>h DEF BringsUpAp, flowVars
<1>13. CASE ChecksSmp
  <2>1. all_passed' \in BOOLEAN
    BY <1>13, RecordIsBoolean DEF ChecksSmp
  <2> QED
    BY <1>13, <1>h, <2>1 DEF ChecksSmp
<1>14. CASE ChecksBspState
  <2>1. \E ok : Record(ok)
    BY <1>14, Zenon DEF ChecksBspState
  <2>2. all_passed' \in BOOLEAN
    BY <2>1, RecordIsBoolean
  <2>3. held' \in SUBSET Locks
    BY <1>14, <1>h, <1>u DEF ChecksBspState
  <2>5. UNCHANGED <<halts, TICKS, COUNTER, exit_code, IFlag, early_ticks>> /\ pc' = "verdict"
    BY <1>14 DEF ChecksBspState
  <2> QED
    BY <1>h, <2>2, <2>3, <2>5
<1>15. CASE ExitQemu
  BY <1>15, <1>h DEF ExitQemu
<1> QED
  BY <1>1, <1>2, <1>3, <1>4, <1>5, <1>6, <1>7, <1>8, <1>9, <1>10, <1>11, <1>12, <1>13, <1>14,
     <1>15 DEF FlowStep

(* Each of the five tasks has a counter with a bound. *)
LEMMA CountedToIs == DOMAIN CountedTo = {"a", "b", "c", "d", "e"} /\ \A e \in DOMAIN CountedTo : CountedTo[e] \in Nat
  BY DEF CountedTo, Iterations

(* A counter is only counted up to what it is compared with. *)
LEMMA CountStaysInBounds ==
  ASSUME CountInv, NEW e \in {"a", "b", "c", "d", "e"}, Iterates(e)
  PROVE  COUNTER' \in [DOMAIN CountedTo -> Nat] /\ \A d \in DOMAIN CountedTo : COUNTER'[d] \in 0 .. CountedTo[d]
<1>1. /\ COUNTER \in [DOMAIN CountedTo -> Nat] /\ \A d \in DOMAIN CountedTo : COUNTER[d] \in 0 .. CountedTo[d]
      /\ COUNTER' = [COUNTER EXCEPT ![e] = IF @ < CountedTo[e] THEN @ + 1 ELSE @]
      /\ e \in DOMAIN CountedTo
  BY CountedToIs DEF CountInv, Iterates
<1>2. \A d \in DOMAIN CountedTo : COUNTER'[d] = IF d = e /\ COUNTER[e] < CountedTo[e] THEN COUNTER[e] + 1 ELSE COUNTER[d]
  BY <1>1
<1>3. \A d \in DOMAIN CountedTo : COUNTER'[d] \in 0 .. CountedTo[d]
  BY <1>1, <1>2, CountedToIs
<1> QED
  BY <1>1, <1>3, CountedToIs

(* Every step of the boot keeps CountInv. *)
LEMMA CountStep == CountInv /\ [BootNext]_kernelVars => CountInv'
<1> SUFFICES ASSUME CountInv, [BootNext]_kernelVars PROVE CountInv'
  OBVIOUS
<1>0. SWITCH_TICK_BUDGET \in Nat /\ Halts \in Nat
  BY KernelAssumption
<1>1. CASE FlowStep
  <2>1. FlowBounds
    BY <1>1, FlowIsBounded
  <2>2. TICKS \in None .. SWITCH_TICK_BUDGET + 1
    BY <1>0 DEF CountInv, None
  <2> QED
    BY <2>1, <2>2 DEF FlowBounds, CountInv, Locks
<1>2. CASE TaskStep
  <2>1. UNCHANGED <<held, halts, pc, all_passed, exit_code, IFlag, TICKS, early_ticks>>
    BY <1>2 DEF TaskStep, TaskIterates, TaskASpawnsD, TaskCExits, flowVars
  <2>2. COUNTER' = COUNTER \/ \E e \in {"a", "b", "c", "d", "e"} : Iterates(e)
    BY <1>2 DEF TaskStep, TaskIterates, TaskASpawnsD, TaskCExits
  <2>3. COUNTER' \in [DOMAIN CountedTo -> Nat] /\ \A d \in DOMAIN CountedTo : COUNTER'[d] \in 0 .. CountedTo[d]
    BY <2>2, CountStaysInBounds DEF CountInv
  <2> QED
    BY <2>1, <2>3 DEF CountInv
<1>3. CASE OnTimerTick
  <2>1. UNCHANGED <<held, all_passed, exit_code, IFlag, early_ticks, COUNTER>>
    BY <1>3 DEF OnTimerTick, demoVars
  <2>2. TICKS' = IF TICKS > SWITCH_TICK_BUDGET THEN TICKS ELSE TICKS + 1
    BY <1>3 DEF OnTimerTick
  <2>3. TICKS' \in 0 .. SWITCH_TICK_BUDGET + 1
    BY <1>0, <2>2 DEF CountInv
  <2>4. halts' \in 0 .. Halts /\ (pc' = "in_hlt" => halts' < Halts)
    BY <1>0, <1>3 DEF OnTimerTick, WakesUp, InHlt, CountInv
  <2> QED
    BY <2>1, <2>3, <2>4 DEF CountInv
<1>4. CASE TakesInterrupt \/ ApRuns \/ UNCHANGED kernelVars
  BY <1>4 DEF TakesInterrupt, ApRuns, kernelVars, taskVars, poolVars, demoVars, flowVars, CountInv
<1> QED
  BY <1>1, <1>2, <1>3, <1>4 DEF BootNext

(* The invariant of the booting kernel: where interrupts are masked, who   *)
(* has the core, the locks and the pool (HangInv), ring 3, the AP bring-up *)
(* (TypeOK), phases and vaults, slots, run queue, the evidence behind      *)
(* all_passed, and ranges.                                                 *)
BootInv == HangInv /\ Ring3Inv /\ TypeOK /\ StoryInv /\ SlotInv /\ QueueInv /\ EvidenceInv /\ CountInv

(* BootInv holds when the kernel starts. *)
LEMMA BootInvInit == BootInit => BootInv
<1> SUFFICES ASSUME BootInit PROVE BootInv
  OBVIOUS
<1>1. HangInv
  BY HangInvInit
<1>2. Ring3Inv
  BY Ring3InvInit
<1>3. TypeOK
  BY BringUpTypeInit DEF BootInit
<1>4. pc = "early_boot" /\ completed = {} /\ vaults = VM!NewVaultManager
  BY DEF BootInit
<1>5. StoryInv
  BY <1>4 DEF StoryInv, Mid, InInit, Finale, BeforeQueue, Locations, LocksNeeded
<1>6. SlotInv
  <2>1. \A i \in Slots : TASK_SLOTS[i].pid = None /\ TASK_SLOTS[i].entry = "none"
    BY DEF BootInit, EmptySlot
  <2>2. NEXT_PID = 0 /\ TASK_EXIT_SLOT = None /\ TASK_D_SPAWN_SLOT = None /\ ~TASK_D_SPAWNED
    BY DEF BootInit
  <2>3. None \in None .. NEXT_PID - 1
    BY <2>2 DEF None
  <2> QED
    BY <1>4, <2>1, <2>2, <2>3 DEF SlotInv, BeforeQueue, InInit
<1>7. QueueInv
  BY NewQueueIsOfTasks DEF BootInit, QueueInv
<1>8. EvidenceInv
  BY <1>4 DEF BootInit, EvidenceInv, BeforeRing3
<1>9. CountInv
  <2>1. \A e \in DOMAIN CountedTo : 0 \in 0 .. CountedTo[e]
    BY CountedToIs
  <2>2. COUNTER = [e \in DOMAIN CountedTo |-> 0]
    BY DEF BootInit
  <2>3. COUNTER \in [DOMAIN CountedTo -> Nat] /\ \A e \in DOMAIN CountedTo : COUNTER[e] \in 0 .. CountedTo[e]
    BY <2>1, <2>2
  <2>4. None \in None .. SWITCH_TICK_BUDGET + 1 /\ 0 \in 0 .. SWITCH_TICK_BUDGET + 1 /\ 0 \in 0 .. Halts
    BY KernelAssumption DEF None
  <2>5. all_passed \in BOOLEAN
    BY DEF BootInit
  <2> QED
    BY <1>4, <2>3, <2>4, <2>5 DEF BootInit, CountInv
<1> QED
  BY <1>1, <1>2, <1>3, <1>5, <1>6, <1>7, <1>8, <1>9 DEF BootInv

(* Every step of the boot keeps BootInv. *)
LEMMA BootInvStep == BootInv /\ [BootNext]_kernelVars => BootInv'
<1> SUFFICES ASSUME BootInv, [BootNext]_kernelVars PROVE BootInv'
  OBVIOUS
<1>1. TypeOK'
  BY BootStepIsBringUpStep, BringUpTypeStep DEF BootInv
<1>2. HangInv'
  BY MaskStep, CoreStep, LockStep, PoolStep DEF HangInv, BootInv
<1> QED
  BY <1>1, <1>2, Ring3Step, StoryStep, SlotStep, QueueStep, EvidenceStep, CountStep DEF BootInv

(* BootInv holds throughout the boot, for any budget, number of slots,     *)
(* waits and topology: what kernel_main, the five tasks, the timer and the *)
(* second core rely on of each other is never broken by their              *)
(* interleaving.                                                           *)
THEOREM BootInvariant == BootSpec => []BootInv
  BY BootInvInit, BootInvStep, PTL DEF BootSpec

(* Every variable of the booting kernel keeps its type; whoever runs has a *)
(* slot, so the switch of on_timer_tick always finds a context to load.    *)
THEOREM BootTypeCorrect == BootSpec => []BootTypeOK
<1>1. BootInv => BootTypeOK
  <2> SUFFICES ASSUME BootInv PROVE BootTypeOK
    OBVIOUS
  <2>1. completed \subseteq Boot!Phases
    <3>1. pc \in {"early_boot", "late_boot", "sanctum", "ipc"} \cup Mid \cup InInit \cup Finale
      BY DEF BootInv, StoryInv, Locations, LocksNeeded, Mid, InInit, Finale
    <3> QED
      BY <3>1, EarlierIs DEF BootInv, StoryInv
  <2>2. VM!Vaults(vaults) = 1 .. vaults.next_vault_id - 1
    <3>1. vaults = VM!NewVaultManager \/ vaults = VM!CreateVault(VM!NewVaultManager, 1, "Standard", 4096, 8192)
      BY DEF BootInv, StoryInv, Locations, LocksNeeded, BeforeQueue, InInit, Finale
    <3>2. VM!Vaults(VM!NewVaultManager) = {} /\ VM!NewVaultManager.next_vault_id = 1
      BY DEF VM!Vaults, VM!NewVaultManager
    <3> DEFINE v == VM!CreateVault(VM!NewVaultManager, 1, "Standard", 4096, 8192)
    <3>3. VM!Vaults(v) = {1} /\ v.next_vault_id = 2
      BY <3>2 DEF VM!CreateVault, VM!Vaults, VM!Store
    <3> HIDE DEF v
    <3>4. 1 .. 0 = {} /\ 1 .. 1 = {1}
      OBVIOUS
    <3>5. CASE vaults = v
      <4>1. VM!Vaults(vaults) = {1} /\ vaults.next_vault_id - 1 = 1
        BY <3>3, <3>5
      <4> QED
        BY <3>4, <4>1
    <3>6. CASE vaults = VM!NewVaultManager
      <4>1. VM!Vaults(vaults) = {} /\ vaults.next_vault_id - 1 = 0
        BY <3>2, <3>6
      <4> QED
        BY <3>4, <4>1
    <3> QED
      BY <3>1, <3>5, <3>6 DEF v
  <2>3. rip \in 0 .. Len(R3!USER_PROGRAM) /\ regs \in [R3!Registers -> 0 .. U64 - 1]
    <3>1. Len(R3!USER_PROGRAM) = 14
      BY DEF R3!USER_PROGRAM
    <3> QED
      BY <3>1 DEF BootInv, Ring3Inv
  <2>4. CURRENT = BOOT_PID \/ SlotOf(CURRENT) # None
    <3>1. CURRENT = BOOT_PID \/ \E i \in Slots : TASK_SLOTS[i].pid = CURRENT
      BY DEF BootInv, QueueInv
    <3>2. SlotOf(CURRENT) = None => \A i \in Slots : TASK_SLOTS[i].pid # CURRENT
      BY SlotOfIsFirst, SlotFacts
    <3> QED
      BY <3>1, <3>2
  <2>5. NEXT_PID \in 0 .. 5
    <3>1. pc \in BeforeQueue \cup InInit \/ pc \notin BeforeQueue \cup InInit
      OBVIOUS
    <3> QED
      BY <3>1 DEF BootInv, SlotInv, InInit
  <2>6. {TASK_EXIT_SLOT, TASK_D_SPAWN_SLOT} \subseteq Slots \cup {None}
    BY SlotFacts DEF BootInv, SlotInv
  <2>7. MAPPED \subseteq Slots /\ \A i \in Slots : TASK_SLOTS[i].pid \in None .. NEXT_PID - 1
    BY DEF BootInv, HangInv, PoolInv, SlotInv
  <2>8. pc \in Locations /\ TypeOK
    BY DEF BootInv, StoryInv
  <2> QED
    BY <2>1, <2>2, <2>3, <2>4, <2>5, <2>6, <2>7, <2>8 DEF BootTypeOK, BootInv, CountInv
<1> QED
  BY <1>1, BootInvariant, PTL

(* The vault that kernel_main makes can be entered and covers its range.   *)
LEMMA TheVaultIs ==
  LET v == VM!CreateVault(VM!NewVaultManager, 1, "Standard", 4096, 8192)
  IN  VM!MayEnterVault(v, 1) /\ \A a \in Int : VM!MayAccess(v, 1, a) <=> 4096 <= a /\ a < 8192
<1> DEFINE n == VM!NewVaultManager
           v == VM!CreateVault(n, 1, "Standard", 4096, 8192)
<1>1. Enterable(n) /\ n.next_vault_id = 1
  BY DEF Enterable, VM!Vaults, VM!NewVaultManager
<1>2. v.vaults = VM!Store(n, 1, VM!Config(1, 1, "Standard", 4096, 8192))
  BY <1>1 DEF VM!CreateVault
<1> HIDE DEF n, v
<1>3. Enterable(v) /\ 1 \in VM!Vaults(v)
  BY <1>1, <1>2, StoreKeepsEnterable
<1>4. v.vaults[1].config = VM!Config(1, 1, "Standard", 4096, 8192)
  BY <1>2 DEF VM!Store
<1>5. VM!MayEnterVault(v, 1) /\ \A a \in Int : VM!MayAccess(v, 1, a) <=> 4096 <= a /\ a < 8192
  BY <1>3, <1>4 DEF Enterable, VM!MayAccess, VM!Config
<1> QED
  BY <1>5 DEF n, v

(* However the boot is interrupted, none of the checks that kernel_main    *)
(* makes on the way can fail: complete() refuses no phase, the vault can   *)
(* be entered and covers its range only, and the ring-3 program reports    *)
(* its sum.  Those that can fail are left to the allocators, the broker,   *)
(* the tasks and the second core.                                          *)
THEOREM BootChecksPass ==
  BootSpec => [][EarlyBoot \/ LateBoot \/ SchedulerBoot \/ SanctumBoot \/ ChecksReport => UNCHANGED all_passed]_kernelVars
<1> DEFINE A == EarlyBoot \/ LateBoot \/ SchedulerBoot \/ SanctumBoot \/ ChecksReport => UNCHANGED all_passed
<1>1. BootInv => A
  <2> SUFFICES ASSUME BootInv PROVE A
    OBVIOUS
  <2>1. StoryInv /\ Ring3Inv /\ all_passed \in BOOLEAN
    BY DEF BootInv, CountInv
  <2>2. CASE EarlyBoot
    <3>1. Boot!MayComplete(completed, "EarlyBoot")
      BY <2>1, <2>2, EarlierIs DEF EarlyBoot, BootAt, StoryInv, Boot!MayComplete
    <3> QED BY <2>1, <2>2, <3>1 DEF EarlyBoot, CompletesPhase, Record
  <2>3. CASE LateBoot
    <3>1. Boot!MayComplete(completed, "LateBoot")
      BY <2>1, <2>3, EarlierIs DEF LateBoot, BootAt, StoryInv, Boot!MayComplete
    <3> QED BY <2>1, <2>3, <3>1 DEF LateBoot, CompletesPhase, Record
  <2>4. CASE SchedulerBoot
    <3>1. Boot!MayComplete(completed, "SchedulerBoot")
      BY <2>1, <2>4, EarlierIs DEF SchedulerBoot, BootAt, StoryInv, InInit, Boot!MayComplete
    <3> QED BY <2>1, <2>4, <3>1 DEF SchedulerBoot, CompletesPhase, Record
  <2>5. CASE SanctumBoot
    <3>1. Boot!MayComplete(completed, "SanctumBoot")
      BY <2>1, <2>5, EarlierIs DEF SanctumBoot, BootAt, StoryInv, Boot!MayComplete
    <3> DEFINE v == VM!CreateVault(VM!NewVaultManager, 1, "Standard", 4096, 8192)
    <3>2. vaults = VM!NewVaultManager /\ vaults.next_vault_id = 1
      BY <2>1, <2>5 DEF SanctumBoot, BootAt, StoryInv, VM!NewVaultManager
    <3>3. VM!MayEnterVault(v, 1) /\ VM!MayAccess(v, 1, 5376) /\ ~VM!MayAccess(v, 1, 20480)
      BY TheVaultIs
    <3> HIDE DEF v
    <3>4. CompletesPhase("SanctumBoot", VM!MayEnterVault(v, 1) /\ VM!MayAccess(v, 1, 5376) /\ ~VM!MayAccess(v, 1, 20480))
      BY <2>5, <3>2 DEF SanctumBoot, v
    <3> QED BY <2>1, <3>1, <3>3, <3>4 DEF CompletesPhase, Record
  <2>6. CASE ChecksReport
    <3>1. REPORTED_VALUE = 1249
      BY <2>1, <2>6 DEF ChecksReport, BootAt, Ring3Inv
    <3> QED BY <2>1, <2>6, <3>1 DEF ChecksReport, Record
  <2> QED BY <2>2, <2>3, <2>4, <2>5, <2>6
<1> HIDE DEF A
<1>2. BootSpec => [][A]_kernelVars
  BY <1>1, BootInvariant, PTL DEF BootSpec
<1> QED
  BY <1>2 DEF A

(* Success is only reported by a kernel in which it all happened. *)
THEOREM VerdictHasEvidence == BootSpec => []VerdictIsEvidence
<1>1. BootInv /\ OutcomeIsEvidence => VerdictIsEvidence
  <2> SUFFICES ASSUME BootInv, OutcomeIsEvidence, exit_code = "Success" PROVE
    /\ TASK_SLOTS[2].entry = "d" /\ TASK_C_PID \notin RQ!Queued(queue) /\ CURRENT = BOOT_PID
    /\ completed = Boot!Phases \ {"SyscallBoot"}
    /\ REPORTED_VALUE = 15 + 1234
    /\ VM!MayEnterVault(vaults, 1)
    /\ ap = "parked" /\ AP_REPORTED_APIC_ID = Target
    BY DEF VerdictIsEvidence
  <2>1. pc = "exited" /\ all_passed
    BY DEF BootInv, EvidenceInv
  <2>2. ReuseSeen /\ CURRENT = BOOT_PID /\ stage = "checked" /\ result /\ REPORTED_VALUE = 1249
    BY <2>1 DEF BootInv, EvidenceInv, ReuseSeen, BeforeRing3
  <2>3. TASK_SLOTS[2].entry = "d"
    BY <2>2 DEF ReuseSeen, BootInv, SlotInv
  <2>4. ap = "parked" /\ AP_REPORTED_APIC_ID = Target
    BY <2>2 DEF OutcomeIsEvidence
  <2>5. completed = Boot!Phases \ {"SyscallBoot"}
    BY <2>1, EarlierIs DEF BootInv, StoryInv, Finale
  <2>6. VM!MayEnterVault(vaults, 1)
    BY <2>1, TheVaultIs DEF BootInv, StoryInv, Finale
  <2> QED
    BY <2>2, <2>3, <2>4, <2>5, <2>6 DEF ReuseSeen
<1> QED
  BY <1>1, BootInvariant, BootChecksEvidence, PTL

----------------------------------------------------------------------------
(* The self-tests of the tasks.  From init on who runs when is determined: *)
(* a timetable that says for each tick whom it dispatches and what each    *)
(* task has been charged by then is an invariant of the boot, and as long  *)
(* as the budget lasts kernel_main has the core before the first tick only. *)

(* The kernel's queue when its tasks have the vruntimes v. *)
QueueOf(v) ==
  [processes |-> [p \in DOMAIN v |-> [class |-> "Normal", deadline |-> 0, vruntime |-> v[p]]],
   real_time_order |-> {},
   normal_order |-> {<<v[p], p>> : p \in DOMAIN v}]

(* pid is the first by vruntime, then by pid. *)
RunsFirst(pid, v) ==
  pid \in DOMAIN v /\ \A q \in DOMAIN v \ {pid} : v[pid] < v[q] \/ (v[pid] = v[q] /\ pid < q)

(* pick_next_task: the first by vruntime and pid. *)
LEMMA PickOfQueue ==
  ASSUME NEW v, NEW pid \in Nat, DOMAIN v \subseteq Nat, \A q \in DOMAIN v : v[q] \in Nat, RunsFirst(pid, v)
  PROVE  RQ!PickNextTask(QueueOf(v)) = pid
<1> DEFINE order == QueueOf(v).normal_order
<1>1. order = {<<v[p], p>> : p \in DOMAIN v} /\ QueueOf(v).real_time_order = {}
  BY DEF QueueOf
<1>2. <<v[pid], pid>> \in order
  BY <1>1 DEF RunsFirst
<1>3. \A j \in order : j = <<v[pid], pid>> \/ RQ!KeyLess(<<v[pid], pid>>, j)
  BY <1>1 DEF RunsFirst, RQ!KeyLess
<1>4. \A k \in order : k # <<v[pid], pid>> => ~RQ!KeyLess(k, <<v[pid], pid>>)
  <2> SUFFICES ASSUME NEW q \in DOMAIN v, q # pid PROVE ~RQ!KeyLess(<<v[q], q>>, <<v[pid], pid>>)
    BY <1>1
  <2> QED BY DEF RunsFirst, RQ!KeyLess
<1> HIDE DEF order
<1>5. RQ!FirstKey(order) = <<v[pid], pid>>
  <2>1. \E k \in order : \A j \in order : j = k \/ RQ!KeyLess(k, j)
    BY <1>2, <1>3
  <2>2. RQ!FirstKey(order) \in order /\ \A j \in order : j = RQ!FirstKey(order) \/ RQ!KeyLess(RQ!FirstKey(order), j)
    BY <2>1 DEF RQ!FirstKey
  <2> QED BY <1>2, <1>4, <2>2
<1>6. RQ!PickNextTask(QueueOf(v)) = RQ!FirstKey(order)[2]
  BY <1>1, <1>2 DEF RQ!PickNextTask, order
<1> QED BY <1>5, <1>6

(* The pids in the queue. *)
LEMMA QueuedOfQueue == ASSUME NEW v PROVE RQ!Queued(QueueOf(v)) = DOMAIN v
  BY DEF QueueOf, RQ!Queued

(* add_process: a new task starts with vruntime 0. *)
LEMMA AddToQueue ==
  ASSUME NEW v, NEW pid, pid \notin DOMAIN v
  PROVE  RQ!AddProcess(QueueOf(v), pid, SpawnedProcess)
           = QueueOf([p \in DOMAIN v \cup {pid} |-> IF p = pid THEN 0 ELSE v[p]])
<1> DEFINE w == [p \in DOMAIN v \cup {pid} |-> IF p = pid THEN 0 ELSE v[p]]
           rq == QueueOf(v)
<1>1. /\ SpawnedProcess = [class |-> "Normal", deadline |-> 0, vruntime |-> 0]
      /\ RQ!CfsKey(pid, SpawnedProcess) = <<0, pid>>
  BY DEF SpawnedProcess, RQ!CfsKey
<1>2. RQ!Queued(rq) = DOMAIN v /\ rq.processes = [p \in DOMAIN v |-> [class |-> "Normal", deadline |-> 0, vruntime |-> v[p]]]
  BY DEF QueueOf, RQ!Queued
<1>3. [q \in RQ!Queued(rq) \cup {pid} |-> IF q = pid THEN SpawnedProcess ELSE rq.processes[q]]
        = [p \in DOMAIN w |-> [class |-> "Normal", deadline |-> 0, vruntime |-> w[p]]]
  BY <1>1, <1>2
<1>4. rq.normal_order \cup {<<0, pid>>} = {<<w[p], p>> : p \in DOMAIN w}
  BY DEF QueueOf
<1>5. rq.real_time_order \cup {} = {}
  BY DEF QueueOf
<1> QED
  BY <1>1, <1>3, <1>4, <1>5 DEF RQ!AddProcess, QueueOf

(* remove_process. *)
LEMMA RemoveFromQueue ==
  ASSUME NEW v, NEW pid \in DOMAIN v
  PROVE  RQ!RemoveProcess(QueueOf(v), pid) = QueueOf([p \in DOMAIN v \ {pid} |-> v[p]])
<1> DEFINE w == [p \in DOMAIN v \ {pid} |-> v[p]]
           rq == QueueOf(v)
<1>1. /\ rq.processes[pid].class = "Normal"
      /\ RQ!CfsKey(pid, rq.processes[pid]) = <<v[pid], pid>>
  BY DEF QueueOf, RQ!CfsKey
<1>2. RQ!Queued(rq) = DOMAIN v /\ rq.processes = [p \in DOMAIN v |-> [class |-> "Normal", deadline |-> 0, vruntime |-> v[p]]]
  BY DEF QueueOf, RQ!Queued
<1>3. [q \in RQ!Queued(rq) \ {pid} |-> rq.processes[q]]
        = [p \in DOMAIN w |-> [class |-> "Normal", deadline |-> 0, vruntime |-> w[p]]]
  BY <1>2
<1>4. rq.normal_order \ {<<v[pid], pid>>} = {<<w[p], p>> : p \in DOMAIN w}
  BY DEF QueueOf
<1>5. rq.real_time_order \ {} = {}
  BY DEF QueueOf
<1> QED
  BY <1>1, <1>2, <1>3, <1>4, <1>5 DEF RQ!RemoveProcess, QueueOf

(* update_vruntime by one tick, far from the end of u64. *)
LEMMA ChargeInQueue ==
  ASSUME NEW v, NEW pid \in DOMAIN v, v[pid] \in 0 .. 9
  PROVE  RQ!UpdateVruntime(QueueOf(v), pid, 1) = QueueOf([v EXCEPT ![pid] = @ + 1])
<1> DEFINE w == [v EXCEPT ![pid] = @ + 1]
           rq == QueueOf(v)
           new == [rq.processes[pid] EXCEPT !.vruntime = (@ + 1) % U64]
<1>1. (v[pid] + 1) % U64 = v[pid] + 1
  BY KernelAssumption
<1>2. /\ RQ!Queued(rq) = DOMAIN v
      /\ rq.processes = [p \in DOMAIN v |-> [class |-> "Normal", deadline |-> 0, vruntime |-> v[p]]]
      /\ rq.processes[pid] = [class |-> "Normal", deadline |-> 0, vruntime |-> v[pid]]
  BY DEF QueueOf, RQ!Queued
<1>3. pid \in RQ!Normal(rq)
  BY <1>2 DEF RQ!Normal
<1>4. new = [class |-> "Normal", deadline |-> 0, vruntime |-> v[pid] + 1]
  BY <1>1, <1>2
<1>5. RQ!CfsKey(pid, rq.processes[pid]) = <<v[pid], pid>> /\ RQ!CfsKey(pid, new) = <<v[pid] + 1, pid>>
  BY <1>2, <1>4 DEF RQ!CfsKey
<1>6. [rq.processes EXCEPT ![pid] = new] = [p \in DOMAIN w |-> [class |-> "Normal", deadline |-> 0, vruntime |-> w[p]]]
  BY <1>2, <1>4
<1>7. (rq.normal_order \ {<<v[pid], pid>>}) \cup {<<v[pid] + 1, pid>>} = {<<w[p], p>> : p \in DOMAIN w}
  <2>1. rq.normal_order = {<<v[p], p>> : p \in DOMAIN v}
    BY DEF QueueOf
  <2>2. DOMAIN w = DOMAIN v /\ \A p \in DOMAIN v : w[p] = IF p = pid THEN v[p] + 1 ELSE v[p]
    OBVIOUS
  <2> QED BY <2>1, <2>2
<1>8. rq.real_time_order = {}
  BY DEF QueueOf
<1>9. RQ!UpdateVruntime(rq, pid, 1)
        = [processes |-> [rq.processes EXCEPT ![pid] = new],
           real_time_order |-> rq.real_time_order,
           normal_order |-> (rq.normal_order \ {RQ!CfsKey(pid, rq.processes[pid])}) \cup {RQ!CfsKey(pid, new)}]
  BY <1>3, Zenon DEF RQ!UpdateVruntime
<1> HIDE DEF w, rq, new
<1>10. QueueOf(w) = [processes |-> [rq.processes EXCEPT ![pid] = new], real_time_order |-> rq.real_time_order,
                     normal_order |-> (rq.normal_order \ {<<v[pid], pid>>}) \cup {<<v[pid] + 1, pid>>}]
  BY <1>6, <1>7, <1>8 DEF QueueOf
<1>11. RQ!UpdateVruntime(rq, pid, 1) = QueueOf(w)
  BY <1>5, <1>9, <1>10
<1> QED
  BY <1>11 DEF w, rq

(* The vruntimes of a, b, c and e, by pid. *)
Times(a, b, c, e) == [p \in 0 .. 3 |-> IF p = 0 THEN a ELSE IF p = 1 THEN b ELSE IF p = 2 THEN c ELSE e]

(* The same when c has exited, and when d has been spawned. *)
TimesABE(a, b, e) == [p \in {0, 1, 3} |-> IF p = 0 THEN a ELSE IF p = 1 THEN b ELSE e]
TimesABED(a, b, e, d) == [p \in {0, 1, 3, 4} |-> IF p = 4 THEN d ELSE TimesABE(a, b, e)[p]]

(* For each tick after init until c exits: the tick, the pid it            *)
(* dispatches, and the vruntimes of a, b, c and e it leaves.               *)
Timetable ==
  {<<1, 0, 0, 0, 0, 0>>, <<2, 0, 1, 0, 0, 0>>, <<3, 1, 2, 0, 0, 0>>, <<4, 1, 2, 1, 0, 0>>,
   <<5, 2, 2, 2, 0, 0>>, <<6, 2, 2, 2, 1, 0>>, <<7, 3, 2, 2, 2, 0>>, <<8, 3, 2, 2, 2, 1>>,
   <<9, 3, 2, 2, 2, 2>>, <<10, 0, 2, 2, 2, 3>>, <<11, 0, 3, 2, 2, 3>>, <<12, 1, 4, 2, 2, 3>>,
   <<13, 1, 4, 3, 2, 3>>, <<14, 2, 4, 4, 2, 3>>, <<15, 2, 4, 4, 3, 3>>, <<16, 2, 4, 4, 4, 3>>,
   <<17, 3, 4, 4, 5, 3>>, <<18, 3, 4, 4, 5, 4>>, <<19, 0, 4, 4, 5, 5>>, <<20, 0, 5, 4, 5, 5>>,
   <<21, 1, 6, 4, 5, 5>>, <<22, 1, 6, 5, 5, 5>>, <<23, 1, 6, 6, 5, 5>>, <<24, 2, 6, 7, 5, 5>>}

(* The row that a tick leads to from r when it dispatches pid. *)
Follows(r, pid) ==
  <<r[1] + 1, pid, IF r[2] = 0 THEN r[3] + 1 ELSE r[3], IF r[2] = 1 THEN r[4] + 1 ELSE r[4],
    IF r[2] = 2 THEN r[5] + 1 ELSE r[5], IF r[2] = 3 THEN r[6] + 1 ELSE r[6]>>

(* The ranges of the timetable, and its last row. *)
LEMMA TimetableIs ==
  ASSUME NEW r \in Timetable
  PROVE  /\ r[1] \in 1 .. 24 /\ r[2] \in 0 .. 3
         /\ r[3] \in 0 .. 9 /\ r[4] \in 0 .. 9 /\ r[5] \in 0 .. 5 /\ r[6] \in 0 .. 9
         /\ r[1] = 24 <=> r = <<24, 2, 6, 7, 5, 5>>
         /\ r[5] = 5 /\ r[2] = 2 <=> r[1] = 24
  BY DEF Timetable

(* first is the pid with the least key of the four. *)
LeastOfFour(p, a, b, c, e) ==
  \/ p = 0 /\ a <= b /\ a <= c /\ a <= e
  \/ p = 1 /\ b < a /\ b <= c /\ b <= e
  \/ p = 2 /\ c < a /\ c < b /\ c <= e
  \/ p = 3 /\ e < a /\ e < b /\ e < c

(* Every row but the last is followed by the row that a tick leads to. *)
LEMMA TimetableGoesOn ==
  ASSUME NEW r \in Timetable, r[1] # 24
  PROVE  \E p \in 0 .. 3 : LeastOfFour(p, r[3], r[4], r[5], r[6]) /\ Follows(r, p) \in Timetable
  BY DEF Timetable, Follows, LeastOfFour

(* The least of the four is the first to run. *)
LEMMA LeastRunsFirst ==
  ASSUME NEW a \in Nat, NEW b \in Nat, NEW c \in Nat, NEW e \in Nat, NEW p \in 0 .. 3, LeastOfFour(p, a, b, c, e)
  PROVE  RunsFirst(p, Times(a, b, c, e))
<1>1. DOMAIN Times(a, b, c, e) = {0, 1, 2, 3}
  BY DEF Times
<1>2. Times(a, b, c, e)[0] = a /\ Times(a, b, c, e)[1] = b /\ Times(a, b, c, e)[2] = c /\ Times(a, b, c, e)[3] = e
  BY DEF Times
<1> QED
  BY <1>1, <1>2 DEF RunsFirst, LeastOfFour

(* The vruntimes when c has exited. *)
LEMMA TimesABEAre ==
  ASSUME NEW a, NEW b, NEW e, NEW v, v = TimesABE(a, b, e)
  PROVE  DOMAIN v = {0, 1, 3} /\ v[0] = a /\ v[1] = b /\ v[3] = e
  BY DEF TimesABE

(* The vruntimes when d has been spawned. *)
LEMMA TimesABEDAre ==
  ASSUME NEW a, NEW b, NEW e, NEW d, NEW v, v = TimesABED(a, b, e, d)
  PROVE  DOMAIN v = {0, 1, 3, 4} /\ v[0] = a /\ v[1] = b /\ v[3] = e /\ v[4] = d
<1> DEFINE s == TimesABE(a, b, e)
<1>1. s[0] = a /\ s[1] = b /\ s[3] = e
  BY TimesABEAre
<1>2. v = [p \in {0, 1, 3, 4} |-> IF p = 4 THEN d ELSE s[p]]
  BY DEF TimesABED
<1> HIDE DEF s
<1> QED BY <1>1, <1>2

(* e is charged. *)
LEMMA ChargeE ==
  ASSUME NEW a, NEW b, NEW e \in Nat, NEW v, v = TimesABE(a, b, e)
  PROVE  [v EXCEPT ![3] = @ + 1] = TimesABE(a, b, e + 1)
<1> DEFINE u == TimesABE(a, b, e + 1)
           w == [v EXCEPT ![3] = @ + 1]
<1>1. DOMAIN v = {0, 1, 3} /\ v[0] = a /\ v[1] = b /\ v[3] = e
  BY TimesABEAre
<1>2. u = [p \in {0, 1, 3} |-> IF p = 0 THEN a ELSE IF p = 1 THEN b ELSE e + 1]
  BY DEF TimesABE
<1>3. w = [p \in {0, 1, 3} |-> IF p = 3 THEN e + 1 ELSE v[p]]
  BY <1>1
<1> HIDE DEF u, w
<1>4. w = u
  BY <1>1, <1>2, <1>3
<1> QED BY <1>4 DEF u, w

(* a is charged. *)
LEMMA ChargeA ==
  ASSUME NEW a \in Nat, NEW b, NEW e, NEW d, NEW v, v = TimesABED(a, b, e, d), NEW n, n = a + 1
  PROVE  [v EXCEPT ![0] = @ + 1] = TimesABED(n, b, e, d)
<1> DEFINE u == TimesABED(n, b, e, d)
           w == [v EXCEPT ![0] = @ + 1]
           s == TimesABE(n, b, e)
<1>1. DOMAIN v = {0, 1, 3, 4} /\ v[0] = a /\ v[1] = b /\ v[3] = e /\ v[4] = d
  BY TimesABEDAre
<1>2. s[0] = n /\ s[1] = b /\ s[3] = e
  BY TimesABEAre
<1>3. u = [p \in {0, 1, 3, 4} |-> IF p = 4 THEN d ELSE s[p]]
  BY DEF TimesABED
<1>4. w = [p \in {0, 1, 3, 4} |-> IF p = 0 THEN n ELSE v[p]]
  BY <1>1
<1> HIDE DEF u, w, s
<1>5. w = u
  BY <1>1, <1>2, <1>3, <1>4
<1> QED BY <1>5 DEF u, w

(* Slot i is that of a task. *)
SlotHas(i, pid, entry) == TASK_SLOTS[i].pid = pid /\ TASK_SLOTS[i].entry = entry

(* The entries of the slots that init fills. *)
EntryAt(i) == IF i = 0 THEN "a" ELSE IF i = 1 THEN "b" ELSE IF i = 2 THEN "c" ELSE "e"

(* The pool and the queue when init has spawned k tasks. *)
Spawned(k) ==
  /\ \A i \in Slots : i < k => SlotHas(i, i, EntryAt(i))
  /\ \A i \in Slots : k <= i => TASK_SLOTS[i].pid = None
  /\ \A i \in Slots : ~TASK_SLOTS[i].in_hlt
  /\ MAPPED = 0 .. k - 1 /\ NEXT_PID = k
  /\ queue = QueueOf([p \in 0 .. k - 1 |-> 0])

(* No task has run yet, and kernel_main has not waited. *)
Untouched ==
  /\ COUNTER = [e \in DOMAIN CountedTo |-> 0]
  /\ ~TASK_C_EXITED /\ ~TASK_D_SPAWNED /\ halts = 0

(* Until init has returned.  Without an address space e is not spawned. *)
EarlyInv ==
  /\ pc \in BeforeQueue \cup InInit => Untouched
  /\ pc \in InInit => TICKS = early_ticks
  /\ pc \in BeforeQueue \cup {"spawn_a"} => Spawned(0)
  /\ pc = "spawn_b" => Spawned(1)
  /\ pc = "spawn_c" => Spawned(2)
  /\ pc = "spawn_e" => Spawned(3)
  /\ pc = "scheduler_boot" => Spawned(4) \/ MAPPED = 0 .. 2

(* A tick that is being handled was due, only c's exit hands the core over *)
(* between two ticks, and from init on ticks are for the scheduler.        *)
DueInv ==
  /\ isr => TickIsDue
  /\ mid_period => TASK_C_EXITED
  /\ scheduler_up \/ pc \in BeforeQueue

(* a, b and e are there, each has counted if it was charged for a tick,    *)
(* and none is in a hlt but the one that runs.                             *)
TasksABE(a, b, e) ==
  /\ SlotHas(0, 0, "a") /\ SlotHas(1, 1, "b") /\ SlotHas(3, 3, "e")
  /\ a > 0 => COUNTER["a"] > 0
  /\ b > 0 => COUNTER["b"] > 0
  /\ e > 0 => COUNTER["e"] > 0
  /\ TASK_SLOTS[0].in_hlt => CURRENT = 0 /\ COUNTER["a"] > 0
  /\ TASK_SLOTS[1].in_hlt => CURRENT = 1 /\ COUNTER["b"] > 0
  /\ TASK_SLOTS[3].in_hlt => CURRENT = 3 /\ COUNTER["e"] > 0

(* So is c, which has counted once for every tick it was charged for. *)
FourTasks(a, b, c, e) ==
  /\ queue = QueueOf(Times(a, b, c, e)) /\ NEXT_PID = 4
  /\ TasksABE(a, b, e) /\ SlotHas(2, 2, "c")
  /\ TASK_SLOTS[2].in_hlt => CURRENT = 2
  /\ COUNTER["c"] = IF TASK_SLOTS[2].in_hlt THEN c + 1 ELSE c
  /\ ~TASK_C_EXITED /\ ~TASK_D_SPAWNED

CHasExited == TASK_C_EXITED /\ TASK_EXIT_SLOT = 2 /\ COUNTER["c"] = Iterations

(* c has exited, and left its slot. *)
ThreeTasks(a, b, e) ==
  /\ queue = QueueOf(TimesABE(a, b, e)) /\ NEXT_PID = 4
  /\ TasksABE(a, b, e) /\ TASK_SLOTS[2] = EmptySlot
  /\ CHasExited /\ ~TASK_D_SPAWNED

(* d is in the slot of c. *)
DIsSpawned == CHasExited /\ TASK_D_SPAWNED /\ TASK_D_SPAWN_SLOT = 2 /\ SlotHas(2, 4, "d")

WithTaskD(a, b, e, d) ==
  /\ queue = QueueOf(TimesABED(a, b, e, d))
  /\ TasksABE(a, b, e) /\ DIsSpawned
  /\ TASK_SLOTS[2].in_hlt => CURRENT = 4 /\ COUNTER["d"] > 0

(* n ticks after init, pid runs. *)
At(n, pid) == TICKS = early_ticks + n /\ CURRENT = pid

(* What the self-tests look for. *)
AllHaveRun ==
  /\ DIsSpawned /\ 2 \notin RQ!Queued(queue)
  /\ COUNTER["a"] > 0 /\ COUNTER["b"] > 0 /\ COUNTER["d"] > 0 /\ COUNTER["e"] > 0

(* The places of kernel_main after its last hlt. *)
Checked == {"check_exit", "check_reuse", "smp", "recheck", "verdict", "exited"}

(* init is done, it had the ticks it needs, and e its address space. *)
Ready ==
  /\ pc \notin BeforeQueue \cup InInit
  /\ early_ticks + TicksNeeded <= SWITCH_TICK_BUDGET /\ MAPPED = 0 .. 3

(* Before the first tick; until c exits; until d is spawned; until d is    *)
(* interrupted.                                                            *)
BeforeTicks == At(0, BOOT_PID) /\ halts = 0 /\ FourTasks(0, 0, 0, 0)
UntilExit == \E r \in Timetable : At(r[1], r[2]) /\ FourTasks(r[3], r[4], r[5], r[6])
UntilSpawn ==
  \/ At(24, 3) /\ ThreeTasks(6, 7, 5)
  \/ At(25, 3) /\ ThreeTasks(6, 7, 6)
  \/ At(26, 0) /\ ThreeTasks(6, 7, 7) /\ ~mid_period /\ ~TASK_SLOTS[0].in_hlt
UntilDHasRun ==
  \/ At(26, 0) /\ WithTaskD(6, 7, 7, 0)
  \/ At(27, 4) /\ WithTaskD(7, 7, 7, 0) /\ ~mid_period

ScheduleInv ==
  Ready => AllHaveRun \/ (pc \notin Checked /\ (BeforeTicks \/ UntilExit \/ UntilSpawn \/ UntilDHasRun))

TimeInv == EarlyInv /\ DueInv /\ ScheduleInv

----------------------------------------------------------------------------
(* What each step leaves alone. *)

(* kernel_main neither ticks nor waits, and is past its last hlt only when *)
(* it has done them all.                                                   *)
FlowLeavesTime ==
  /\ UNCHANGED <<TICKS, halts, isr, mid_period>>
  /\ UNCHANGED MAPPED \/ InitSpawns
  /\ UNCHANGED early_ticks \/ (early_ticks' = TICKS /\ pc = "scheduler")
  /\ scheduler_up' \/ pc' \in BeforeQueue \/ (UNCHANGED scheduler_up /\ pc \notin BeforeQueue)
  /\ pc' \in Checked => pc \in Checked \/ halts = Halts

(* No step of the flow takes time. *)
LEMMA FlowTakesNoTime == FlowStep => FlowLeavesTime
<1> SUFFICES ASSUME FlowStep PROVE FlowLeavesTime
  OBVIOUS
<1> USE DEF FlowLeavesTime, BootAt, BeforeQueue, Checked, context, outside, taskVars, poolVars, cpuVars, vars, bspVars
<1>1. CASE EarlyBoot \/ LateBoot
  BY <1>1 DEF EarlyBoot, LateBoot
<1>2. CASE TakesLocks
  BY <1>2 DEF TakesLocks, LocksNeeded
<1>3. CASE ChecksMemory \/ RunDemoSyscall \/ ChecksReport
  BY <1>3 DEF ChecksMemory, RunDemoSyscall, ChecksReport
<1>4. CASE RunsProgram
  BY <1>4 DEF RunsProgram, flowVars
<1>5. CASE ChecksCapability \/ InitMasksInterrupts
  BY <1>5 DEF ChecksCapability, InitMasksInterrupts
<1>6. CASE InitSpawns
  BY <1>6, Zenon DEF InitSpawns
<1>7. CASE SchedulerBoot \/ IpcBoot \/ HaltsForTicks
  BY <1>7 DEF SchedulerBoot, IpcBoot, HaltsForTicks
<1>8. CASE SanctumBoot
  BY <1>8 DEF SanctumBoot
<1>9. CASE ChecksTasks
  BY <1>9 DEF ChecksTasks
<1>10. CASE BringsUpAp
  <2>1. UNCHANGED isr
    BY <1>10, Zenon DEF BringsUpAp, BspStep, MapsPage, PreparesTrampoline, SendsIpi, TickCountLocks, TickCountReturns,
                        PollSucceeds, ChecksOutcome
  <2> QED BY <1>10, <2>1 DEF BringsUpAp, flowVars
<1>11. CASE ChecksSmp \/ ChecksBspState \/ ExitQemu
  BY <1>11 DEF ChecksSmp, ChecksBspState, ExitQemu
<1> QED
  BY <1>1, <1>2, <1>3, <1>4, <1>5, <1>6, <1>7, <1>8, <1>9, <1>10, <1>11 DEF FlowStep

(* An interrupt that comes, the second core and stuttering change nothing  *)
(* of it, and an interrupt comes when it is due.                           *)
LEMMA RestTakesNoTime ==
  ASSUME TakesInterrupt \/ ApRuns \/ UNCHANGED kernelVars
  PROVE  /\ UNCHANGED <<TICKS, early_ticks, halts, pc, MAPPED, NEXT_PID, queue, TASK_SLOTS, COUNTER, CURRENT, mid_period, scheduler_up>>
         /\ UNCHANGED <<TASK_C_EXITED, TASK_D_SPAWNED, TASK_EXIT_SLOT, TASK_D_SPAWN_SLOT>>
         /\ isr' => isr \/ TickIsDue
  BY DEF TakesInterrupt, ApRuns, ApWakes, ApReports, ApStarts, ApSurvives, kernelVars, vars, bspVars,
         taskVars, poolVars, cpuVars, demoVars, flowVars

(* What a tick does not change, and how it counts. *)
LEMMA TickLeaves ==
  ASSUME OnTimerTick
  PROVE  /\ isr /\ ~isr' /\ ~mid_period'
         /\ UNCHANGED <<early_ticks, MAPPED, NEXT_PID, COUNTER, scheduler_up>>
         /\ UNCHANGED <<TASK_C_EXITED, TASK_D_SPAWNED, TASK_EXIT_SLOT, TASK_D_SPAWN_SLOT>>
         /\ TICKS' = IF TICKS > SWITCH_TICK_BUDGET THEN TICKS ELSE TICKS + 1
         /\ CURRENT # BOOT_PID \/ pc # "in_hlt" => UNCHANGED <<pc, halts>>
         /\ CURRENT = BOOT_PID => UNCHANGED <<queue, TASK_SLOTS>>
         /\ pc' = pc \/ (pc = "in_hlt" /\ pc' = "hlt")
  BY DEF OnTimerTick, TimerHandler, WakesUp, InHlt, demoVars

(* Only c's exit hands the core over within a period, and only a tick that *)
(* is due is handled.                                                      *)
LEMMA DueStep == DueInv /\ [BootNext]_kernelVars => DueInv'
<1> SUFFICES ASSUME DueInv, [BootNext]_kernelVars PROVE DueInv'
  OBVIOUS
<1>1. CASE FlowStep
  <2>1. FlowEffects /\ FlowLeavesTime
    BY <1>1, FlowHasEffects, FlowTakesNoTime
  <2> QED BY <2>1 DEF DueInv, FlowEffects, FlowLeavesTime
<1>2. CASE TaskStep
  <2>1. ~isr' /\ UNCHANGED <<scheduler_up, pc>>
    BY <1>2 DEF TaskStep, TaskIterates, TaskASpawnsD, TaskCExits, Iterates, TaskAt, vars, flowVars
  <2>2. TASK_C_EXITED' \/ UNCHANGED <<mid_period, TASK_C_EXITED>>
    BY <1>2 DEF TaskStep, TaskIterates, TaskASpawnsD, TaskCExits, cpuVars
  <2> QED BY <2>1, <2>2 DEF DueInv
<1>3. CASE OnTimerTick
  BY <1>3, TickLeaves DEF DueInv, BeforeQueue
<1>4. CASE TakesInterrupt \/ ApRuns \/ UNCHANGED kernelVars
  <2>1. /\ UNCHANGED <<pc, TASK_SLOTS, CURRENT, mid_period, TASK_C_EXITED, scheduler_up>>
        /\ isr' => isr \/ TickIsDue
    BY <1>4, RestTakesNoTime
  <2>2. TickIsDue' = TickIsDue
    BY <2>1 DEF TickIsDue, InHlt, SlotOf
  <2> QED BY <2>1, <2>2 DEF DueInv
<1> QED
  BY <1>1, <1>2, <1>3, <1>4 DEF BootNext

(* A spawn of init takes the next slot and the next pid. *)
LEMMA SpawnIsNext ==
  ASSUME NEW k \in 0 .. 3, Spawned(k), PoolInv, NEW entry, entry = EntryAt(k), SpawnTask(entry, TASK_SLOTS)
  PROVE  Spawned(k + 1)'
<1> DEFINE new == [pid |-> NEXT_PID, entry |-> entry, in_hlt |-> FALSE]
           v == [p \in 0 .. k - 1 |-> 0]
<1>1. k \in Slots /\ \A i \in Slots : i \in Nat
  BY SlotFacts
<1>2. /\ \A i \in Slots : i < k => TASK_SLOTS[i].pid # None
      /\ TASK_SLOTS[k].pid = None
  BY <1>1 DEF Spawned, SlotHas, None
<1>3. SlotOf(None) = k
  <2> DEFINE s == SlotOf(None)
  <2>1. s \in Slots /\ TASK_SLOTS[s].pid = None /\ s <= k
    BY <1>1, <1>2, SlotOfIsFirst
  <2> HIDE DEF s
  <2>2. s \in Nat /\ ~(s < k)
    BY <1>1, <1>2, <2>1
  <2>3. s = k
    BY <2>1, <2>2
  <2> QED BY <2>3 DEF s
<1>4. /\ TASK_SLOTS' = [TASK_SLOTS EXCEPT ![k] = new] /\ MAPPED' = MAPPED \cup {k}
      /\ queue' = RQ!AddProcess(queue, NEXT_PID, SpawnedProcess) /\ NEXT_PID' = NEXT_PID + 1
  BY <1>1, <1>3, SlotFacts DEF SpawnTask
<1>5. NEXT_PID = k /\ MAPPED = 0 .. k - 1 /\ queue = QueueOf(v)
  BY DEF Spawned
<1>6. queue' = QueueOf([p \in 0 .. k |-> 0])
  <2>1. k \notin DOMAIN v
    OBVIOUS
  <2>2. [p \in DOMAIN v \cup {k} |-> IF p = k THEN 0 ELSE v[p]] = [p \in 0 .. k |-> 0]
    OBVIOUS
  <2> HIDE DEF v
  <2>3. RQ!AddProcess(QueueOf(v), k, SpawnedProcess) = QueueOf([p \in DOMAIN v \cup {k} |-> IF p = k THEN 0 ELSE v[p]])
    BY <2>1, AddToQueue
  <2> QED BY <1>4, <1>5, <2>2, <2>3
<1>7. /\ \A i \in Slots : i < k + 1 => SlotHas(i, i, EntryAt(i))'
      /\ \A i \in Slots : k + 1 <= i => TASK_SLOTS'[i].pid = None
      /\ \A i \in Slots : ~TASK_SLOTS'[i].in_hlt
  <2>1. TASK_SLOTS'[k].pid = k /\ TASK_SLOTS'[k].entry = EntryAt(k) /\ ~TASK_SLOTS'[k].in_hlt
    BY <1>1, <1>4, <1>5 DEF PoolInv
  <2>2. \A i \in Slots \ {k} : TASK_SLOTS'[i] = TASK_SLOTS[i]
    BY <1>4 DEF PoolInv
  <2>3. \A i \in Slots \ {k} : (i < k + 1 => i < k) /\ (k + 1 <= i => k <= i)
    BY <1>1
  <2>4. ~(k + 1 <= k)
    OBVIOUS
  <2> QED BY <1>1, <2>1, <2>2, <2>3, <2>4 DEF Spawned, SlotHas
<1>8. MAPPED' = 0 .. k /\ NEXT_PID' = k + 1
  BY <1>4, <1>5
<1>9. (k + 1) - 1 = k /\ Slots' = Slots
  BY DEF Slots
<1> QED
  BY <1>6, <1>7, <1>8, <1>9, Zenon DEF Spawned

(* What was spawned stays so when nothing of it changes. *)
LEMMA SpawnedKept ==
  ASSUME NEW k, Spawned(k), UNCHANGED <<TASK_SLOTS, MAPPED, NEXT_PID, queue>> PROVE Spawned(k)'
  BY Zenon DEF Spawned, Slots, SlotHas

(* So does the rest. *)
LEMMA UntouchedKept ==
  ASSUME Untouched, UNCHANGED <<COUNTER, TASK_C_EXITED, TASK_D_SPAWNED, halts>> PROVE Untouched'
  BY DEF Untouched, CountedTo, Iterations

(* Every step of the boot keeps EarlyInv. *)
LEMMA EarlyStep == HangInv /\ EarlyInv /\ [BootNext]_kernelVars => EarlyInv'
<1> SUFFICES ASSUME HangInv, EarlyInv, [BootNext]_kernelVars, pc' \in BeforeQueue \cup InInit PROVE EarlyInv'
  BY DEF EarlyInv, BeforeQueue, InInit
<1>q. "scheduler_boot" \notin BeforeQueue \cup {"spawn_a", "spawn_b", "spawn_c", "spawn_e"}
  BY DEF BeforeQueue
<1>1. CASE FlowStep
  <2>1. FlowEffects /\ FlowLeavesTime
    BY <1>1, FlowHasEffects, FlowTakesNoTime
  <2>2. pc \in BeforeQueue \cup InInit
    BY <2>1 DEF FlowEffects
  <2>3. Untouched'
    BY <2>1, <2>2, UntouchedKept DEF FlowEffects, FlowLeavesTime, EarlyInv
  <2>4. CASE InitSpawns
    <3>1. UNCHANGED <<TICKS, early_ticks>> /\ pc \in InInit
      BY <2>4, Zenon DEF InitSpawns, outside, BootAt, InInit
    <3>2. TICKS' = early_ticks'
      BY <3>1 DEF EarlyInv
    <3>p. PoolInv
      BY DEF HangInv
    <3>3. CASE pc = "spawn_a" /\ pc' = "spawn_b" /\ SpawnTask("a", TASK_SLOTS)
      <4>1. Spawned(0 + 1)'
        BY <3>3, <3>p, SpawnIsNext DEF EarlyInv, EntryAt
      <4> QED BY <2>3, <3>2, <3>3, <4>1 DEF EarlyInv, BeforeQueue
    <3>4. CASE pc = "spawn_b" /\ pc' = "spawn_c" /\ SpawnTask("b", TASK_SLOTS)
      <4>1. Spawned(1 + 1)'
        BY <3>4, <3>p, SpawnIsNext DEF EarlyInv, EntryAt
      <4> QED BY <2>3, <3>2, <3>4, <4>1 DEF EarlyInv, BeforeQueue
    <3>5. CASE pc = "spawn_c" /\ pc' = "spawn_e" /\ SpawnTask("c", TASK_SLOTS)
      <4>1. Spawned(2 + 1)'
        BY <3>5, <3>p, SpawnIsNext DEF EarlyInv, EntryAt
      <4> QED BY <2>3, <3>2, <3>5, <4>1 DEF EarlyInv, BeforeQueue
    <3>6. CASE pc = "spawn_e" /\ pc' = "scheduler_boot" /\ SpawnTask("e", TASK_SLOTS)
      <4>1. Spawned(3 + 1)'
        BY <3>6, <3>p, SpawnIsNext DEF EarlyInv, EntryAt
      <4> QED BY <2>3, <3>2, <3>6, <4>1 DEF EarlyInv, BeforeQueue
    <3>7. CASE pc = "spawn_e" /\ pc' = "scheduler_boot" /\ UNCHANGED MAPPED
      <4>1. MAPPED' = 0 .. 2
        BY <3>7 DEF EarlyInv, Spawned
      <4> QED BY <2>3, <3>2, <3>7, <4>1 DEF EarlyInv, BeforeQueue
    <3>8. \/ pc = "spawn_a" /\ pc' = "spawn_b" /\ SpawnTask("a", TASK_SLOTS)
          \/ pc = "spawn_b" /\ pc' = "spawn_c" /\ SpawnTask("b", TASK_SLOTS)
          \/ pc = "spawn_c" /\ pc' = "spawn_e" /\ SpawnTask("c", TASK_SLOTS)
          \/ pc = "spawn_e" /\ pc' = "scheduler_boot" /\ SpawnTask("e", TASK_SLOTS)
          \/ pc = "spawn_e" /\ pc' = "scheduler_boot" /\ UNCHANGED MAPPED
      BY <2>4, Zenon DEF InitSpawns, BootAt
    <3> QED BY <3>3, <3>4, <3>5, <3>6, <3>7, <3>8
  <2>5. CASE ~InitSpawns
    <3>1. FlowLeavesPool
      BY <1>1, <2>5, FlowAndPool
    <3>2. pc \in BeforeQueue /\ pc' \in BeforeQueue \cup {"spawn_a"}
      BY <3>1 DEF FlowLeavesPool
    <3>3. Spawned(0)'
      BY <2>1, <2>5, <3>1, <3>2, SpawnedKept DEF EarlyInv, FlowLeavesPool, FlowLeavesTime
    <3>4. pc' = "spawn_a" => TICKS' = early_ticks'
      BY <1>1, <2>5, <3>2 DEF FlowStep, EarlyBoot, LateBoot, TakesLocks, ChecksMemory, RunDemoSyscall, RunsProgram,
           ChecksReport, ChecksCapability, InitMasksInterrupts, SchedulerBoot, SanctumBoot, IpcBoot,
           HaltsForTicks, ChecksTasks, BringsUpAp, ChecksSmp, ChecksBspState, ExitQemu, outside, flowVars, BeforeQueue
    <3> QED
      BY <2>3, <3>2, <3>3, <3>4 DEF EarlyInv, BeforeQueue, InInit
  <2> QED BY <2>4, <2>5
<1>2. CASE TaskStep
  BY <1>2, TasksRunLate
<1>3. CASE OnTimerTick
  <2>1. pc' = pc /\ pc \in BeforeQueue
    BY <1>3, TickLeaves DEF HangInv, MaskInv, BeforeQueue, InInit
  <2>2. /\ UNCHANGED <<TASK_SLOTS, MAPPED, NEXT_PID, queue>>
        /\ UNCHANGED <<COUNTER, TASK_C_EXITED, TASK_D_SPAWNED, halts>>
    BY <1>3, <2>1, TickLeaves DEF HangInv, CoreInv, BeforeQueue
  <2>3. Spawned(0)' /\ Untouched'
    BY <2>1, <2>2, SpawnedKept, UntouchedKept DEF EarlyInv
  <2> QED BY <2>1, <2>3 DEF EarlyInv, BeforeQueue, InInit
<1>4. CASE TakesInterrupt \/ ApRuns \/ UNCHANGED kernelVars
  <2>1. /\ UNCHANGED <<TASK_SLOTS, MAPPED, NEXT_PID, queue>>
        /\ UNCHANGED <<COUNTER, TASK_C_EXITED, TASK_D_SPAWNED, halts>>
        /\ UNCHANGED <<pc, TICKS, early_ticks>>
    BY <1>4, RestTakesNoTime
  <2>2. /\ \A k \in 0 .. 4 : Spawned(k) => Spawned(k)'
        /\ Untouched => Untouched'
    BY <2>1, SpawnedKept, UntouchedKept
  <2> QED BY <2>1, <2>2 DEF EarlyInv
<1> QED
  BY <1>1, <1>2, <1>3, <1>4 DEF BootNext

----------------------------------------------------------------------------
(* Ticks and iterations, as far as the timetable is concerned. *)

(* Each task has the slot it was given, c's being that of d, or free. *)
LEMMA SlotsOfTasks ==
  ASSUME PoolInv, MAPPED = 0 .. 3, NEW a, NEW b, NEW e, TasksABE(a, b, e),
         NEW x \in {None, 2, 4}, TASK_SLOTS[2].pid = x
  PROVE  /\ SlotOf(0) = 0 /\ SlotOf(1) = 1 /\ SlotOf(3) = 3 /\ SlotOf(x) = 2
         /\ {0, 1, 2, 3} \subseteq Slots
<1>1. Slots \subseteq Nat /\ {0, 1, 2, 3} \subseteq Slots
  BY SlotFacts
<1>2. \A i \in Slots \ {0, 1, 2, 3} : TASK_SLOTS[i].pid = None /\ i > 3
  BY <1>1 DEF PoolInv
<1>3. TASK_SLOTS[0].pid = 0 /\ TASK_SLOTS[1].pid = 1 /\ TASK_SLOTS[3].pid = 3
  BY DEF TasksABE, SlotHas
<1>4. ASSUME NEW pid, NEW i \in {0, 1, 2, 3}, TASK_SLOTS[i].pid = pid,
             \A j \in Slots : TASK_SLOTS[j].pid = pid => j = i \/ j > 3
      PROVE  SlotOf(pid) = i
  <2> DEFINE s == SlotOf(pid)
  <2>1. s \in Slots /\ TASK_SLOTS[s].pid = pid /\ s <= i
    BY <1>1, <1>4, SlotOfIsFirst
  <2> HIDE DEF s
  <2>2. s = i \/ s > 3
    BY <1>4, <2>1
  <2>3. s = i
    BY <1>1, <1>4, <2>1, <2>2
  <2> QED BY <2>3 DEF s
<1>5. \A j \in Slots : j \in {0, 1, 2, 3} \/ (TASK_SLOTS[j].pid = None /\ j > 3)
  BY <1>2
<1>6. SlotOf(0) = 0 /\ SlotOf(1) = 1 /\ SlotOf(3) = 3
  BY <1>3, <1>4, <1>5 DEF None
<1>7. SlotOf(x) = 2
  BY <1>3, <1>4, <1>5 DEF None
<1> QED BY <1>1, <1>6, <1>7

(* The interrupt wakes the running task. *)
LEMMA TickWakes ==
  ASSUME PoolInv, OnTimerTick, CURRENT # BOOT_PID, NEW s \in Slots, SlotOf(CURRENT) = s
  PROVE  /\ \A i \in Slots \ {s} : TASK_SLOTS'[i] = TASK_SLOTS[i]
         /\ TASK_SLOTS'[s].pid = TASK_SLOTS[s].pid /\ TASK_SLOTS'[s].entry = TASK_SLOTS[s].entry
         /\ ~TASK_SLOTS'[s].in_hlt
<1>1. TASK_SLOTS' = [TASK_SLOTS EXCEPT ![s].in_hlt = FALSE]
  BY DEF OnTimerTick, WakesUp, RunningSlot
<1> QED BY <1>1 DEF PoolInv

(* The tick charges whoever runs, and dispatches the first of the queue as *)
(* it was before.                                                          *)
LEMMA TickDispatches ==
  ASSUME OnTimerTick, CountInv, scheduler_up, NEW v, queue = QueueOf(v), DOMAIN v \subseteq 0 .. 4,
         \A q \in DOMAIN v : v[q] \in 0 .. 9, NEW n \in 0 .. 26, TICKS = early_ticks + n,
         early_ticks + TicksNeeded <= SWITCH_TICK_BUDGET, NEW p \in 0 .. 4, RunsFirst(p, v),
         CURRENT = BOOT_PID \/ CURRENT \in DOMAIN v
  PROVE  /\ TICKS' = early_ticks' + (n + 1) /\ CURRENT' = p
         /\ CURRENT = BOOT_PID => queue' = queue
         /\ CURRENT # BOOT_PID => queue' = QueueOf([v EXCEPT ![CURRENT] = @ + 1])
<1>1. early_ticks \in Int /\ TICKS \in Int /\ SWITCH_TICK_BUDGET \in Int
  BY KernelAssumption DEF CountInv, None
<1>2. TICKS' = TICKS + 1 /\ early_ticks' = early_ticks /\ ~(TICKS' > SWITCH_TICK_BUDGET)
  BY <1>1, TickLeaves DEF TicksNeeded
<1>3. RQ!PickNextTask(queue) = p
  BY PickOfQueue
<1>4. CURRENT' = p
  BY <1>2, <1>3 DEF OnTimerTick, NextToRun, None
<1>5. CURRENT = BOOT_PID => queue' = queue
  BY DEF OnTimerTick
<1>6. ASSUME CURRENT # BOOT_PID PROVE queue' = QueueOf([v EXCEPT ![CURRENT] = @ + 1])
  <2>1. queue' = RQ!UpdateVruntime(QueueOf(v), CURRENT, 1)
    BY <1>6 DEF OnTimerTick
  <2>2. CURRENT \in DOMAIN v /\ v[CURRENT] \in 0 .. 9
    BY <1>6
  <2> QED BY <2>1, <2>2, ChargeInQueue
<1> QED BY <1>1, <1>2, <1>4, <1>5, <1>6

(* Whoever is interrupted is in its hlt, unless c has just exited. *)
LEMMA TickFindsHlt ==
  ASSUME DueInv, OnTimerTick, CURRENT # BOOT_PID, ~mid_period, NEW s, SlotOf(CURRENT) = s
  PROVE  TASK_SLOTS[s].in_hlt
  BY TickLeaves DEF DueInv, TickIsDue, InHlt

(* Charged for a tick, a, b and e have counted. *)
LEMMA TickKeepsABE ==
  ASSUME PoolInv, DueInv, OnTimerTick, NEW a \in 0 .. 9, NEW b \in 0 .. 9, NEW e \in 0 .. 9, TasksABE(a, b, e),
         NEW s \in {0, 1, 2, 3}, s \in Slots, {0, 1, 2, 3} \subseteq Slots, CURRENT # BOOT_PID, SlotOf(CURRENT) = s,
         CURRENT = s \/ (s = 2 /\ CURRENT = 4), ~mid_period \/ (a > 0 /\ b > 0 /\ e > 0)
  PROVE  TasksABE(IF s = 0 THEN a + 1 ELSE a, IF s = 1 THEN b + 1 ELSE b, IF s = 3 THEN e + 1 ELSE e)'
<1>1. /\ \A i \in Slots \ {s} : TASK_SLOTS'[i] = TASK_SLOTS[i]
      /\ TASK_SLOTS'[s].pid = TASK_SLOTS[s].pid /\ TASK_SLOTS'[s].entry = TASK_SLOTS[s].entry
      /\ ~TASK_SLOTS'[s].in_hlt
  BY TickWakes
<1>2. COUNTER' = COUNTER
  BY TickLeaves
<1>3. ~mid_period => TASK_SLOTS[s].in_hlt
  BY TickFindsHlt
<1>4. s \in {0, 1, 3} \/ CURRENT \notin {0, 1, 3} => \A i \in {0, 1, 3} : ~TASK_SLOTS'[i].in_hlt
  BY <1>1 DEF TasksABE
<1>5. s = 2 => CURRENT \notin {0, 1, 3}
  OBVIOUS
<1>6. SlotHas(0, 0, "a")' /\ SlotHas(1, 1, "b")' /\ SlotHas(3, 3, "e")'
  BY <1>1 DEF TasksABE, SlotHas
<1>7. \A i \in {0, 1, 3} : ~TASK_SLOTS'[i].in_hlt
  BY <1>4, <1>5
<1>8. /\ (IF s = 0 THEN a + 1 ELSE a) > 0 => COUNTER'["a"] > 0
      /\ (IF s = 1 THEN b + 1 ELSE b) > 0 => COUNTER'["b"] > 0
      /\ (IF s = 3 THEN e + 1 ELSE e) > 0 => COUNTER'["e"] > 0
  BY <1>2, <1>3 DEF TasksABE
<1> QED BY <1>6, <1>7, <1>8 DEF TasksABE

(* The first tick. *)
LEMMA FirstTick ==
  ASSUME CountInv, scheduler_up, Ready, OnTimerTick, BeforeTicks
  PROVE  UntilExit'
<1> DEFINE v == Times(0, 0, 0, 0)
<1>1. queue = QueueOf(v) /\ TICKS = early_ticks + 0 /\ CURRENT = BOOT_PID
  BY DEF BeforeTicks, FourTasks, At
<1>2. DOMAIN v = 0 .. 3 /\ \A q \in DOMAIN v : v[q] = 0
  BY DEF Times
<1>3. RunsFirst(0, v)
  BY LeastRunsFirst DEF LeastOfFour
<1> HIDE DEF v
<1>4. TICKS' = early_ticks' + (0 + 1) /\ CURRENT' = 0 /\ queue' = queue
  BY <1>1, <1>2, <1>3, TickDispatches DEF Ready
<1>5. UNCHANGED <<NEXT_PID, TASK_SLOTS, COUNTER, TASK_C_EXITED, TASK_D_SPAWNED>>
  BY <1>1, TickLeaves
<1>6. CURRENT \notin {0, 1, 2, 3}
  BY <1>1, KernelAssumption
<1>7. FourTasks(0, 0, 0, 0)'
  BY <1>4, <1>5, <1>6 DEF BeforeTicks, FourTasks, TasksABE, SlotHas
<1>8. At(1, 0)'
  BY <1>4 DEF At
<1>9. <<1, 0, 0, 0, 0, 0>> \in Timetable
  BY DEF Timetable
<1> QED BY <1>7, <1>8, <1>9 DEF UntilExit

(* A tick while the four tasks are there, before c's last turn. *)
LEMMA TickOfFour ==
  ASSUME HangInv, CountInv, DueInv, scheduler_up, Ready, OnTimerTick, UntilExit
  PROVE  UntilExit'
<1>1. PICK r \in Timetable : At(r[1], r[2]) /\ FourTasks(r[3], r[4], r[5], r[6])
  BY DEF UntilExit
<1> DEFINE cur == r[2]
           a == r[3]
           b == r[4]
           c == r[5]
           e == r[6]
           v == Times(a, b, c, e)
           na == IF cur = 0 THEN a + 1 ELSE a
           nb == IF cur = 1 THEN b + 1 ELSE b
           nc == IF cur = 2 THEN c + 1 ELSE c
           ne == IF cur = 3 THEN e + 1 ELSE e
<1>2. r[1] \in 1 .. 24 /\ cur \in 0 .. 3 /\ a \in 0 .. 9 /\ b \in 0 .. 9 /\ c \in 0 .. 5 /\ e \in 0 .. 9
  BY TimetableIs
<1>3. TICKS = early_ticks + r[1] /\ CURRENT = cur /\ queue = QueueOf(v) /\ cur # BOOT_PID
  BY <1>1, <1>2, KernelAssumption DEF At, FourTasks
<1>4. SlotOf(cur) = cur /\ {0, 1, 2, 3} \subseteq Slots /\ cur \in {0, 1, 2, 3}
  <2>1. TasksABE(a, b, e) /\ TASK_SLOTS[2].pid = 2 /\ PoolInv /\ MAPPED = 0 .. 3
    BY <1>1 DEF FourTasks, SlotHas, HangInv, Ready
  <2>2. SlotOf(0) = 0 /\ SlotOf(1) = 1 /\ SlotOf(3) = 3 /\ SlotOf(2) = 2 /\ {0, 1, 2, 3} \subseteq Slots
    BY <2>1, SlotsOfTasks
  <2> QED BY <1>2, <2>2
<1>5. ~mid_period
  BY <1>1 DEF FourTasks, DueInv
<1>6. TASK_SLOTS[cur].in_hlt
  BY <1>3, <1>4, <1>5, TickFindsHlt
<1>7. r[1] # 24
  <2> SUFFICES ASSUME r[1] = 24 PROVE FALSE
    OBVIOUS
  <2>1. cur = 2 /\ c = 5
    BY TimetableIs
  <2>2. COUNTER["c"] = 6
    BY <1>1, <1>6, <2>1 DEF FourTasks
  <2>3. COUNTER["c"] \in 0 .. 5
    BY CountedToIs DEF CountInv, CountedTo, Iterations
  <2> QED BY <2>2, <2>3
<1>8. PICK p \in 0 .. 3 : LeastOfFour(p, a, b, c, e) /\ Follows(r, p) \in Timetable
  BY <1>7, TimetableGoesOn
<1>9. RunsFirst(p, v)
  <2>1. a \in Nat /\ b \in Nat /\ c \in Nat /\ e \in Nat
    BY <1>2
  <2> HIDE DEF a, b, c, e
  <2> QED BY <1>8, <2>1, LeastRunsFirst
<1>10. DOMAIN v = 0 .. 3 /\ \A q \in DOMAIN v : v[q] \in 0 .. 9
  BY <1>2 DEF Times
<1>11. [v EXCEPT ![cur] = @ + 1] = Times(na, nb, nc, ne)
  BY <1>2 DEF Times
<1>12. TASK_SLOTS[2].in_hlt => cur = 2
  BY <1>1, <1>3 DEF FourTasks
<1>13. COUNTER["c"] = IF TASK_SLOTS[2].in_hlt THEN c + 1 ELSE c
  BY <1>1 DEF FourTasks
<1>14. TasksABE(na, nb, ne)'
  <2>1. TasksABE(a, b, e) /\ PoolInv
    BY <1>1 DEF FourTasks, HangInv
  <2> HIDE DEF a, b, e, cur
  <2> QED BY <1>2, <1>3, <1>4, <1>5, <2>1, TickKeepsABE
<1>15. /\ \A i \in Slots \ {cur} : TASK_SLOTS'[i] = TASK_SLOTS[i]
       /\ TASK_SLOTS'[cur].pid = TASK_SLOTS[cur].pid /\ TASK_SLOTS'[cur].entry = TASK_SLOTS[cur].entry
       /\ ~TASK_SLOTS'[cur].in_hlt
  <2>1. PoolInv
    BY DEF HangInv
  <2> HIDE DEF cur
  <2> QED BY <1>3, <1>4, <2>1, TickWakes
<1>16. TICKS' = early_ticks' + (r[1] + 1) /\ CURRENT' = p /\ queue' = QueueOf(Times(na, nb, nc, ne))
  <2>1. DOMAIN v \subseteq 0 .. 4 /\ r[1] \in 0 .. 26 /\ p \in 0 .. 4 /\ cur \in DOMAIN v
    BY <1>2, <1>10
  <2>2. early_ticks + TicksNeeded <= SWITCH_TICK_BUDGET
    BY DEF Ready
  <2> HIDE DEF v, cur, na, nb, nc, ne
  <2> QED BY <1>3, <1>9, <1>10, <1>11, <2>1, <2>2, TickDispatches
<1>17. UNCHANGED <<NEXT_PID, COUNTER, TASK_C_EXITED, TASK_D_SPAWNED>>
  BY TickLeaves
<1>18. SlotHas(2, 2, "c")' /\ ~TASK_SLOTS'[2].in_hlt
  BY <1>1, <1>4, <1>12, <1>15 DEF FourTasks, SlotHas
<1>19. COUNTER'["c"] = nc
  BY <1>6, <1>12, <1>13, <1>17
<1>20. FourTasks(na, nb, nc, ne)'
  <2>1. NEXT_PID' = 4 /\ ~TASK_C_EXITED' /\ ~TASK_D_SPAWNED'
    BY <1>1, <1>17 DEF FourTasks
  <2> HIDE DEF na, nb, nc, ne
  <2> QED BY <1>14, <1>16, <1>18, <1>19, <2>1 DEF FourTasks
<1>21. At(r[1] + 1, p)'
  BY <1>16 DEF At
<1>22. Follows(r, p) = <<r[1] + 1, p, na, nb, nc, ne>>
  BY DEF Follows
<1> HIDE DEF na, nb, nc, ne
<1>23. <<r[1] + 1, p, na, nb, nc, ne>> \in Timetable
  BY <1>8, <1>22
<1> QED
  BY <1>20, <1>21, <1>23 DEF UntilExit

(* A tick after c's exit: e has the rest of c's period and the next one,   *)
(* then comes a.                                                           *)
LEMMA TickOfThree ==
  ASSUME HangInv, CountInv, DueInv, scheduler_up, Ready, OnTimerTick, UntilSpawn
  PROVE  UntilSpawn'
<1>0. PoolInv /\ MAPPED = 0 .. 3 /\ early_ticks + TicksNeeded <= SWITCH_TICK_BUDGET
  BY DEF HangInv, Ready
<1>1. ASSUME NEW a \in 1 .. 9, NEW b \in 1 .. 9, NEW e \in 1 .. 9, ThreeTasks(a, b, e), CURRENT = 3,
             NEW n \in 0 .. 26, TICKS = early_ticks + n, NEW p \in {0, 3}, RunsFirst(p, TimesABE(a, b, e))
      PROVE  At(n + 1, p)' /\ ThreeTasks(a, b, e + 1)' /\ ~mid_period' /\ ~TASK_SLOTS'[0].in_hlt
  <2>1. TasksABE(a, b, e) /\ TASK_SLOTS[2] = EmptySlot /\ queue = QueueOf(TimesABE(a, b, e))
    BY <1>1 DEF ThreeTasks
  <2>2. TASK_SLOTS[2].pid = None
    BY <2>1 DEF EmptySlot
  <2>3. SlotOf(3) = 3 /\ {0, 1, 2, 3} \subseteq Slots
    BY <1>0, <2>1, <2>2, SlotsOfTasks
  <2>4. CURRENT # BOOT_PID
    BY <1>1, KernelAssumption
  <2>5. TasksABE(a, b, e + 1)'
    BY <1>0, <1>1, <2>1, <2>3, <2>4, TickKeepsABE
  <2>6. \A i \in Slots \ {3} : TASK_SLOTS'[i] = TASK_SLOTS[i]
    BY <1>0, <1>1, <2>3, <2>4, TickWakes
  <2>9. TICKS' = early_ticks' + (n + 1) /\ CURRENT' = p /\ queue' = QueueOf(TimesABE(a, b, e + 1))
    <3> DEFINE v == TimesABE(a, b, e)
    <3>1. queue = QueueOf(v) /\ RunsFirst(p, v)
      BY <1>1, <2>1
    <3>2. DOMAIN v = {0, 1, 3} /\ v[0] = a /\ v[1] = b /\ v[3] = e
      BY TimesABEAre
    <3>3. [v EXCEPT ![3] = @ + 1] = TimesABE(a, b, e + 1)
      BY <1>1, ChargeE
    <3> HIDE DEF v
    <3>4. DOMAIN v \subseteq 0 .. 4 /\ CURRENT \in DOMAIN v /\ p \in 0 .. 4 /\ \A q \in DOMAIN v : v[q] \in 0 .. 9
      BY <1>1, <3>2
    <3>5. TICKS' = early_ticks' + (n + 1) /\ CURRENT' = p /\ queue' = QueueOf([v EXCEPT ![CURRENT] = @ + 1])
      BY <1>0, <1>1, <2>4, <3>1, <3>4, TickDispatches
    <3> QED BY <1>1, <3>3, <3>5
  <2>10. /\ UNCHANGED <<NEXT_PID, COUNTER, TASK_C_EXITED, TASK_D_SPAWNED, TASK_EXIT_SLOT>>
         /\ ~mid_period'
    BY TickLeaves
  <2>11. TASK_SLOTS'[2] = EmptySlot /\ ~TASK_SLOTS'[0].in_hlt
    BY <1>1, <2>1, <2>3, <2>6 DEF TasksABE
  <2>12. ThreeTasks(a, b, e + 1)'
    BY <1>1, <2>5, <2>9, <2>10, <2>11 DEF ThreeTasks, CHasExited, EmptySlot, Iterations
  <2> QED BY <2>9, <2>10, <2>11, <2>12 DEF At
<1>2. CASE At(24, 3) /\ ThreeTasks(6, 7, 5)
  <2>1. RunsFirst(3, TimesABE(6, 7, 5))
    <3> DEFINE v == TimesABE(6, 7, 5)
    <3>1. DOMAIN v = {0, 1, 3} /\ v[0] = 6 /\ v[1] = 7 /\ v[3] = 5
      BY TimesABEAre
    <3> HIDE DEF v
    <3>2. RunsFirst(3, v)
      BY <3>1 DEF RunsFirst
    <3> QED BY <3>2 DEF v
  <2>2. CURRENT = 3 /\ TICKS = early_ticks + 24
    BY <1>2 DEF At
  <2>3. At(24 + 1, 3)' /\ ThreeTasks(6, 7, 5 + 1)'
    <3>1. 6 \in 1 .. 9 /\ 7 \in 1 .. 9 /\ 5 \in 1 .. 9 /\ 24 \in 0 .. 26 /\ 3 \in {0, 3}
      OBVIOUS
    <3> QED BY <1>1, <1>2, <2>1, <2>2, <3>1, Zenon
  <2>4. 24 + 1 = 25 /\ 5 + 1 = 6
    OBVIOUS
  <2> QED BY <2>3, <2>4 DEF UntilSpawn
<1>3. CASE At(25, 3) /\ ThreeTasks(6, 7, 6)
  <2>1. RunsFirst(0, TimesABE(6, 7, 6))
    <3> DEFINE v == TimesABE(6, 7, 6)
    <3>1. DOMAIN v = {0, 1, 3} /\ v[0] = 6 /\ v[1] = 7 /\ v[3] = 6
      BY TimesABEAre
    <3> HIDE DEF v
    <3>2. RunsFirst(0, v)
      BY <3>1 DEF RunsFirst
    <3> QED BY <3>2 DEF v
  <2>2. CURRENT = 3 /\ TICKS = early_ticks + 25
    BY <1>3 DEF At
  <2>3. At(25 + 1, 0)' /\ ThreeTasks(6, 7, 6 + 1)' /\ ~mid_period' /\ ~TASK_SLOTS'[0].in_hlt
    <3>1. 6 \in 1 .. 9 /\ 7 \in 1 .. 9 /\ 25 \in 0 .. 26 /\ 0 \in {0, 3}
      OBVIOUS
    <3> QED BY <1>1, <1>3, <2>1, <2>2, <3>1, Zenon
  <2>4. 25 + 1 = 26 /\ 6 + 1 = 7
    OBVIOUS
  <2> QED BY <2>3, <2>4 DEF UntilSpawn
<1>4. CASE At(26, 0) /\ ThreeTasks(6, 7, 7) /\ ~mid_period /\ ~TASK_SLOTS[0].in_hlt
  <2>1. SlotOf(0) = 0
    <3>1. TasksABE(6, 7, 7) /\ TASK_SLOTS[2].pid = None
      BY <1>4 DEF ThreeTasks, EmptySlot
    <3> QED BY <1>0, <3>1, SlotsOfTasks
  <2>2. CURRENT = 0 /\ 0 # BOOT_PID
    BY <1>4, KernelAssumption DEF At
  <2> QED BY <1>4, <2>1, <2>2, TickFindsHlt
<1> QED
  BY <1>2, <1>3, <1>4 DEF UntilSpawn

(* A tick after d was spawned: d is next, and has run when it is           *)
(* interrupted.                                                            *)
LEMMA TickWithTaskD ==
  ASSUME HangInv, CountInv, DueInv, scheduler_up, Ready, OnTimerTick, UntilDHasRun
  PROVE  UntilDHasRun' \/ AllHaveRun'
<1>0. PoolInv /\ MAPPED = 0 .. 3 /\ early_ticks + TicksNeeded <= SWITCH_TICK_BUDGET
  BY DEF HangInv, Ready
<1>t. /\ UNCHANGED <<NEXT_PID, COUNTER, TASK_C_EXITED, TASK_D_SPAWNED, TASK_EXIT_SLOT, TASK_D_SPAWN_SLOT>>
      /\ ~mid_period'
  BY TickLeaves
<1>1. CASE At(26, 0) /\ WithTaskD(6, 7, 7, 0)
  <2> DEFINE v == TimesABED(6, 7, 7, 0)
  <2>1. /\ TasksABE(6, 7, 7) /\ SlotHas(2, 4, "d") /\ queue = QueueOf(v) /\ DIsSpawned
        /\ TASK_SLOTS[2].in_hlt => CURRENT = 4
    BY <1>1 DEF WithTaskD, DIsSpawned
  <2>2. CURRENT = 0 /\ TICKS = early_ticks + 26 /\ 0 # BOOT_PID
    BY <1>1, KernelAssumption DEF At
  <2>3. SlotOf(0) = 0 /\ {0, 1, 2, 3} \subseteq Slots
    <3>1. TASK_SLOTS[2].pid = 4
      BY <2>1 DEF SlotHas
    <3> QED BY <1>0, <2>1, <3>1, SlotsOfTasks
  <2>4. TasksABE(7, 7, 7)'
    <3>1. TasksABE(6 + 1, 7, 7)'
      BY <1>0, <2>1, <2>2, <2>3, TickKeepsABE
    <3> QED BY <3>1
  <2>5. TASK_SLOTS'[2] = TASK_SLOTS[2]
    BY <1>0, <2>2, <2>3, TickWakes
  <2>6. DIsSpawned' /\ ~TASK_SLOTS'[2].in_hlt
    BY <1>t, <2>1, <2>2, <2>5 DEF DIsSpawned, CHasExited, SlotHas, Iterations
  <2>v. DOMAIN v = {0, 1, 3, 4} /\ v[0] = 6 /\ v[1] = 7 /\ v[3] = 7 /\ v[4] = 0
    BY TimesABEDAre
  <2>w. [v EXCEPT ![0] = @ + 1] = TimesABED(7, 7, 7, 0)
    <3>1. v = TimesABED(6, 7, 7, 0) /\ 6 \in Nat /\ 7 = 6 + 1
      OBVIOUS
    <3> QED BY <3>1, ChargeA
  <2> HIDE DEF v
  <2>7. RunsFirst(4, v)
    BY <2>v DEF RunsFirst
  <2>8. (\A q \in DOMAIN v : v[q] \in 0 .. 9) /\ 6 + 1 = 7 /\ 26 + 1 = 27
    BY <2>v
  <2>9. TICKS' = early_ticks' + 27 /\ CURRENT' = 4 /\ queue' = QueueOf(TimesABED(7, 7, 7, 0))
    <3>1. DOMAIN v \subseteq 0 .. 4 /\ CURRENT \in DOMAIN v
      BY <2>2, <2>v
    <3>2. TICKS' = early_ticks' + (26 + 1) /\ CURRENT' = 4 /\ queue' = QueueOf([v EXCEPT ![CURRENT] = @ + 1])
      BY <1>0, <2>1, <2>2, <2>7, <2>8, <3>1, TickDispatches
    <3> QED BY <2>2, <2>8, <2>w, <3>2
  <2>10. WithTaskD(7, 7, 7, 0)' /\ At(27, 4)'
    BY <2>4, <2>6, <2>9 DEF WithTaskD, At
  <2> QED BY <1>t, <2>10 DEF UntilDHasRun
<1>2. CASE At(27, 4) /\ WithTaskD(7, 7, 7, 0) /\ ~mid_period
  <2>1. /\ TasksABE(7, 7, 7) /\ SlotHas(2, 4, "d") /\ queue = QueueOf(TimesABED(7, 7, 7, 0)) /\ DIsSpawned
        /\ TASK_SLOTS[2].in_hlt => COUNTER["d"] > 0
    BY <1>2 DEF WithTaskD, DIsSpawned
  <2>2. CURRENT = 4 /\ 4 # BOOT_PID
    BY <1>2, KernelAssumption DEF At
  <2>3. SlotOf(4) = 2 /\ 2 \in Slots
    <3>1. TASK_SLOTS[2].pid = 4
      BY <2>1 DEF SlotHas
    <3> QED BY <1>0, <2>1, <3>1, SlotsOfTasks
  <2>4. COUNTER["d"] > 0
    BY <1>2, <2>1, <2>2, <2>3, TickFindsHlt
  <2>5. SlotHas(2, 4, "d")'
    BY <1>0, <2>1, <2>2, <2>3, TickWakes DEF SlotHas
  <2>6. 2 \notin RQ!Queued(queue')
    <3> DEFINE v == TimesABED(7, 7, 7, 0)
    <3>v. DOMAIN v = {0, 1, 3, 4} /\ v[4] = 0
      BY TimesABEDAre
    <3>1. CURRENT \in DOMAIN v /\ v[CURRENT] \in 0 .. 9 /\ DOMAIN v = {0, 1, 3, 4}
      BY <2>2, <3>v
    <3>2. queue' = RQ!UpdateVruntime(QueueOf(v), CURRENT, 1)
      BY <2>1, <2>2 DEF OnTimerTick
    <3> HIDE DEF v
    <3>3. queue' = QueueOf([v EXCEPT ![CURRENT] = @ + 1])
      BY <3>1, <3>2, ChargeInQueue
    <3> DEFINE w == [v EXCEPT ![CURRENT] = @ + 1]
    <3>4. DOMAIN w = {0, 1, 3, 4}
      BY <3>1
    <3>w. queue' = QueueOf(w)
      BY <3>3
    <3> HIDE DEF w
    <3>5. RQ!Queued(QueueOf(w)) = {0, 1, 3, 4}
      BY <3>4, QueuedOfQueue
    <3> QED BY <3>w, <3>5
  <2>7. DIsSpawned'
    BY <1>t, <2>1, <2>5 DEF DIsSpawned, CHasExited, Iterations
  <2>8. COUNTER["a"] > 0 /\ COUNTER["b"] > 0 /\ COUNTER["e"] > 0
    BY <2>1 DEF TasksABE
  <2>9. RQ!Queued(queue)' = RQ!Queued(queue')
    BY DEF RQ!Queued
  <2> QED BY <1>t, <2>4, <2>6, <2>7, <2>8, <2>9 DEF AllHaveRun
<1> QED
  BY <1>1, <1>2 DEF UntilDHasRun

(* A task that iterates counts up to its bound. *)
LEMMA IterationCounts ==
  ASSUME CountInv, NEW x \in {"a", "b", "c", "d", "e"}, Iterates(x)
  PROVE  /\ \A y \in {"a", "b", "c", "d", "e"} \ {x} : COUNTER'[y] = COUNTER[y]
         /\ COUNTER'[x] = IF COUNTER[x] < CountedTo[x] THEN COUNTER[x] + 1 ELSE COUNTER[x]
         /\ COUNTER'[x] > 0 /\ CountedTo["c"] = 5
         /\ \A y \in {"a", "b", "c", "d", "e"} : COUNTER[y] > 0 => COUNTER'[y] > 0
<1>1. /\ COUNTER \in [DOMAIN CountedTo -> Nat] /\ x \in DOMAIN CountedTo
      /\ COUNTER' = [COUNTER EXCEPT ![x] = IF @ < CountedTo[x] THEN @ + 1 ELSE @]
  BY CountedToIs DEF CountInv, Iterates
<1>2. \A y \in {"a", "b", "c", "d", "e"} : CountedTo[y] \in Nat \ {0} /\ COUNTER[y] \in Nat
  BY <1>1, CountedToIs DEF CountedTo, Iterations
<1>3. CountedTo["c"] = 5
  BY DEF CountedTo, Iterations
<1>4. /\ \A y \in {"a", "b", "c", "d", "e"} \ {x} : COUNTER'[y] = COUNTER[y]
      /\ COUNTER'[x] = IF COUNTER[x] < CountedTo[x] THEN COUNTER[x] + 1 ELSE COUNTER[x]
  BY <1>1, CountedToIs
<1>5. COUNTER'[x] > 0
  BY <1>2, <1>4
<1> QED BY <1>3, <1>4, <1>5

(* One of the tasks iterates: a with nothing to spawn, c before its last   *)
(* turn.                                                                   *)
LEMMA IterationIs ==
  ASSUME PoolInv, CountInv, TaskIterates, NEW s \in Slots, SlotOf(CURRENT) = s
  PROVE  /\ CURRENT # BOOT_PID /\ ~TASK_SLOTS[s].in_hlt
         /\ \E x \in {"a", "b", "c", "d", "e"} :
              Iterates(x) /\ TASK_SLOTS[s].entry = x /\ (x = "a" => ~SpawnIsDue) /\ (x = "c" => COUNTER["c"] < 5)
         /\ \A i \in Slots \ {s} : TASK_SLOTS'[i] = TASK_SLOTS[i]
         /\ TASK_SLOTS'[s].pid = TASK_SLOTS[s].pid /\ TASK_SLOTS'[s].entry = TASK_SLOTS[s].entry
         /\ TASK_SLOTS'[s].in_hlt
         /\ UNCHANGED <<queue, MAPPED, NEXT_PID, early_ticks, CURRENT, mid_period, pc, halts, TICKS>>
         /\ UNCHANGED <<TASK_C_EXITED, TASK_D_SPAWNED, TASK_EXIT_SLOT, TASK_D_SPAWN_SLOT>>
<1>1. /\ UNCHANGED <<queue, MAPPED, NEXT_PID, early_ticks, CURRENT, mid_period, pc, halts, TICKS>>
      /\ UNCHANGED <<TASK_C_EXITED, TASK_D_SPAWNED, TASK_EXIT_SLOT, TASK_D_SPAWN_SLOT>>
  BY DEF TaskIterates, cpuVars, flowVars
<1>2. TASK_SLOTS' = [TASK_SLOTS EXCEPT ![s].in_hlt = TRUE]
  BY DEF TaskIterates, GoesToHlt, RunningSlot
<1>3. /\ \A i \in Slots \ {s} : TASK_SLOTS'[i] = TASK_SLOTS[i]
      /\ TASK_SLOTS'[s].pid = TASK_SLOTS[s].pid /\ TASK_SLOTS'[s].entry = TASK_SLOTS[s].entry
      /\ TASK_SLOTS'[s].in_hlt
  BY <1>2 DEF PoolInv
<1>4. \E x \in {"a", "b", "c", "d", "e"} :
              Iterates(x) /\ (x = "a" => ~SpawnIsDue) /\ (x = "c" => COUNTER["c"] < 5)
  BY DEF TaskIterates, Iterations
<1>5. \A x : Iterates(x) => CURRENT # BOOT_PID /\ ~TASK_SLOTS[s].in_hlt /\ TASK_SLOTS[s].entry = x
  BY DEF Iterates, TaskAt, InHlt
<1> QED BY <1>1, <1>3, <1>4, <1>5

(* Who counts may go to its hlt. *)
LEMMA CountingKeepsABE ==
  ASSUME CountInv, NEW a, NEW b, NEW e, TasksABE(a, b, e), NEW x \in {"a", "b", "c", "d", "e"}, Iterates(x),
         NEW s \in {0, 1, 2, 3}, TASK_SLOTS[s].entry = x, CURRENT = s \/ (s = 2 /\ CURRENT = 4), CURRENT' = CURRENT,
         \A i \in {0, 1, 3} \ {s} : TASK_SLOTS'[i] = TASK_SLOTS[i],
         s # 2 => TASK_SLOTS'[s].pid = TASK_SLOTS[s].pid /\ TASK_SLOTS'[s].entry = TASK_SLOTS[s].entry
  PROVE  TasksABE(a, b, e)'
<1>1. SlotHas(0, 0, "a")' /\ SlotHas(1, 1, "b")' /\ SlotHas(3, 3, "e")'
  BY DEF TasksABE, SlotHas
<1>2. /\ \A y \in {"a", "b", "c", "d", "e"} : COUNTER[y] > 0 => COUNTER'[y] > 0
      /\ COUNTER'[x] > 0
  BY IterationCounts
<1>3. (s = 0 => x = "a") /\ (s = 1 => x = "b") /\ (s = 3 => x = "e")
  BY DEF TasksABE, SlotHas
<1>4. /\ a > 0 => COUNTER'["a"] > 0
      /\ b > 0 => COUNTER'["b"] > 0
      /\ e > 0 => COUNTER'["e"] > 0
  BY <1>2 DEF TasksABE
<1>5. /\ TASK_SLOTS'[0].in_hlt => CURRENT' = 0 /\ COUNTER'["a"] > 0
      /\ TASK_SLOTS'[1].in_hlt => CURRENT' = 1 /\ COUNTER'["b"] > 0
      /\ TASK_SLOTS'[3].in_hlt => CURRENT' = 3 /\ COUNTER'["e"] > 0
  BY <1>2, <1>3 DEF TasksABE
<1> QED BY <1>1, <1>4, <1>5 DEF TasksABE

(* Iterations keep to the timetable. *)
LEMMA IterationOfFour ==
  ASSUME HangInv, CountInv, Ready, TaskIterates, UntilExit
  PROVE  UntilExit'
<1>1. PICK r \in Timetable : At(r[1], r[2]) /\ FourTasks(r[3], r[4], r[5], r[6])
  BY DEF UntilExit
<1> DEFINE s == r[2]
           a == r[3]
           b == r[4]
           c == r[5]
           e == r[6]
<1>2. s \in {0, 1, 2, 3} /\ c \in 0 .. 5
  BY TimetableIs
<1>3. CURRENT = s /\ TICKS = early_ticks + r[1] /\ FourTasks(a, b, c, e)
  BY <1>1 DEF At
<1> HIDE DEF s, a, b, c, e
<1>4. TasksABE(a, b, e) /\ SlotHas(2, 2, "c") /\ COUNTER["c"] = (IF TASK_SLOTS[2].in_hlt THEN c + 1 ELSE c)
  BY <1>3 DEF FourTasks
<1>5. SlotOf(s) = s /\ {0, 1, 2, 3} \subseteq Slots
  <2>1. TASK_SLOTS[2].pid = 2 /\ PoolInv /\ MAPPED = 0 .. 3
    BY <1>4 DEF SlotHas, HangInv, Ready
  <2>2. SlotOf(0) = 0 /\ SlotOf(1) = 1 /\ SlotOf(3) = 3 /\ SlotOf(2) = 2 /\ {0, 1, 2, 3} \subseteq Slots
    BY <1>4, <2>1, SlotsOfTasks
  <2> QED BY <1>2, <2>2
<1>6. PoolInv /\ s \in Slots /\ SlotOf(CURRENT) = s
  BY <1>2, <1>3, <1>5 DEF HangInv
<1>7. /\ ~TASK_SLOTS[s].in_hlt
      /\ \A i \in Slots \ {s} : TASK_SLOTS'[i] = TASK_SLOTS[i]
      /\ TASK_SLOTS'[s].pid = TASK_SLOTS[s].pid /\ TASK_SLOTS'[s].entry = TASK_SLOTS[s].entry
      /\ TASK_SLOTS'[s].in_hlt
      /\ UNCHANGED <<queue, NEXT_PID, early_ticks, CURRENT, TICKS, TASK_C_EXITED, TASK_D_SPAWNED>>
  BY <1>6, IterationIs
<1>8. PICK x \in {"a", "b", "c", "d", "e"} : Iterates(x) /\ TASK_SLOTS[s].entry = x /\ (x = "c" => COUNTER["c"] < 5)
  BY <1>6, IterationIs
<1>9. TasksABE(a, b, e)'
  BY <1>2, <1>3, <1>4, <1>5, <1>7, <1>8, CountingKeepsABE
<1>10. s = 2 <=> x = "c"
  BY <1>2, <1>4, <1>8 DEF TasksABE, SlotHas
<1>11. SlotHas(2, 2, "c")' /\ (TASK_SLOTS'[2].in_hlt => CURRENT' = 2)
  BY <1>2, <1>3, <1>4, <1>5, <1>7 DEF SlotHas, FourTasks
<1>12. COUNTER'["c"] = (IF TASK_SLOTS'[2].in_hlt THEN c + 1 ELSE c)
  <2>1. CASE s = 2
    BY <1>2, <1>4, <1>7, <1>8, <1>10, <2>1, IterationCounts
  <2>2. CASE s # 2
    BY <1>4, <1>5, <1>7, <1>8, <1>10, <2>2, IterationCounts
  <2> QED BY <2>1, <2>2
<1>13. FourTasks(a, b, c, e)'
  BY <1>3, <1>7, <1>9, <1>11, <1>12 DEF FourTasks
<1>14. At(r[1], s)'
  BY <1>3, <1>7 DEF At
<1> QED BY <1>13, <1>14 DEF UntilExit, s, a, b, c, e

(* After c's exit e iterates, and a's next iteration is one that spawns. *)
LEMMA IterationOfThree ==
  ASSUME HangInv, CountInv, Ready, TaskIterates, UntilSpawn
  PROVE  UntilSpawn'
<1>1. ASSUME NEW a, NEW b, NEW e, NEW n, At(n, 3), ThreeTasks(a, b, e)
      PROVE  At(n, 3)' /\ ThreeTasks(a, b, e)'
  <2>1. TasksABE(a, b, e) /\ TASK_SLOTS[2].pid = None /\ PoolInv /\ MAPPED = 0 .. 3 /\ CURRENT = 3
    BY <1>1 DEF ThreeTasks, EmptySlot, HangInv, Ready, At
  <2>2. SlotOf(3) = 3 /\ {0, 1, 2, 3} \subseteq Slots
    BY <2>1, SlotsOfTasks
  <2>3. /\ \A i \in Slots \ {3} : TASK_SLOTS'[i] = TASK_SLOTS[i]
        /\ TASK_SLOTS'[3].pid = TASK_SLOTS[3].pid /\ TASK_SLOTS'[3].entry = TASK_SLOTS[3].entry
        /\ UNCHANGED <<queue, NEXT_PID, early_ticks, CURRENT, TICKS, TASK_C_EXITED, TASK_D_SPAWNED, TASK_EXIT_SLOT>>
    BY <2>1, <2>2, IterationIs
  <2>4. PICK x \in {"a", "b", "c", "d", "e"} : Iterates(x) /\ TASK_SLOTS[3].entry = x
    BY <2>1, <2>2, IterationIs
  <2>5. TasksABE(a, b, e)'
    BY <2>1, <2>2, <2>3, <2>4, CountingKeepsABE
  <2>6. x = "e"
    BY <2>1, <2>4 DEF TasksABE, SlotHas
  <2>7. COUNTER'["c"] = COUNTER["c"]
    BY <2>4, <2>6, IterationCounts
  <2>8. TASK_SLOTS'[2] = TASK_SLOTS[2]
    BY <2>2, <2>3
  <2> QED BY <1>1, <2>3, <2>5, <2>7, <2>8 DEF ThreeTasks, CHasExited, EmptySlot, At, Iterations
<1>2. CASE At(24, 3) /\ ThreeTasks(6, 7, 5)
  BY <1>1, <1>2 DEF UntilSpawn
<1>3. CASE At(25, 3) /\ ThreeTasks(6, 7, 6)
  BY <1>1, <1>3 DEF UntilSpawn
<1>4. CASE At(26, 0) /\ ThreeTasks(6, 7, 7)
  <2>1. TasksABE(6, 7, 7) /\ TASK_SLOTS[2].pid = None /\ PoolInv /\ MAPPED = 0 .. 3 /\ CURRENT = 0 /\ SpawnIsDue
    BY <1>4 DEF ThreeTasks, EmptySlot, HangInv, Ready, At, CHasExited, SpawnIsDue
  <2>2. SlotOf(0) = 0 /\ 0 \in Slots
    BY <2>1, SlotsOfTasks
  <2>3. TASK_SLOTS[0].entry = "a"
    BY <2>1 DEF TasksABE, SlotHas
  <2> QED BY <2>1, <2>2, <2>3, IterationIs
<1> QED
  BY <1>2, <1>3, <1>4 DEF UntilSpawn

(* When d has been spawned, a and d iterate. *)
LEMMA IterationWithTaskD ==
  ASSUME HangInv, CountInv, Ready, TaskIterates, UntilDHasRun
  PROVE  UntilDHasRun'
<1>1. ASSUME NEW a, NEW b, NEW e, NEW n, NEW pid \in {0, 4}, At(n, pid), WithTaskD(a, b, e, 0)
      PROVE  At(n, pid)' /\ WithTaskD(a, b, e, 0)' /\ mid_period' = mid_period
  <2> DEFINE s == IF pid = 0 THEN 0 ELSE 2
  <2>1. TasksABE(a, b, e) /\ SlotHas(2, 4, "d") /\ PoolInv /\ MAPPED = 0 .. 3 /\ CURRENT = pid /\ DIsSpawned
    BY <1>1 DEF WithTaskD, DIsSpawned, HangInv, Ready, At
  <2>2. SlotOf(CURRENT) = s /\ {0, 1, 2, 3} \subseteq Slots /\ s \in {0, 1, 2, 3} /\ (CURRENT = s \/ (s = 2 /\ CURRENT = 4))
    <3>1. TASK_SLOTS[2].pid = 4
      BY <2>1 DEF SlotHas
    <3>2. SlotOf(0) = 0 /\ SlotOf(4) = 2 /\ {0, 1, 2, 3} \subseteq Slots
      BY <2>1, <3>1, SlotsOfTasks
    <3> QED BY <1>1, <2>1, <3>2
  <2>s. TASK_SLOTS[s].entry = IF s = 0 THEN "a" ELSE "d"
    BY <2>1 DEF TasksABE, SlotHas
  <2> HIDE DEF s
  <2>3. /\ \A i \in Slots \ {s} : TASK_SLOTS'[i] = TASK_SLOTS[i]
        /\ TASK_SLOTS'[s].pid = TASK_SLOTS[s].pid /\ TASK_SLOTS'[s].entry = TASK_SLOTS[s].entry
        /\ UNCHANGED <<queue, NEXT_PID, early_ticks, CURRENT, TICKS, mid_period>>
        /\ UNCHANGED <<TASK_C_EXITED, TASK_D_SPAWNED, TASK_EXIT_SLOT, TASK_D_SPAWN_SLOT>>
    BY <2>1, <2>2, IterationIs
  <2>4. PICK x \in {"a", "b", "c", "d", "e"} : Iterates(x) /\ TASK_SLOTS[s].entry = x
    BY <2>1, <2>2, IterationIs
  <2>5. TasksABE(a, b, e)'
    BY <2>1, <2>2, <2>3, <2>4, CountingKeepsABE
  <2>6. x # "c" /\ (s = 2 => x = "d")
    BY <2>4, <2>s
  <2>7. COUNTER'["c"] = COUNTER["c"] /\ COUNTER'[x] > 0 /\ (COUNTER["d"] > 0 => COUNTER'["d"] > 0)
    BY <2>4, <2>6, IterationCounts
  <2>8. SlotHas(2, 4, "d")' /\ (TASK_SLOTS'[2].in_hlt => TASK_SLOTS[2].in_hlt \/ s = 2)
    BY <2>1, <2>2, <2>3 DEF SlotHas
  <2>9. TASK_SLOTS'[2].in_hlt => CURRENT' = 4 /\ COUNTER'["d"] > 0
    <3>1. TASK_SLOTS[2].in_hlt => CURRENT = 4 /\ COUNTER["d"] > 0
      BY <1>1 DEF WithTaskD
    <3> QED BY <1>1, <2>1, <2>2, <2>3, <2>6, <2>7, <2>8, <3>1
  <2>10. DIsSpawned'
    BY <2>1, <2>3, <2>7, <2>8 DEF DIsSpawned, CHasExited, Iterations
  <2>11. At(n, pid)'
    BY <1>1, <2>3 DEF At
  <2>12. WithTaskD(a, b, e, 0)'
    BY <1>1, <2>3, <2>5, <2>9, <2>10 DEF WithTaskD
  <2> QED BY <2>3, <2>11, <2>12
<1>2. CASE At(26, 0) /\ WithTaskD(6, 7, 7, 0)
  BY <1>1, <1>2 DEF UntilDHasRun
<1>3. CASE At(27, 4) /\ WithTaskD(7, 7, 7, 0) /\ ~mid_period
  BY <1>1, <1>3 DEF UntilDHasRun
<1> QED
  BY <1>2, <1>3 DEF UntilDHasRun

(* c's exit comes in its turn after the 24th tick, and hands over to e. *)
LEMMA ExitOfTaskC ==
  ASSUME HangInv, CountInv, Ready, TaskCExits, UntilExit
  PROVE  UntilSpawn'
<1>1. PICK r \in Timetable : At(r[1], r[2]) /\ FourTasks(r[3], r[4], r[5], r[6])
  BY DEF UntilExit
<1>2. r[2] \in {0, 1, 2, 3} /\ CURRENT = r[2] /\ r[5] \in 0 .. 5
  BY <1>1, TimetableIs DEF At
<1>3. TasksABE(r[3], r[4], r[6]) /\ SlotHas(2, 2, "c") /\ PoolInv /\ MAPPED = 0 .. 3
  BY <1>1 DEF FourTasks, HangInv, Ready
<1>4. SlotOf(0) = 0 /\ SlotOf(1) = 1 /\ SlotOf(3) = 3 /\ SlotOf(2) = 2 /\ {0, 1, 2, 3} \subseteq Slots
  <2>1. TASK_SLOTS[2].pid = 2
    BY <1>3 DEF SlotHas
  <2> QED BY <1>3, <2>1, SlotsOfTasks
<1>5. TASK_SLOTS[SlotOf(CURRENT)].entry = "c" /\ CURRENT # BOOT_PID /\ ~InHlt /\ COUNTER["c"] = 5
  BY DEF TaskCExits, TaskAt, Iterations
<1>6. CURRENT = 2
  BY <1>2, <1>3, <1>4, <1>5 DEF TasksABE, SlotHas
<1>7. ~TASK_SLOTS[2].in_hlt
  BY <1>4, <1>5, <1>6 DEF InHlt
<1>8. r = <<24, 2, 6, 7, 5, 5>>
  BY <1>1, <1>2, <1>5, <1>6, <1>7, TimetableIs DEF FourTasks
<1>9. TICKS = early_ticks + 24 /\ FourTasks(6, 7, 5, 5)
  BY <1>1, <1>8 DEF At
<1>10. /\ queue' = RQ!RemoveProcess(queue, 2) /\ CURRENT' = NextToRun(queue', TICKS)
       /\ TASK_SLOTS' = [TASK_SLOTS EXCEPT ![2] = EmptySlot] /\ TASK_EXIT_SLOT' = 2 /\ TASK_C_EXITED'
       /\ UNCHANGED <<NEXT_PID, COUNTER, TASK_D_SPAWNED, TICKS, early_ticks>>
  BY <1>4, <1>6 DEF TaskCExits, RunningSlot
<1>11. queue' = QueueOf(TimesABE(6, 7, 5))
  <2> DEFINE v == Times(6, 7, 5, 5)
  <2>1. [p \in DOMAIN v \ {2} |-> v[p]] = TimesABE(6, 7, 5)
    BY DEF Times, TimesABE
  <2>2. queue = QueueOf(v) /\ 2 \in DOMAIN v
    BY <1>9 DEF FourTasks, Times
  <2> HIDE DEF v
  <2>3. RQ!RemoveProcess(queue, 2) = QueueOf([p \in DOMAIN v \ {2} |-> v[p]])
    BY <2>2, RemoveFromQueue
  <2> QED BY <1>10, <2>1, <2>3
<1>12. CURRENT' = 3
  <2> DEFINE v == TimesABE(6, 7, 5)
  <2>1. DOMAIN v = {0, 1, 3} /\ v[0] = 6 /\ v[1] = 7 /\ v[3] = 5
    BY TimesABEAre
  <2>q. queue' = QueueOf(v)
    BY <1>11
  <2> HIDE DEF v
  <2>2. RunsFirst(3, v)
    BY <2>1 DEF RunsFirst
  <2>3. RQ!PickNextTask(QueueOf(v)) = 3
    BY <2>1, <2>2, PickOfQueue
  <2>4. ~(TICKS > SWITCH_TICK_BUDGET)
    BY <1>9, KernelAssumption DEF Ready, TicksNeeded, CountInv, None
  <2> QED BY <1>10, <2>q, <2>3, <2>4 DEF NextToRun, None
<1>13. /\ TASK_SLOTS'[2] = EmptySlot
       /\ \A i \in {0, 1, 3} : TASK_SLOTS'[i] = TASK_SLOTS[i] /\ ~TASK_SLOTS[i].in_hlt
  BY <1>3, <1>4, <1>6, <1>10 DEF PoolInv, TasksABE
<1>14. TasksABE(6, 7, 5)'
  BY <1>9, <1>10, <1>13 DEF FourTasks, TasksABE, SlotHas
<1>15. ThreeTasks(6, 7, 5)'
  BY <1>5, <1>9, <1>10, <1>11, <1>13, <1>14 DEF ThreeTasks, FourTasks, CHasExited, EmptySlot, Iterations
<1>16. At(24, 3)'
  BY <1>9, <1>10, <1>12 DEF At
<1> QED BY <1>15, <1>16 DEF UntilSpawn

(* a's next turn is the one that spawns d, into the slot that c has left. *)
LEMMA SpawnOfTaskD ==
  ASSUME HangInv, CountInv, Ready, TaskASpawnsD, UntilSpawn
  PROVE  UntilDHasRun'
<1>1. PICK a, b, e : TasksABE(a, b, e) /\ TASK_SLOTS[2] = EmptySlot /\ CURRENT \in {0, 3}
  BY DEF UntilSpawn, ThreeTasks, At
<1>2. TASK_SLOTS[2].pid = None /\ PoolInv /\ MAPPED = 0 .. 3
  BY <1>1 DEF EmptySlot, HangInv, Ready
<1>3. SlotOf(0) = 0 /\ SlotOf(3) = 3 /\ SlotOf(None) = 2 /\ {0, 1, 2, 3} \subseteq Slots
  BY <1>1, <1>2, SlotsOfTasks
<1>4. Iterates("a") /\ TASK_SLOTS[SlotOf(CURRENT)].entry = "a"
  BY DEF TaskASpawnsD, Iterates, TaskAt
<1>5. CURRENT = 0
  BY <1>1, <1>3, <1>4 DEF TasksABE, SlotHas
<1>6. At(26, 0) /\ ThreeTasks(6, 7, 7)
  BY <1>5 DEF UntilSpawn, At
<1>7. TasksABE(6, 7, 7) /\ queue = QueueOf(TimesABE(6, 7, 7)) /\ NEXT_PID = 4 /\ CHasExited
  BY <1>6 DEF ThreeTasks
<1>8. /\ TASK_D_SPAWNED' /\ TASK_D_SPAWN_SLOT' = 2
      /\ UNCHANGED <<early_ticks, CURRENT, mid_period, TASK_C_EXITED, TASK_EXIT_SLOT, TICKS>>
  BY <1>3 DEF TaskASpawnsD, cpuVars
<1>9. /\ queue' = RQ!AddProcess(queue, 4, SpawnedProcess)
      /\ TASK_SLOTS' = [GoesToHlt(TASK_SLOTS) EXCEPT ![2] = [pid |-> 4, entry |-> "d", in_hlt |-> FALSE]]
  BY <1>3, <1>7 DEF TaskASpawnsD, SpawnTask, None
<1>10. /\ SlotHas(2, 4, "d")' /\ ~TASK_SLOTS'[2].in_hlt
       /\ \A i \in {1, 3} : TASK_SLOTS'[i] = TASK_SLOTS[i]
       /\ TASK_SLOTS'[0].pid = TASK_SLOTS[0].pid /\ TASK_SLOTS'[0].entry = TASK_SLOTS[0].entry
  <2>1. GoesToHlt(TASK_SLOTS) = [TASK_SLOTS EXCEPT ![0].in_hlt = TRUE]
    BY <1>3, <1>5 DEF GoesToHlt, RunningSlot
  <2> QED BY <1>2, <1>3, <1>9, <2>1 DEF PoolInv, SlotHas
<1>11. queue' = QueueOf(TimesABED(6, 7, 7, 0))
  <2> DEFINE v == TimesABE(6, 7, 7)
  <2>1. DOMAIN v = {0, 1, 3}
    BY TimesABEAre
  <2>2. TimesABED(6, 7, 7, 0) = [p \in {0, 1, 3, 4} |-> IF p = 4 THEN 0 ELSE v[p]]
    BY DEF TimesABED
  <2>q. queue = QueueOf(v)
    BY <1>7
  <2> HIDE DEF v
  <2>3. [p \in DOMAIN v \cup {4} |-> IF p = 4 THEN 0 ELSE v[p]] = TimesABED(6, 7, 7, 0)
    BY <2>1, <2>2
  <2>4. queue' = QueueOf([p \in DOMAIN v \cup {4} |-> IF p = 4 THEN 0 ELSE v[p]])
    BY <1>9, <2>1, <2>q, AddToQueue
  <2> QED BY <2>3, <2>4
<1>12. COUNTER'["c"] = COUNTER["c"]
  BY <1>4, IterationCounts
<1>13. TasksABE(6, 7, 7)'
  <2>1. TASK_SLOTS[0].entry = "a" /\ CURRENT' = CURRENT
    BY <1>7, <1>8 DEF TasksABE, SlotHas
  <2> QED BY <1>4, <1>5, <1>7, <1>10, <2>1, CountingKeepsABE
<1>14. DIsSpawned'
  BY <1>7, <1>8, <1>10, <1>12 DEF DIsSpawned, CHasExited, Iterations
<1>15. WithTaskD(6, 7, 7, 0)' /\ At(26, 0)'
  BY <1>6, <1>8, <1>10, <1>11, <1>13, <1>14 DEF WithTaskD, At
<1> QED BY <1>15 DEF UntilDHasRun

(* What the self-tests look for stays, once it is there. *)
LEMMA AllHaveRunStays ==
  ASSUME HangInv, SlotInv, QueueInv, CountInv, AllHaveRun, [BootNext]_kernelVars
  PROVE  AllHaveRun'
<1>q. RQ!Queued(queue)' = RQ!Queued(queue')
  BY DEF RQ!Queued
<1>s. 2 \in Slots
  BY SlotFacts
<1>1. CASE FlowStep
  <2>1. ~InitSpawns
    <3>1. TASK_D_SPAWNED
      BY DEF AllHaveRun, DIsSpawned
    <3>2. pc \notin InInit
      BY <3>1 DEF SlotInv
    <3> QED BY <3>2, InitSpawnsAre DEF InInit
  <2>2. FlowLeavesPool /\ FlowEffects
    BY <1>1, <2>1, FlowAndPool, FlowHasEffects
  <2> QED BY <2>2 DEF FlowLeavesPool, FlowEffects, AllHaveRun, DIsSpawned, CHasExited, SlotHas, RQ!Queued, Iterations
<1>2. CASE TaskIterates
  <2>1. SamePool /\ UNCHANGED <<queue, TASK_D_SPAWNED, TASK_EXIT_SLOT, TASK_D_SPAWN_SLOT, TASK_C_EXITED>>
    BY <1>2, IterationKeepsPool DEF TaskIterates
  <2>2. PICK x \in {"a", "b", "c", "d", "e"} : Iterates(x) /\ (x = "c" => COUNTER["c"] < 5)
    BY <1>2 DEF TaskIterates, Iterations
  <2>3. x # "c"
    BY <2>2 DEF AllHaveRun, DIsSpawned, CHasExited, Iterations
  <2>4. /\ COUNTER'["c"] = COUNTER["c"]
        /\ \A y \in {"a", "b", "c", "d", "e"} : COUNTER[y] > 0 => COUNTER'[y] > 0
    BY <2>2, <2>3, IterationCounts
  <2> QED BY <1>s, <2>1, <2>4 DEF SamePool, AllHaveRun, DIsSpawned, CHasExited, SlotHas, RQ!Queued, Iterations
<1>3. CASE TaskASpawnsD
  BY <1>3 DEF TaskASpawnsD, SpawnIsDue, AllHaveRun, DIsSpawned
<1>4. CASE TaskCExits
  <2>1. RunningSlot \in Slots /\ TASK_SLOTS[RunningSlot].entry = "c"
    BY <1>4, TaskCExitIs
  <2> QED BY <2>1 DEF SlotInv, AllHaveRun, DIsSpawned, SlotHas
<1>5. CASE OnTimerTick
  <2>1. SamePool
    BY <1>5, TickKeepsPool
  <2>2. RQ!Queued(queue') = RQ!Queued(queue)
    BY <1>5, UpdateKeepsQueue DEF OnTimerTick, QueueInv
  <2>3. UNCHANGED <<COUNTER, TASK_C_EXITED, TASK_D_SPAWNED, TASK_EXIT_SLOT, TASK_D_SPAWN_SLOT>>
    BY <1>5, TickLeaves
  <2> QED BY <1>q, <1>s, <2>1, <2>2, <2>3 DEF SamePool, AllHaveRun, DIsSpawned, CHasExited, SlotHas, Iterations
<1>6. CASE TakesInterrupt \/ ApRuns \/ UNCHANGED kernelVars
  <2>1. UNCHANGED <<queue, TASK_SLOTS, COUNTER, TASK_C_EXITED, TASK_D_SPAWNED, TASK_EXIT_SLOT, TASK_D_SPAWN_SLOT>>
    BY <1>6, RestTakesNoTime
  <2> QED BY <2>1 DEF AllHaveRun, DIsSpawned, CHasExited, SlotHas, RQ!Queued, Iterations
<1> QED
  BY <1>1, <1>2, <1>3, <1>4, <1>5, <1>6 DEF BootNext, TaskStep

(* Who runs at each stage, and how far c and d have come. *)
LEMMA StagesAre ==
  /\ BeforeTicks => CURRENT = BOOT_PID /\ halts = 0 /\ ~TASK_C_EXITED
  /\ UntilExit => CURRENT # BOOT_PID /\ ~TASK_C_EXITED
  /\ UntilSpawn => CURRENT # BOOT_PID /\ TASK_SLOTS[2].entry = "none"
  /\ UntilDHasRun => CURRENT # BOOT_PID /\ TASK_D_SPAWNED /\ TASK_SLOTS[2].entry = "d"
<1>1. BeforeTicks => CURRENT = BOOT_PID /\ halts = 0 /\ ~TASK_C_EXITED
  BY DEF BeforeTicks, At, FourTasks
<1>2. UntilExit => CURRENT # BOOT_PID /\ ~TASK_C_EXITED
  BY TimetableIs, KernelAssumption DEF UntilExit, At, FourTasks
<1>3. UntilSpawn => CURRENT # BOOT_PID /\ TASK_SLOTS[2].entry = "none"
  BY KernelAssumption DEF UntilSpawn, At, ThreeTasks, EmptySlot
<1>4. UntilDHasRun => CURRENT # BOOT_PID /\ TASK_D_SPAWNED /\ TASK_SLOTS[2].entry = "d"
  BY KernelAssumption DEF UntilDHasRun, At, WithTaskD, DIsSpawned, SlotHas
<1> QED BY <1>1, <1>2, <1>3, <1>4

(* A stage lasts while nothing of the tasks changes. *)
LEMMA StagesKept ==
  ASSUME UNCHANGED <<TICKS, early_ticks, halts, NEXT_PID, queue, TASK_SLOTS, COUNTER, CURRENT, mid_period>>,
         UNCHANGED <<TASK_C_EXITED, TASK_D_SPAWNED, TASK_EXIT_SLOT, TASK_D_SPAWN_SLOT>>
  PROVE  /\ BeforeTicks => BeforeTicks'
         /\ UntilExit => UntilExit'
         /\ UntilSpawn => UntilSpawn'
         /\ UntilDHasRun => UntilDHasRun'
<1>1. ASSUME NEW n, NEW pid, At(n, pid) PROVE At(n, pid)'
  BY <1>1 DEF At
<1>2. ASSUME NEW a, NEW b, NEW e, TasksABE(a, b, e) PROVE TasksABE(a, b, e)'
  BY <1>2, Zenon DEF TasksABE, SlotHas
<1>3. ASSUME NEW a, NEW b, NEW c, NEW e, FourTasks(a, b, c, e) PROVE FourTasks(a, b, c, e)'
  BY <1>2, <1>3 DEF FourTasks, SlotHas
<1>4. ASSUME NEW a, NEW b, NEW e, ThreeTasks(a, b, e) PROVE ThreeTasks(a, b, e)'
  BY <1>2, <1>4 DEF ThreeTasks, CHasExited, EmptySlot, Iterations
<1>5. ASSUME NEW a, NEW b, NEW e, NEW d, WithTaskD(a, b, e, d) PROVE WithTaskD(a, b, e, d)'
  BY <1>2, <1>5 DEF WithTaskD, DIsSpawned, CHasExited, SlotHas, Iterations
<1>6. BeforeTicks => BeforeTicks'
  BY <1>1, <1>3 DEF BeforeTicks
<1>7. UntilExit => UntilExit'
  BY <1>1, <1>3 DEF UntilExit
<1>8. UntilSpawn => UntilSpawn'
  BY <1>1, <1>4 DEF UntilSpawn
<1>9. UntilDHasRun => UntilDHasRun'
  BY <1>1, <1>5 DEF UntilDHasRun
<1> QED BY <1>6, <1>7, <1>8, <1>9

(* As init leaves it, with all four spawned. *)
LEMMA InitIsDone ==
  ASSUME Spawned(4), Untouched, TICKS = early_ticks, early_ticks \in Int, CURRENT = BOOT_PID
  PROVE  BeforeTicks
<1>1. {0, 1, 2, 3} \subseteq Slots
  BY SlotFacts
<1>2. SlotHas(0, 0, "a") /\ SlotHas(1, 1, "b") /\ SlotHas(2, 2, "c") /\ SlotHas(3, 3, "e")
  BY <1>1 DEF Spawned, EntryAt
<1>3. \A i \in {0, 1, 2, 3} : ~TASK_SLOTS[i].in_hlt
  BY <1>1 DEF Spawned
<1>4. NEXT_PID = 4 /\ queue = QueueOf(Times(0, 0, 0, 0))
  <2>1. [p \in 0 .. 4 - 1 |-> 0] = Times(0, 0, 0, 0)
    BY DEF Times
  <2> QED BY <2>1 DEF Spawned
<1>5. COUNTER["c"] = 0 /\ ~TASK_C_EXITED /\ ~TASK_D_SPAWNED /\ halts = 0
  BY CountedToIs DEF Untouched
<1>6. TasksABE(0, 0, 0)
  BY <1>2, <1>3 DEF TasksABE
<1>7. FourTasks(0, 0, 0, 0)
  BY <1>2, <1>3, <1>4, <1>5, <1>6 DEF FourTasks
<1>8. At(0, BOOT_PID)
  BY DEF At
<1> QED BY <1>5, <1>7, <1>8 DEF BeforeTicks

(* Every step of the boot keeps to the schedule. *)
LEMMA ScheduleStep == BootInv /\ TimeInv /\ [BootNext]_kernelVars => ScheduleInv'
<1> SUFFICES ASSUME BootInv, TimeInv, [BootNext]_kernelVars, Ready'
             PROVE  AllHaveRun' \/ (pc' \notin Checked /\ (BeforeTicks \/ UntilExit \/ UntilSpawn \/ UntilDHasRun)')
  BY DEF ScheduleInv, Checked
<1>i. HangInv /\ SlotInv /\ QueueInv /\ CountInv /\ EarlyInv /\ DueInv /\ ScheduleInv /\ PoolInv
  BY DEF BootInv, TimeInv, HangInv
<1>r. /\ pc' \notin BeforeQueue \cup InInit
      /\ early_ticks' + TicksNeeded <= SWITCH_TICK_BUDGET /\ MAPPED' = 0 .. 3
  BY DEF Ready, BeforeQueue, InInit, TicksNeeded
<1>s. Ready => AllHaveRun \/ (pc \notin Checked /\ (BeforeTicks \/ UntilExit \/ UntilSpawn \/ UntilDHasRun))
  BY <1>i DEF ScheduleInv
<1>0. CASE AllHaveRun
  BY <1>0, <1>i, AllHaveRunStays
<1> SUFFICES ASSUME ~AllHaveRun
             PROVE  AllHaveRun' \/ (pc' \notin Checked /\ (BeforeTicks \/ UntilExit \/ UntilSpawn \/ UntilDHasRun)')
  BY <1>0
<1>1. CASE FlowStep
  <2>1. FlowEffects /\ FlowLeavesTime
    BY <1>1, FlowHasEffects, FlowTakesNoTime
  <2>2. ~InitSpawns
    BY <1>r, InitSpawnsAre DEF InInit
  <2>3. FlowLeavesPool
    BY <1>1, <2>2, FlowAndPool
  <2>4. pc \notin BeforeQueue \cup {"spawn_a", "spawn_b", "spawn_c", "spawn_e"}
    BY <1>r, <2>3 DEF FlowLeavesPool, InInit
  <2>5. /\ UNCHANGED <<TICKS, early_ticks, halts, NEXT_PID, queue, TASK_SLOTS, COUNTER, CURRENT, mid_period, MAPPED>>
        /\ UNCHANGED <<TASK_C_EXITED, TASK_D_SPAWNED, TASK_EXIT_SLOT, TASK_D_SPAWN_SLOT>>
    BY <2>1, <2>2, <2>3, <2>4 DEF FlowEffects, FlowLeavesTime, FlowLeavesPool, BeforeQueue
  <2>6. BeforeTicks /\ pc \notin Checked
    <3>1. CASE pc = "scheduler_boot"
      <4>1. Untouched /\ TICKS = early_ticks /\ (Spawned(4) \/ MAPPED = 0 .. 2)
        BY <1>i, <3>1 DEF EarlyInv, InInit
      <4>2. 3 \in MAPPED /\ 3 \notin 0 .. 2
        BY <1>r, <2>5
      <4>3. early_ticks \in Int /\ CURRENT = BOOT_PID
        BY <1>i, <2>1 DEF CountInv, FlowEffects, None
      <4> QED BY <3>1, <4>1, <4>2, <4>3, InitIsDone DEF Checked
    <3>2. CASE pc # "scheduler_boot"
      <4>1. Ready
        BY <1>r, <2>4, <2>5, <3>2 DEF Ready, InInit
      <4> QED BY <1>s, <2>1, <4>1, StagesAre DEF FlowEffects
    <3> QED BY <3>1, <3>2
  <2>7. BeforeTicks'
    BY <2>5, <2>6, StagesKept
  <2>8. pc' \notin Checked
    BY <2>1, <2>6, StagesAre, KernelAssumption DEF FlowLeavesTime
  <2> QED BY <2>7, <2>8
<1>2. CASE TaskStep
  <2>1. pc' = pc /\ pc \notin BeforeQueue \cup InInit
    BY <1>2, <1>i, TasksRunLate
  <2>2. CURRENT # BOOT_PID /\ UNCHANGED early_ticks
    BY <1>2 DEF TaskStep, TaskIterates, TaskASpawnsD, TaskCExits, Iterates, TaskAt
  <2>3. UNCHANGED MAPPED
    <3>1. CASE TaskASpawnsD
      <4>1. SlotOf(None) \in MAPPED
        BY <1>i, <3>1, FirstFreeIsMapped DEF PoolInv, TaskASpawnsD
      <4> QED BY <3>1, <4>1 DEF TaskASpawnsD, SpawnTask
    <3>2. CASE TaskIterates \/ TaskCExits
      BY <3>2 DEF TaskIterates, TaskCExits
    <3> QED BY <1>2, <3>1, <3>2 DEF TaskStep
  <2>4. Ready
    BY <1>r, <2>1, <2>2, <2>3 DEF Ready
  <2>5. pc' \notin Checked /\ (UntilExit \/ UntilSpawn \/ UntilDHasRun)
    BY <1>s, <2>1, <2>2, <2>4, StagesAre
  <2>6. CASE TaskIterates
    BY <1>i, <2>4, <2>5, <2>6, IterationOfFour, IterationOfThree, IterationWithTaskD
  <2>7. CASE TaskASpawnsD
    <3>1. TASK_C_EXITED /\ ~TASK_D_SPAWNED
      BY <2>7 DEF TaskASpawnsD, SpawnIsDue
    <3>2. UntilSpawn
      BY <2>5, <3>1, StagesAre
    <3> QED BY <1>i, <2>4, <2>5, <2>7, <3>2, SpawnOfTaskD
  <2>8. CASE TaskCExits
    <3>1. RunningSlot \in Slots /\ TASK_SLOTS[RunningSlot].entry = "c"
      BY <1>i, <2>8, TaskCExitIs
    <3>2. TASK_SLOTS[2].entry = "c"
      BY <1>i, <3>1 DEF SlotInv
    <3>3. UntilExit
      BY <2>5, <3>2, StagesAre
    <3> QED BY <1>i, <2>4, <2>5, <2>8, <3>3, ExitOfTaskC
  <2> QED BY <1>2, <2>6, <2>7, <2>8 DEF TaskStep
<1>3. CASE OnTimerTick
  <2>1. UNCHANGED <<early_ticks, MAPPED>> /\ (pc' = pc \/ (pc = "in_hlt" /\ pc' = "hlt"))
    BY <1>3, TickLeaves
  <2>2. pc \notin BeforeQueue \cup InInit
    BY <1>r, <2>1 DEF BeforeQueue, InInit
  <2>3. Ready /\ scheduler_up
    BY <1>i, <1>r, <2>1, <2>2 DEF Ready, DueInv
  <2>4. pc' \notin Checked /\ (BeforeTicks \/ UntilExit \/ UntilSpawn \/ UntilDHasRun)
    BY <1>s, <2>1, <2>3 DEF Checked
  <2> QED BY <1>3, <1>i, <2>3, <2>4, FirstTick, TickOfFour, TickOfThree, TickWithTaskD
<1>4. CASE TakesInterrupt \/ ApRuns \/ UNCHANGED kernelVars
  <2>1. /\ UNCHANGED <<TICKS, early_ticks, halts, NEXT_PID, queue, TASK_SLOTS, COUNTER, CURRENT, mid_period>>
        /\ UNCHANGED <<TASK_C_EXITED, TASK_D_SPAWNED, TASK_EXIT_SLOT, TASK_D_SPAWN_SLOT>>
        /\ UNCHANGED <<pc, MAPPED>>
    BY <1>4, RestTakesNoTime
  <2>2. Ready
    BY <1>r, <2>1 DEF Ready
  <2> QED BY <1>s, <2>1, <2>2, StagesKept
<1> QED
  BY <1>1, <1>2, <1>3, <1>4 DEF BootNext

(* The kernel starts before init, with no task. *)
LEMMA TimeInvInit == BootInit => TimeInv
<1> SUFFICES ASSUME BootInit PROVE TimeInv
  OBVIOUS
<1>1. pc = "early_boot" /\ ~isr /\ ~mid_period
  BY DEF BootInit, Init
<1>2. Untouched
  BY DEF BootInit, Untouched
<1>3. Spawned(0)
  <2>1. 0 .. 0 - 1 = {}
    OBVIOUS
  <2>2. MAPPED = 0 .. 0 - 1 /\ NEXT_PID = 0
    BY <2>1 DEF BootInit
  <2>3. queue = QueueOf([p \in 0 .. 0 - 1 |-> 0])
    <3> DEFINE v == [p \in 0 .. 0 - 1 |-> 0]
    <3>1. DOMAIN v = {}
      BY <2>1
    <3> HIDE DEF v
    <3>2. QueueOf(v) = RQ!NewRunQueue
      BY <3>1 DEF QueueOf, RQ!NewRunQueue
    <3> QED BY <3>2 DEF BootInit, v
  <2>4. \A i \in Slots : TASK_SLOTS[i].pid = None /\ ~TASK_SLOTS[i].in_hlt
    BY DEF BootInit, EmptySlot
  <2>5. \A i \in Slots : ~(i < 0)
    BY SlotFacts
  <2> QED BY <2>2, <2>3, <2>4, <2>5 DEF Spawned
<1>4. EarlyInv
  BY <1>1, <1>2, <1>3 DEF EarlyInv, BeforeQueue, InInit
<1>5. DueInv
  BY <1>1 DEF DueInv, BeforeQueue
<1>6. ScheduleInv
  BY <1>1 DEF ScheduleInv, Ready, BeforeQueue
<1> QED BY <1>4, <1>5, <1>6 DEF TimeInv

(* The boot keeps to the timetable: with 27 ticks of the budget left when  *)
(* init makes the queue, each of the ticks that follow dispatches the task *)
(* it says, c exits in its turn after the 24th, a spawns d into c's slot   *)
(* after the 26th, and kernel_main has the core before the first of them   *)
(* or when d has run.                                                      *)
THEOREM BootKeepsTimetable == BootSpec => []TimeInv
<1>1. BootInv /\ TimeInv /\ [BootNext]_kernelVars => TimeInv'
  <2> SUFFICES ASSUME BootInv, TimeInv, [BootNext]_kernelVars PROVE TimeInv'
    OBVIOUS
  <2>1. EarlyInv' /\ DueInv' /\ ScheduleInv'
    BY EarlyStep, DueStep, ScheduleStep DEF BootInv, TimeInv
  <2> QED BY <2>1 DEF TimeInv
<1> QED
  BY <1>1, TimeInvInit, BootInvariant, PTL DEF BootSpec

(* Wherever in the boot flow the first tick comes, if 27 ticks of the      *)
(* budget are left when init makes the queue and e has its address space,  *)
(* kernel_main finds that a, b, d and e have run, that c has exited and    *)
(* left the queue, and that d took its slot.                               *)
THEOREM TasksPassSelfTests == BootSpec => []SelfTestsPass
<1>1. TimeInv => SelfTestsPass
  <2> SUFFICES ASSUME TimeInv, pc \in Checked, early_ticks + TicksNeeded <= SWITCH_TICK_BUDGET, MAPPED = 0 .. 3
               PROVE  /\ BothTasksMadeRealProgress /\ TaskCReallyExited
                      /\ TaskReusedAGuardedSlot /\ TaskEVerifiedOwnAddressSpace
    BY DEF SelfTestsPass, Checked
  <2>1. Ready
    BY DEF Ready, Checked, BeforeQueue, InInit
  <2>2. AllHaveRun
    BY <2>1 DEF TimeInv, ScheduleInv
  <2> QED
    BY <2>2 DEF AllHaveRun, DIsSpawned, CHasExited, BothTasksMadeRealProgress, TaskCReallyExited, TaskCRanOut,
                TaskReusedAGuardedSlot, TaskEVerifiedOwnAddressSpace, TASK_C_PID, Iterations, None
<1> QED
  BY <1>1, BootKeepsTimetable, PTL

----------------------------------------------------------------------------
(* The checks run alone.  Task a never leaves, so the queue always has a   *)
(* task to offer: kernel_main gets the core back from the tasks only past  *)
(* the budget, and then keeps it.                                          *)

AIsThere == TASK_SLOTS[0].pid = 0 /\ \E k \in queue.normal_order : k[2] = 0

AloneInv ==
  /\ pc \notin BeforeQueue \cup {"spawn_a"} => AIsThere
  /\ pc \notin BeforeQueue \cup InInit /\ CURRENT = BOOT_PID /\ halts > 0 => TICKS > SWITCH_TICK_BUDGET
  /\ pc \in Checked => halts = Halts /\ CURRENT = BOOT_PID

(* Adding a task, charging one and removing another leave a its key. *)
LEMMA KeysKept ==
  ASSUME NEW rq, QueueOfTasks(rq), NEW pid, \E k \in rq.normal_order : k[2] = 0
  PROVE  /\ \E k \in RQ!AddProcess(rq, pid, SpawnedProcess).normal_order : k[2] = 0
         /\ \E k \in RQ!UpdateVruntime(rq, pid, 1).normal_order : k[2] = 0
         /\ pid # 0 => \E k \in RQ!RemoveProcess(rq, pid).normal_order : k[2] = 0
<1>1. PICK k \in rq.normal_order : k[2] = 0
  OBVIOUS
<1>2. \E j \in RQ!AddProcess(rq, pid, SpawnedProcess).normal_order : j[2] = 0
  BY <1>1 DEF RQ!AddProcess
<1>3. \E j \in RQ!UpdateVruntime(rq, pid, 1).normal_order : j[2] = 0
  <2>1. CASE pid \notin RQ!Normal(rq)
    BY <1>1, <2>1 DEF RQ!UpdateVruntime
  <2>2. CASE pid \in RQ!Normal(rq)
    <3> DEFINE old == rq.processes[pid]
               new == [old EXCEPT !.vruntime = (@ + 1) % U64]
    <3>1. RQ!UpdateVruntime(rq, pid, 1).normal_order = (rq.normal_order \ {<<old.vruntime, pid>>}) \cup {<<new.vruntime, pid>>}
      BY <2>2 DEF RQ!UpdateVruntime, RQ!CfsKey
    <3> HIDE DEF old, new
    <3>2. CASE pid = 0
      <4>1. <<new.vruntime, pid>> \in RQ!UpdateVruntime(rq, pid, 1).normal_order /\ <<new.vruntime, pid>>[2] = pid
        BY <3>1
      <4> QED BY <3>2, <4>1
    <3>3. CASE pid # 0
      <4>1. k # <<old.vruntime, pid>>
        BY <1>1, <3>3
      <4> QED BY <1>1, <3>1, <4>1
    <3> QED BY <3>2, <3>3
  <2> QED BY <2>1, <2>2
<1>4. ASSUME pid # 0 PROVE \E j \in RQ!RemoveProcess(rq, pid).normal_order : j[2] = 0
  <2>1. CASE pid \notin RQ!Queued(rq)
    BY <1>1, <2>1 DEF RQ!RemoveProcess
  <2>2. CASE pid \in RQ!Queued(rq)
    <3> DEFINE p == rq.processes[pid]
    <3>1. RQ!RemoveProcess(rq, pid).normal_order =
            rq.normal_order \ (IF p.class = "Normal" THEN {<<p.vruntime, pid>>} ELSE {})
      BY <2>2 DEF RQ!RemoveProcess, RQ!CfsKey
    <3> HIDE DEF p
    <3>2. k # <<p.vruntime, pid>>
      BY <1>1, <1>4
    <3> QED BY <1>1, <3>1, <3>2
  <2> QED BY <2>1, <2>2
<1> QED BY <1>2, <1>3, <1>4

(* While a is in the queue, only the end of the budget gives the core to   *)
(* kernel_main.                                                            *)
LEMMA BootRunsPastBudget ==
  ASSUME NEW rq, QueueOfTasks(rq), \E k \in rq.normal_order : k[2] = 0, BOOT_PID \notin RQ!Queued(rq),
         NEW tick, NextToRun(rq, tick) = BOOT_PID
  PROVE  tick > SWITCH_TICK_BUDGET
<1>1. RQ!PickNextTask(rq) \in RQ!Queued(rq) \cup {None}
  BY PickIsOfQueue
<1>2. RQ!PickNextTask(rq) # None
  <2>1. rq.normal_order # {} /\ rq.real_time_order = {} /\ rq.normal_order \subseteq Nat \X Nat
    BY DEF QueueOfTasks
  <2>2. RQ!PickNextTask(rq) = RQ!FirstKey(rq.normal_order)[2]
    BY <2>1 DEF RQ!PickNextTask
  <2>3. RQ!FirstKey(rq.normal_order) \in rq.normal_order
    BY <2>1, FirstKeyIsAKey
  <2> QED BY <2>1, <2>2, <2>3 DEF None
<1> QED BY <1>1, <1>2, KernelAssumption DEF NextToRun, None

(* A spawn that fills a slot takes neither a's slot nor its key. *)
LEMMA SpawnLeavesA ==
  ASSUME QueueInv, AIsThere, NEW entry, SpawnFills(entry) \/ SpawnFails
  PROVE  AIsThere'
<1>1. 0 \in Slots /\ Owned(0)
  BY SlotFacts DEF AIsThere, Owned, None
<1>2. CASE SpawnFails
  BY <1>1, <1>2 DEF SpawnFails, AIsThere
<1>3. CASE SpawnFills(entry)
  <2>1. TASK_SLOTS'[0].pid = 0
    BY <1>1, <1>3 DEF SpawnFills, AIsThere
  <2>2. queue' = RQ!AddProcess(queue, NEXT_PID, SpawnedProcess)
    BY <1>3 DEF SpawnFills
  <2>3. \E k \in queue'.normal_order : k[2] = 0
    BY <2>2, KeysKept DEF AIsThere, QueueInv
  <2> QED BY <2>1, <2>3 DEF AIsThere
<1> QED BY <1>2, <1>3

(* init spawns a, and from then on no step removes it. *)
LEMMA AIsKept ==
  BootInv /\ EarlyInv' /\ AloneInv /\ [BootNext]_kernelVars => (pc' \notin BeforeQueue \cup {"spawn_a"} => AIsThere')
<1> SUFFICES ASSUME BootInv, EarlyInv', AloneInv, [BootNext]_kernelVars, pc' \notin BeforeQueue \cup {"spawn_a"}
             PROVE  AIsThere'
  OBVIOUS
<1>i. HangInv /\ PoolInv /\ SlotInv /\ QueueInv /\ (pc \notin BeforeQueue \cup {"spawn_a"} => AIsThere)
  BY DEF BootInv, HangInv, AloneInv
<1>s. 0 \in Slots /\ 2 \in Slots /\ TASK_SLOTS \in [Slots -> [pid : Int, entry : Entries, in_hlt : BOOLEAN]]
  BY <1>i, SlotFacts DEF PoolInv
<1>1. CASE InitSpawns
  <2>1. CASE pc = "spawn_a"
    <3>1. pc' = "spawn_b"
      BY <1>1, <2>1, InitSpawnsAre
    <3>2. Spawned(1)'
      BY <3>1 DEF EarlyInv
    <3>3. TASK_SLOTS'[0].pid = 0
      BY <1>s, <3>2 DEF Spawned, SlotHas, Slots
    <3>4. queue' = QueueOf([p \in 0 .. 1 - 1 |-> 0])
      BY <3>2, Zenon DEF Spawned
    <3>5. <<0, 0>> \in queue'.normal_order
      BY <3>4 DEF QueueOf
    <3> QED BY <3>3, <3>5 DEF AIsThere
  <2>2. CASE pc # "spawn_a"
    <3>1. AIsThere
      BY <1>1, <1>i, <2>2, InitSpawnsAre DEF BeforeQueue
    <3>2. CASE \E e \in {"a", "b", "c", "e"} : SpawnTask(e, TASK_SLOTS)
      <4>1. PICK e \in {"a", "b", "c", "e"} : SpawnTask(e, TASK_SLOTS)
        BY <3>2
      <4>2. SpawnFills(e) \/ SpawnFails
        BY <1>i, <1>s, <4>1, SpawnEffects
      <4> QED BY <1>i, <3>1, <4>2, SpawnLeavesA
    <3>3. CASE UNCHANGED <<NEXT_PID, TASK_SLOTS, queue>>
      BY <3>1, <3>3 DEF AIsThere
    <3> QED BY <1>1, <3>2, <3>3, InitSpawnsAre
  <2> QED BY <2>1, <2>2
<1>2. CASE FlowStep /\ ~InitSpawns
  <2>1. FlowLeavesPool
    BY <1>2, FlowAndPool
  <2> QED BY <1>i, <2>1 DEF FlowLeavesPool, AIsThere
<1>3. CASE TaskStep
  <2>1. AIsThere
    BY <1>3, <1>i, TasksRunLate DEF InInit
  <2>2. CASE TaskIterates
    BY <1>i, <1>s, <2>1, <2>2, IterationKeepsPool DEF SamePool, AIsThere
  <2>3. CASE TaskASpawnsD
    BY <1>i, <2>1, <2>3, TaskASpawnIs, SpawnLeavesA
  <2>4. CASE TaskCExits
    <3>1. /\ RunningSlot = 2 /\ TASK_SLOTS' = [TASK_SLOTS EXCEPT ![RunningSlot] = EmptySlot]
          /\ queue' = RQ!RemoveProcess(queue, CURRENT)
      BY <1>i, <2>4, TaskCExitIs DEF SlotInv
    <3>2. CURRENT # 0
      <4>1. CURRENT = 0 => SlotOf(CURRENT) <= 0
        BY <1>i, <1>s, <2>1, SlotOfIsFirst DEF AIsThere
      <4> QED BY <3>1, <4>1 DEF RunningSlot
    <3>3. TASK_SLOTS'[0].pid = 0
      BY <1>s, <2>1, <3>1 DEF AIsThere
    <3>4. \E k \in queue'.normal_order : k[2] = 0
      BY <1>i, <2>1, <3>1, <3>2, KeysKept DEF AIsThere, QueueInv
    <3> QED BY <3>3, <3>4 DEF AIsThere
  <2> QED BY <1>3, <2>2, <2>3, <2>4 DEF TaskStep
<1>4. CASE OnTimerTick
  <2>1. SamePool /\ (pc' = pc \/ (pc = "in_hlt" /\ pc' = "hlt"))
    BY <1>4, <1>i, TickKeepsPool
  <2>2. AIsThere
    BY <1>i, <2>1 DEF BeforeQueue
  <2>3. queue' = IF CURRENT = BOOT_PID THEN queue ELSE RQ!UpdateVruntime(queue, CURRENT, 1)
    BY <1>4 DEF OnTimerTick
  <2>4. \E k \in queue'.normal_order : k[2] = 0
    BY <1>i, <2>2, <2>3, KeysKept DEF AIsThere, QueueInv
  <2> QED BY <1>s, <2>1, <2>2, <2>4 DEF SamePool, AIsThere
<1>5. CASE TakesInterrupt \/ ApRuns \/ UNCHANGED kernelVars
  BY <1>5, <1>i, RestLeavesPool DEF AIsThere
<1> QED
  BY <1>1, <1>2, <1>3, <1>4, <1>5 DEF BootNext

(* Every step of the boot keeps AloneInv. *)
LEMMA AloneStep == BootInv /\ TimeInv /\ TimeInv' /\ AloneInv /\ [BootNext]_kernelVars => AloneInv'
<1> SUFFICES ASSUME BootInv, TimeInv, TimeInv', AloneInv, [BootNext]_kernelVars PROVE AloneInv'
  OBVIOUS
<1>i. /\ HangInv /\ SlotInv /\ QueueInv /\ EarlyInv /\ DueInv /\ EarlyInv'
      /\ TICKS \in 0 .. SWITCH_TICK_BUDGET + 1 /\ SWITCH_TICK_BUDGET \in Nat /\ Halts > 0
  BY KernelAssumption DEF BootInv, TimeInv, CountInv
<1>a. pc' \notin BeforeQueue \cup {"spawn_a"} => AIsThere'
  BY <1>i, AIsKept
<1>b. pc \notin BeforeQueue \cup InInit => BOOT_PID \notin RQ!Queued(queue)
  <2>1. pc \notin BeforeQueue \cup InInit => NEXT_PID \in 3 .. 5
    BY <1>i DEF SlotInv
  <2>2. \A q \in RQ!Queued(queue) : q \in None .. NEXT_PID - 1
    BY <1>i DEF QueueInv, SlotInv
  <2> QED BY <2>1, <2>2, KernelAssumption DEF None
<1>e. pc \in BeforeQueue \cup InInit => halts = 0
  BY <1>i DEF EarlyInv, Untouched
<1>1. CASE FlowStep
  <2>1. FlowEffects /\ FlowLeavesTime
    BY <1>1, FlowHasEffects, FlowTakesNoTime
  <2>2. /\ CURRENT = BOOT_PID /\ UNCHANGED <<CURRENT, TICKS, halts>>
        /\ pc' \in Checked => pc \in Checked \/ halts = Halts
    BY <2>1 DEF FlowEffects, FlowLeavesTime
  <2>3. pc' \notin BeforeQueue \cup InInit /\ CURRENT' = BOOT_PID /\ halts' > 0 => TICKS' > SWITCH_TICK_BUDGET
    BY <1>e, <2>2 DEF AloneInv
  <2>4. pc' \in Checked => halts' = Halts /\ CURRENT' = BOOT_PID
    BY <2>2 DEF AloneInv
  <2> QED BY <1>a, <2>3, <2>4 DEF AloneInv, AIsThere, BeforeQueue, InInit, Checked
<1>2. CASE TaskStep
  <2>1. pc' = pc /\ pc \notin BeforeQueue \cup InInit /\ CURRENT # BOOT_PID /\ UNCHANGED <<TICKS, halts>>
    BY <1>2, <1>i, TasksRunLate DEF TaskStep, TaskIterates, TaskASpawnsD, TaskCExits, Iterates, TaskAt, flowVars
  <2>2. pc \notin Checked
    BY <2>1 DEF AloneInv
  <2>3. CURRENT' = BOOT_PID => TICKS > SWITCH_TICK_BUDGET
    <3>1. CASE TaskIterates \/ TaskASpawnsD
      BY <2>1, <3>1 DEF TaskIterates, TaskASpawnsD, cpuVars
    <3>2. CASE TaskCExits
      <4>1. queue' = RQ!RemoveProcess(queue, CURRENT) /\ CURRENT' = NextToRun(queue', TICKS)
        BY <3>2 DEF TaskCExits
      <4>2. QueueOfTasks(queue') /\ BOOT_PID \notin RQ!Queued(queue')
        BY <1>i, <1>b, <2>1, <4>1, RemoveKeepsQueue DEF QueueInv
      <4>3. \E k \in queue'.normal_order : k[2] = 0
        BY <1>a, <2>1 DEF AIsThere, InInit
      <4> QED BY <4>1, <4>2, <4>3, BootRunsPastBudget
    <3> QED BY <1>2, <3>1, <3>2 DEF TaskStep
  <2> QED BY <1>a, <2>1, <2>2, <2>3 DEF AloneInv, AIsThere, BeforeQueue, InInit, Checked
<1>3. CASE OnTimerTick
  <2>1. /\ TICKS' = IF TICKS > SWITCH_TICK_BUDGET THEN TICKS ELSE TICKS + 1
        /\ CURRENT # BOOT_PID \/ pc # "in_hlt" => UNCHANGED <<pc, halts>>
        /\ pc' = pc \/ (pc = "in_hlt" /\ pc' = "hlt")
    BY <1>3, TickLeaves
  <2>2. CURRENT' = IF scheduler_up THEN NextToRun(queue, TICKS') ELSE CURRENT
    BY <1>3 DEF OnTimerTick
  <2>3. ASSUME pc' \notin BeforeQueue \cup InInit, CURRENT' = BOOT_PID PROVE TICKS' > SWITCH_TICK_BUDGET
    <3>1. pc \notin BeforeQueue \cup InInit
      BY <2>1, <2>3 DEF BeforeQueue, InInit
    <3>2. scheduler_up /\ AIsThere
      BY <1>i, <3>1 DEF DueInv, AloneInv, InInit
    <3> QED BY <1>b, <1>i, <2>2, <2>3, <3>1, <3>2, BootRunsPastBudget DEF AIsThere, QueueInv
  <2>4. ASSUME pc' \in Checked PROVE halts' = Halts /\ CURRENT' = BOOT_PID
    <3>1. pc \in Checked /\ UNCHANGED halts /\ pc \notin BeforeQueue \cup InInit
      BY <2>1, <2>4 DEF Checked, BeforeQueue, InInit
    <3>2. halts = Halts /\ CURRENT = BOOT_PID /\ TICKS > SWITCH_TICK_BUDGET
      BY <1>i, <3>1 DEF AloneInv
    <3>3. TICKS' > SWITCH_TICK_BUDGET
      BY <2>1, <3>2
    <3> QED BY <2>2, <3>1, <3>2, <3>3 DEF NextToRun
  <2> QED BY <1>a, <2>3, <2>4 DEF AloneInv, AIsThere, BeforeQueue, InInit, Checked
<1>4. CASE TakesInterrupt \/ ApRuns \/ UNCHANGED kernelVars
  <2>1. UNCHANGED <<pc, halts, CURRENT, TICKS>>
    BY <1>4, RestTakesNoTime
  <2> QED BY <1>a, <2>1 DEF AloneInv, AIsThere, BeforeQueue, InInit, Checked
<1> QED
  BY <1>1, <1>2, <1>3, <1>4 DEF BootNext

(* Past its last hlt kernel_main keeps the core, whatever ticks come: no   *)
(* task runs during the self-tests, the start of the second core or the    *)
(* verdict.                                                                *)
THEOREM SelfTestsRunAlone == BootSpec => []ChecksRunAlone
<1>1. BootInit => AloneInv
  BY DEF BootInit, AloneInv, BeforeQueue, InInit, Checked
<1>2. AloneInv => ChecksRunAlone
  BY DEF AloneInv, ChecksRunAlone, Checked
<1> QED
  BY <1>1, <1>2, AloneStep, BootInvariant, BootKeepsTimetable, PTL DEF BootSpec
=============================================================================
