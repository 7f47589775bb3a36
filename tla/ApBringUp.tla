----------------------------- MODULE ApBringUp -----------------------------
(***************************************************************************)
(* Starting the second core: bring_up_ap on the boot processor (BSP),      *)
(* ap_entry64 on the application processor (AP), the timer interrupt that  *)
(* paces the BSP's waits and the check kernel_main makes of the outcome    *)
(* (kernel-x86_64/src: smp.rs, main.rs, scheduler_bridge.rs).              *)
(*                                                                         *)
(* The BSP runs with interrupts enabled, past the tick budget, so a tick   *)
(* only counts.  tick_count locks the spin lock around TICKS for the time  *)
(* of a read; on_timer_tick locks it too, and while it spins on it nothing *)
(* else runs on the BSP.  TICKS only matters as the ticks since the        *)
(* current wait began (elapsed).                                           *)
(***************************************************************************)
EXTENDS Integers

CONSTANTS InitWait,     \* busy_wait_ticks after the INIT: 3.
          SipiWait,     \* busy_wait_ticks after each SIPI: 1.
          Timeout,      \* Ticks each poll may take: 200.
          ApicIds,      \* The APIC ids of the cores that may answer.
          Target        \* The one bring_up_ap was asked for.

ASSUME BringUpAssumption ==
  /\ InitWait \in Nat /\ SipiWait \in 0 .. InitWait /\ Timeout \in Nat /\ InitWait <= Timeout
  /\ ApicIds \subseteq Nat /\ Target \in ApicIds

VARIABLES
  stage,                \* Where bring_up_ap is.
  elapsed,              \* Ticks since the wait's start was read; None before.
  TICKS_locked,         \* The BSP is inside tick_count.
  isr,                  \* The BSP is inside timer_interrupt_handler.
  slots_written,        \* CR3, a stack of its own and the entry are in the trampoline.
  sipi_sent,            \* A SIPI is on its way to the AP, or has arrived.
  result,               \* What bring_up_ap returned, and then smp_ok.
  ap,                   \* Where the AP is.
  AP_REPORTED_APIC_ID, AP_STARTED, AP_FAULT_SURVIVED

bspVars == <<stage, elapsed, TICKS_locked, slots_written, sipi_sent, result>>
apVars == <<ap, AP_REPORTED_APIC_ID, AP_STARTED, AP_FAULT_SURVIVED>>
vars == <<bspVars, isr, apVars>>

None == -1

Waits == {"wait_init", "wait_sipi1", "wait_sipi2"}
Polls == {"poll_started", "poll_survived"}
Sends == {"send_init", "send_sipi1", "send_sipi2"}

WaitTicks == IF stage = "wait_init" THEN InitWait ELSE SipiWait
Polled == IF stage = "poll_started" THEN AP_STARTED ELSE AP_FAULT_SURVIVED
After == [map_lapic |-> "map_trampoline", map_trampoline |-> "prepare", prepare |-> "send_init",
          send_init |-> "wait_init", send_sipi1 |-> "wait_sipi1", send_sipi2 |-> "wait_sipi2",
          wait_init |-> "send_sipi1", wait_sipi1 |-> "send_sipi2", wait_sipi2 |-> "poll_started",
          poll_started |-> "poll_survived", poll_survived |-> "returned"]

Init ==
  /\ stage = "map_lapic" /\ elapsed = None /\ TICKS_locked = FALSE /\ isr = FALSE
  /\ slots_written = FALSE /\ sipi_sent = FALSE /\ result = FALSE
  /\ ap = "halted" /\ AP_REPORTED_APIC_ID = None /\ AP_STARTED = FALSE /\ AP_FAULT_SURVIVED = FALSE

----------------------------------------------------------------------------
(* The BSP executes its own code. *)
BspAt(s) == stage \in s /\ ~isr

Return(value) == stage' = "returned" /\ result' = value

(* Mapping the LAPIC page, or the trampoline page, may fail.               *)
MapsPage ==
  /\ BspAt({"map_lapic", "map_trampoline"})
  /\ \/ stage' = After[stage] /\ UNCHANGED result
     \/ Return(FALSE)
  /\ UNCHANGED <<elapsed, TICKS_locked, slots_written, sipi_sent, isr, apVars>>

(* The trampoline is copied, the AP's stack allocated, and the page table, *)
(* stack and entry poked into the trampoline's slots; without a physical   *)
(* memory offset there is nowhere to copy to.                              *)
PreparesTrampoline ==
  /\ BspAt({"prepare"})
  /\ \/ slots_written' = TRUE /\ stage' = After[stage] /\ UNCHANGED result
     \/ Return(FALSE) /\ UNCHANGED slots_written
  /\ UNCHANGED <<elapsed, TICKS_locked, sipi_sent, isr, apVars>>

SendsIpi ==
  /\ BspAt(Sends)
  /\ sipi_sent' = (sipi_sent \/ stage # "send_init")
  /\ stage' = After[stage]
  /\ UNCHANGED <<elapsed, TICKS_locked, slots_written, result, isr, apVars>>

(* tick_count, first half: TICKS.lock().  In a poll the flag was found     *)
(* clear just before, except when the deadline is still to be computed.    *)
TickCountLocks ==
  /\ BspAt(Waits \cup Polls) /\ ~TICKS_locked
  /\ stage \in Polls /\ elapsed # None => ~Polled
  /\ TICKS_locked' = TRUE
  /\ UNCHANGED <<stage, elapsed, slots_written, sipi_sent, result, isr, apVars>>

(* Variant: the polls have no deadline. *)
TickCountNeverGivesUp ==
  /\ BspAt(Waits \cup Polls) /\ TICKS_locked
  /\ TICKS_locked' = FALSE
  /\ \/ elapsed = None /\ elapsed' = 0 /\ UNCHANGED <<stage, result>>
     \/ stage \in Waits /\ elapsed \in 0 .. WaitTicks - 1 /\ UNCHANGED <<stage, elapsed, result>>
     \/ stage \in Waits /\ elapsed >= WaitTicks /\ stage' = After[stage] /\ elapsed' = None /\ UNCHANGED result
     \/ stage \in Polls /\ elapsed # None /\ UNCHANGED <<stage, elapsed, result>>
  /\ UNCHANGED <<slots_written, sipi_sent, isr, apVars>>

(* Second half: the count is read, the guard dropped, and the caller acts  *)
(* on the count: it takes it as the start, waits on, moves on or gives up. *)
TickCountReturns ==
  /\ BspAt(Waits \cup Polls) /\ TICKS_locked
  /\ TICKS_locked' = FALSE
  /\ \/ elapsed = None /\ elapsed' = 0 /\ UNCHANGED <<stage, result>>
     \/ stage \in Waits /\ elapsed \in 0 .. WaitTicks - 1 /\ UNCHANGED <<stage, elapsed, result>>
     \/ stage \in Waits /\ elapsed >= WaitTicks /\ stage' = After[stage] /\ elapsed' = None /\ UNCHANGED result
     \/ stage \in Polls /\ elapsed \in 0 .. Timeout /\ UNCHANGED <<stage, elapsed, result>>
     \/ stage \in Polls /\ elapsed > Timeout /\ Return(FALSE) /\ elapsed' = None
  /\ UNCHANGED <<slots_written, sipi_sent, isr, apVars>>

(* The polled flag is found set. *)
PollSucceeds ==
  /\ BspAt(Polls) /\ ~TICKS_locked /\ elapsed # None /\ Polled
  /\ stage' = After[stage] /\ elapsed' = None
  /\ result' = (stage = "poll_survived")
  /\ UNCHANGED <<TICKS_locked, slots_written, sipi_sent, isr, apVars>>

(* kernel_main: smp_ok. *)
ChecksOutcome ==
  /\ BspAt({"returned"})
  /\ stage' = "checked"
  /\ result' = (result /\ AP_FAULT_SURVIVED /\ AP_REPORTED_APIC_ID = Target)
  /\ UNCHANGED <<elapsed, TICKS_locked, slots_written, sipi_sent, isr, apVars>>

----------------------------------------------------------------------------
TimerInterrupt ==
  /\ ~isr /\ isr' = TRUE
  /\ UNCHANGED <<bspVars, apVars>>

(* on_timer_tick can only count the tick when TICKS is not locked; the     *)
(* count stops where no comparison can tell the difference.                *)
TimerHandler ==
  /\ isr /\ ~TICKS_locked
  /\ isr' = FALSE
  /\ elapsed' = IF elapsed \in 0 .. Timeout THEN elapsed + 1 ELSE elapsed
  /\ UNCHANGED <<stage, TICKS_locked, slots_written, sipi_sent, result, apVars>>

----------------------------------------------------------------------------
(* The AP.  A SIPI starts it at the trampoline, which loads what is in the *)
(* slots at that moment; with nothing there it is lost.                    *)
ApWakes ==
  /\ ap = "halted" /\ sipi_sent
  /\ ap' = IF slots_written THEN "setup" ELSE "lost"
  /\ UNCHANGED <<AP_REPORTED_APIC_ID, AP_STARTED, AP_FAULT_SURVIVED, isr, bspVars>>

(* Its own GDT, TSS and IDT; then its APIC id is stored. *)
ApReports ==
  /\ ap = "setup" /\ ap' = "report"
  /\ AP_REPORTED_APIC_ID' \in ApicIds
  /\ UNCHANGED <<AP_STARTED, AP_FAULT_SURVIVED, isr, bspVars>>

ApStarts ==
  /\ ap = "report" /\ ap' = "int3"
  /\ AP_STARTED' = TRUE
  /\ UNCHANGED <<AP_REPORTED_APIC_ID, AP_FAULT_SURVIVED, isr, bspVars>>

(* Variant: the flag is stored before the breakpoint is taken. *)
ApSurvivesEarly ==
  /\ \/ ap = "int3" /\ ap' = "survived" /\ AP_FAULT_SURVIVED' = TRUE
     \/ ap = "survived" /\ ap' = "parked" /\ UNCHANGED AP_FAULT_SURVIVED
  /\ UNCHANGED <<AP_REPORTED_APIC_ID, AP_STARTED, isr, bspVars>>

(* int3 is taken and returned from, then the flag stored and the AP parks. *)
ApSurvives ==
  /\ \/ ap = "int3" /\ ap' = "survived" /\ UNCHANGED AP_FAULT_SURVIVED
     \/ ap = "survived" /\ ap' = "parked" /\ AP_FAULT_SURVIVED' = TRUE
  /\ UNCHANGED <<AP_REPORTED_APIC_ID, AP_STARTED, isr, bspVars>>

----------------------------------------------------------------------------
BspStep ==
  \/ MapsPage \/ PreparesTrampoline \/ SendsIpi
  \/ TickCountLocks \/ TickCountReturns \/ PollSucceeds \/ ChecksOutcome

Next == BspStep \/ TimerInterrupt \/ TimerHandler \/ ApWakes \/ ApReports \/ ApStarts \/ ApSurvives

Spec == Init /\ [][Next]_vars

(* Every variable keeps its type; the id reported is that of a core. *)
TypeOK ==
  /\ stage \in DOMAIN After \cup {"returned", "checked"}
  /\ elapsed \in None .. Timeout + 1
  /\ TICKS_locked \in BOOLEAN /\ isr \in BOOLEAN /\ slots_written \in BOOLEAN
  /\ sipi_sent \in BOOLEAN /\ result \in BOOLEAN
  /\ ap \in {"halted", "setup", "report", "int3", "survived", "parked", "lost"}
  /\ AP_REPORTED_APIC_ID \in ApicIds \cup {None}
  /\ AP_STARTED \in BOOLEAN /\ AP_FAULT_SURVIVED \in BOOLEAN

(* The check passes only for the core that was asked for, after it has     *)
(* returned from its breakpoint; and it is only ever woken with its page   *)
(* table, stack and entry in place.                                        *)
OutcomeIsEvidence ==
  /\ stage = "checked" /\ result => ap = "parked" /\ AP_REPORTED_APIC_ID = Target
  /\ ap # "lost"
=============================================================================
