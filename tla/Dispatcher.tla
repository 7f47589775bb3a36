----------------------------- MODULE Dispatcher -----------------------------
(***************************************************************************)
(* What the kernel's scheduler promises, without stacks, page tables,      *)
(* interrupt flags or run queue orderings: which task has the core.        *)
(*                                                                         *)
(* Tasks arrive with vruntime 0 and depart while they have the core.  At   *)
(* each tick the core goes to the task with the least vruntime and the     *)
(* task that had it until then is charged one tick - in that order: the    *)
(* choice is made on the vruntimes from before the charge.  A task that    *)
(* departs is followed at once by such a choice.  When the budget is over, *)
(* or nobody is queued, the choice is the boot flow.                       *)
(*                                                                         *)
(* SchedulerBridge.tla implements this specification.                      *)
(***************************************************************************)
EXTENDS Integers

CONSTANT BOOT_PID       \* The boot flow's pid; tasks have smaller ones.

ASSUME DispatcherAssumption == BOOT_PID \in Nat

VARIABLES vr,           \* The vruntime of every queued task.
          current,      \* Who has the core.
          over,         \* The tick budget is spent.
          used          \* Pids that have arrived or never will: none arrives twice.

vars == <<vr, current, over, used>>

Pid == 0 .. BOOT_PID - 1
Tasks == DOMAIN vr

Init == vr = [pid \in {} |-> 0] /\ current = BOOT_PID /\ over = FALSE /\ used = {}

Before(p, q) == vr[p] < vr[q] \/ (vr[p] = vr[q] /\ p < q)

(* Variant: the running task keeps the core as long as it is queued. *)
ChosenWithoutPreemption(spent, p) ==
  IF spent \/ Tasks = {} THEN p = BOOT_PID
  ELSE IF current \in Tasks THEN p = current
  ELSE p \in Tasks /\ \A q \in Tasks \ {p} : Before(p, q)

(* The choice of pick_next_task, and of the budget above it. *)
Chosen(spent, p) ==
  IF spent \/ Tasks = {} THEN p = BOOT_PID
                         ELSE p \in Tasks /\ \A q \in Tasks \ {p} : Before(p, q)

(* Variant: on_timer_tick forgets to charge. *)
NotCharged == vr

(* The running task is charged one tick. *)
Charged == IF current \in Tasks THEN [vr EXCEPT ![current] = @ + 1] ELSE vr

Arrive(pid) ==
  /\ pid \notin used
  /\ used' = used \cup {pid}
  /\ vr' = [q \in Tasks \cup {pid} |-> IF q = pid THEN 0 ELSE vr[q]]
  /\ UNCHANGED <<current, over>>

(* The pool is full: the pid is lost and nothing is queued. *)
Refuse(pid) ==
  /\ pid \notin used
  /\ used' = used \cup {pid}
  /\ UNCHANGED <<vr, current, over>>

Depart ==
  /\ current \in Tasks
  /\ vr' = [q \in Tasks \ {current} |-> vr[q]]
  /\ UNCHANGED <<current, over, used>>

(* The core of a departed task is passed on. *)
Handoff(next) ==
  /\ current \notin Tasks \cup {BOOT_PID}
  /\ Chosen(over, next)
  /\ current' = next
  /\ UNCHANGED <<vr, over, used>>

Tick(next) ==
  /\ over' \in {over, TRUE}
  /\ Chosen(over', next)
  /\ vr' = Charged
  /\ current' = next
  /\ UNCHANGED used

Next ==
  \/ Depart
  \/ \E pid \in Pid : Arrive(pid) \/ Refuse(pid)
  \/ \E next \in Pid \cup {BOOT_PID} : Handoff(next) \/ Tick(next)

Spec == Init /\ [][Next]_vars
=============================================================================
