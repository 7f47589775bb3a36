---------------------------- MODULE RunQueueOps ----------------------------
(***************************************************************************)
(* The run queue of reference-rs/src/scheduler.rs as a value: the record   *)
(* built by RunQueue and the effect of each of its methods.  RunQueue.tla  *)
(* makes a state machine of it; SchedulerBridge.tla and KernelMain.tla     *)
(* use the same operators for the queue the kernel keeps in SCHEDULER.     *)
(*                                                                         *)
(* A BTreeMap from keys to () is the set of its keys; its first entry is   *)
(* the least key.  Process::state is never read by any method and is left  *)
(* out.                                                                    *)
(***************************************************************************)
EXTENDS Integers

CONSTANT U64            \* How many values a u64 has: vruntime wraps at U64.

ASSUME U64Assumption == U64 \in Nat \ {0}

(* Option::None.  Every optional value of these models is a natural number. *)
None == -1

PriorityClass == {"RealTime", "Normal", "Idle"}

(* A Process without its pid, which is its key in RunQueue::processes; the  *)
(* deadline is that of RealTime(deadline) and 0 in the other classes.       *)
Process == [class : PriorityClass, deadline : Nat, vruntime : Nat]

Key == Nat \X Nat

(* Every value RunQueue can have, the pids being natural numbers. *)
IsRunQueue(rq) ==
  /\ DOMAIN rq = {"processes", "real_time_order", "normal_order"}
  /\ DOMAIN rq.processes \subseteq Nat
  /\ rq.processes \in [DOMAIN rq.processes -> Process]
  /\ rq.real_time_order \subseteq Key
  /\ rq.normal_order \subseteq Key

NewRunQueue ==
  [processes |-> [pid \in {} |-> [class |-> "Idle", deadline |-> 0, vruntime |-> 0]],
   real_time_order |-> {},
   normal_order |-> {}]

(* The order of (u64, Pid) tuples. *)
KeyLess(a, b) == a[1] < b[1] \/ (a[1] = b[1] /\ a[2] < b[2])

FirstKey(order) == CHOOSE k \in order : \A j \in order : j = k \/ KeyLess(k, j)

EdfKey(pid, p) == <<p.deadline, pid>>
CfsKey(pid, p) == <<p.vruntime, pid>>

Queued(rq) == DOMAIN rq.processes
Normal(rq) == {pid \in Queued(rq) : rq.processes[pid].class = "Normal"}

AddProcess(rq, pid, p) ==
  [processes |-> [q \in Queued(rq) \cup {pid} |-> IF q = pid THEN p ELSE rq.processes[q]],
   real_time_order |-> rq.real_time_order
                         \cup (IF p.class = "RealTime" THEN {EdfKey(pid, p)} ELSE {}),
   normal_order |-> rq.normal_order
                         \cup (IF p.class = "Normal" THEN {CfsKey(pid, p)} ELSE {})]

RemoveProcess(rq, pid) ==
  IF pid \notin Queued(rq)
    THEN rq
    ELSE LET p == rq.processes[pid] IN
         [processes |-> [q \in Queued(rq) \ {pid} |-> rq.processes[q]],
          real_time_order |-> rq.real_time_order
                                \ (IF p.class = "RealTime" THEN {EdfKey(pid, p)} ELSE {}),
          normal_order |-> rq.normal_order
                                \ (IF p.class = "Normal" THEN {CfsKey(pid, p)} ELSE {})]

(* Variant: CFS goes before EDF. *)
PickNormalFirst(rq) ==
  IF rq.normal_order # {} THEN FirstKey(rq.normal_order)[2]
  ELSE IF rq.real_time_order # {} THEN FirstKey(rq.real_time_order)[2]
  ELSE None

PickNextTask(rq) ==
  IF rq.real_time_order # {} THEN FirstKey(rq.real_time_order)[2]
  ELSE IF rq.normal_order # {} THEN FirstKey(rq.normal_order)[2]
  ELSE None

(* Variant: the key under the old vruntime is left in the ordering. *)
UpdateVruntimeKeepsKey(rq, pid, time_used) ==
  IF pid \notin Normal(rq)
    THEN rq
    ELSE LET new == [rq.processes[pid] EXCEPT !.vruntime = (@ + time_used) % U64]
         IN  [processes |-> [rq.processes EXCEPT ![pid] = new],
              real_time_order |-> rq.real_time_order,
              normal_order |-> rq.normal_order \cup {CfsKey(pid, new)}]

UpdateVruntime(rq, pid, time_used) ==
  IF pid \notin Normal(rq)
    THEN rq
    ELSE LET old == rq.processes[pid]
             new == [old EXCEPT !.vruntime = (@ + time_used) % U64]
         IN  [processes |-> [rq.processes EXCEPT ![pid] = new],
              real_time_order |-> rq.real_time_order,
              normal_order |-> (rq.normal_order \ {CfsKey(pid, old)}) \cup {CfsKey(pid, new)}]

----------------------------------------------------------------------------
(* What the two orderings are for: each holds exactly the keys of its own  *)
(* class, computed from the processes as they are now.                     *)
OrderingsMirror(rq) ==
  /\ rq.real_time_order = {EdfKey(pid, rq.processes[pid]) :
                             pid \in {q \in Queued(rq) : rq.processes[q].class = "RealTime"}}
  /\ rq.normal_order = {CfsKey(pid, rq.processes[pid]) : pid \in Normal(rq)}

(* The hybrid policy, stated over the processes and not over the orderings *)
(* that implement it: pid is a task EDF, then CFS, may run next.           *)
IsHybridChoice(rq, pid) ==
  LET ps == rq.processes
      RealTime == {q \in Queued(rq) : ps[q].class = "RealTime"}
  IN  IF RealTime # {}
        THEN pid \in RealTime /\ \A q \in RealTime \ {pid} : KeyLess(EdfKey(pid, ps[pid]), EdfKey(q, ps[q]))
      ELSE IF Normal(rq) # {}
        THEN pid \in Normal(rq) /\ \A q \in Normal(rq) \ {pid} : KeyLess(CfsKey(pid, ps[pid]), CfsKey(q, ps[q]))
      ELSE pid = None
=============================================================================
