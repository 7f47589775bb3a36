------------------------------ MODULE RunQueue ------------------------------
(***************************************************************************)
(* reference-rs/src/scheduler.rs: one RunQueue and every sequence of calls *)
(* a caller may make of it.  The caller's contract is that of the kernel:  *)
(* a pid is not added while it is queued (scheduler_bridge.rs draws every  *)
(* pid from a counter).  Nothing else is assumed: processes of every       *)
(* class arrive with any deadline and vruntime, charges are any u64 and    *)
(* may wrap, and calls may name pids that are not queued.                  *)
(***************************************************************************)
EXTENDS RunQueueOps

CONSTANTS Pids,         \* The pids callers use.
          Deadlines,    \* The deadlines of RealTime processes.
          Charges       \* The time_used arguments of update_vruntime.

ASSUME CallAssumption ==
  /\ Pids \subseteq Nat
  /\ Deadlines \subseteq Nat
  /\ Charges \subseteq 0 .. U64 - 1

VARIABLE rq

NewProcess ==
  [class : {"RealTime"}, deadline : Deadlines, vruntime : {0}]
    \cup [class : {"Normal", "Idle"}, deadline : {0}, vruntime : 0 .. U64 - 1]

QueueInit == rq = NewRunQueue

Add(pid, p) ==
  /\ pid \notin Queued(rq)
  /\ rq' = AddProcess(rq, pid, p)

Remove(pid) == rq' = RemoveProcess(rq, pid)

Charge(pid, time_used) == rq' = UpdateVruntime(rq, pid, time_used)

QueueNext ==
  \E pid \in Pids :
    \/ \E p \in NewProcess : Add(pid, p)
    \/ Remove(pid)
    \/ \E time_used \in Charges : Charge(pid, time_used)

QueueSpec == QueueInit /\ [][QueueNext]_rq

----------------------------------------------------------------------------
(* The queue keeps its shape: pids map to processes, and both orderings    *)
(* hold (u64, Pid) keys.                                                   *)
QueueTypeOK == IsRunQueue(rq)

(* After any sequence of add_process, remove_process and update_vruntime   *)
(* the EDF and CFS orderings hold exactly one key per process of their     *)
(* class, made from its current deadline or vruntime: update_vruntime      *)
(* re-keys, remove_process removes the key of today and not of the day the *)
(* process was added.                                                      *)
Mirror == OrderingsMirror(rq)

(* pick_next_task, which reads only the first key of an ordering, makes    *)
(* the choice the hybrid policy makes over the processes themselves: the   *)
(* earliest deadline, else the least vruntime, else nobody; a removed or   *)
(* Idle process is never chosen, and a queued RealTime or Normal process   *)
(* always makes somebody chosen.                                           *)
PickIsHybrid == IsHybridChoice(rq, PickNextTask(rq))
=============================================================================
