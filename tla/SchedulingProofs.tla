-------------------------- MODULE SchedulingProofs --------------------------
(***************************************************************************)
(* The invariants of RunQueue.tla, for every set of pids and every u64     *)
(* width, and the lag bound of FairShare.tla, for every number of pids and *)
(* however long the system runs.  TypeOK and LagIsBounded together are     *)
(* inductive: a bound of one tick for the running task, and of two for the *)
(* others, is what makes it so, since the running task is charged after    *)
(* its successor has been chosen.                                          *)
(***************************************************************************)
EXTENDS RunQueue, FairShare, RunQueueLemmas

(* Inductive: Mirror needs the shape of the queue, and the shape alone is  *)
(* preserved without it.                                                   *)
QueueInv == QueueTypeOK /\ Mirror

(* The processes callers may add are processes. *)
LEMMA NewProcessType == NewProcess \subseteq Process
<1>1. 0 .. U64 - 1 \subseteq Nat /\ Deadlines \subseteq Nat
  BY CallAssumption, U64Assumption
<1>2. [class : {"RealTime"}, deadline : Deadlines, vruntime : {0}] \subseteq Process
  <2>1. {"RealTime"} \subseteq PriorityClass /\ {0} \subseteq Nat
    BY DEF PriorityClass
  <2> QED BY <1>1, <2>1 DEF Process
<1>3. [class : {"Normal", "Idle"}, deadline : {0}, vruntime : 0 .. U64 - 1] \subseteq Process
  BY <1>1 DEF Process, PriorityClass
<1> QED BY <1>2, <1>3 DEF NewProcess

(* QueueInv holds of the new queue and every call preserves it. *)
LEMMA QueueInductive ==
  /\ QueueInit => QueueInv
  /\ QueueInv /\ [QueueNext]_rq => QueueInv'
<1>1. QueueInit => QueueInv
  BY NewRunQueueMirrors DEF QueueInit, QueueInv, QueueTypeOK, Mirror
<1>2. ASSUME QueueInv, [QueueNext]_rq PROVE QueueInv'
  <2> USE <1>2 DEF QueueInv, QueueTypeOK, Mirror
  <2>1. ASSUME NEW pid \in Pids, NEW p \in NewProcess, Add(pid, p) PROVE QueueInv'
    BY <2>1, NewProcessType, CallAssumption, AddProcessType, AddProcessMirrors DEF Add
  <2>2. ASSUME NEW pid \in Pids, Remove(pid) PROVE QueueInv'
    BY <2>2, RemoveProcessType, RemoveProcessMirrors DEF Remove
  <2>3. ASSUME NEW pid \in Pids, NEW time_used \in Charges, Charge(pid, time_used) PROVE QueueInv'
    <3>1. time_used \in Nat
      BY CallAssumption, U64Assumption
    <3> QED BY <2>3, <3>1, UpdateVruntimeType, UpdateVruntimeMirrors DEF Charge
  <2>4. CASE UNCHANGED rq
    BY <2>4
  <2> QED BY <2>1, <2>2, <2>3, <2>4 DEF QueueNext
<1> QED BY <1>1, <1>2

(* After any sequence of calls the queue is well formed. *)
THEOREM RunQueueTypeCorrect == QueueSpec => []QueueTypeOK
<1>1. QueueInv => QueueTypeOK BY DEF QueueInv
<1> QED BY QueueInductive, <1>1, PTL DEF QueueSpec

(* After any sequence of add_process, remove_process and update_vruntime   *)
(* the two orderings hold exactly the keys of the processes queued now.    *)
THEOREM RunQueueMirrors == QueueSpec => []Mirror
<1>1. QueueInv => Mirror BY DEF QueueInv
<1> QED BY QueueInductive, <1>1, PTL DEF QueueSpec

(* pick_next_task makes the EDF-then-CFS choice in every reachable queue.  *)
THEOREM RunQueuePicksHybrid == QueueSpec => []PickIsHybrid
<1>1. QueueInv => PickIsHybrid
  BY PickMakesHybridChoice DEF QueueInv, QueueTypeOK, Mirror, PickIsHybrid
<1> QED BY QueueInductive, <1>1, PTL DEF QueueSpec

----------------------------------------------------------------------------
(* What a choice says of vruntimes: nobody waiting has less. *)
LEMMA ChosenIsLeast ==
  ASSUME TypeOK, NEW spent \in BOOLEAN, NEW n \in Pid \cup {BOOT_PID}, Chosen(spent, n)
  PROVE  n # BOOT_PID => n \in Tasks /\ \A q \in Tasks : vr[n] <= vr[q]
<1>1. Tasks \subseteq Int /\ \A q \in Tasks : vr[q] \in Nat /\ q \in Int /\ q # BOOT_PID
  BY DispatcherAssumption DEF TypeOK, Pid
<1>2. CASE spent \/ Tasks = {}
  BY <1>2 DEF Chosen
<1>3. CASE ~(spent \/ Tasks = {})
  <2>1. n \in Tasks /\ \A q \in Tasks \ {n} : Before(n, q)
    BY <1>3 DEF Chosen
  <2>2. ASSUME NEW q \in Tasks
        PROVE  vr[n] <= vr[q]
    <3>1. CASE q = n
      BY <1>1, <2>1, <3>1
    <3>2. CASE q # n
      BY <1>1, <2>1, <3>2 DEF Before
    <3> QED BY <3>1, <3>2
  <2> QED BY <2>1, <2>2
<1> QED BY <1>2, <1>3

(* The charge keeps the queue and moves at most the running task's         *)
(* vruntime, by one.                                                       *)
LEMMA ChargedIs ==
  ASSUME TypeOK
  PROVE  /\ DOMAIN Charged = Tasks
         /\ Charged \in [Tasks -> Nat]
         /\ \A q \in Tasks : Charged[q] = IF q = current THEN vr[q] + 1 ELSE vr[q]
<1>1. vr \in [Tasks -> Nat]
  BY DEF TypeOK
<1> QED BY <1>1 DEF Charged, Tasks

(* A tick keeps the queue and, lowered or not, the differences between the *)
(* charged vruntimes.                                                      *)
LEMMA TickKeepsDifferences ==
  ASSUME TypeOK, Becomes(Charged)
  PROVE  /\ DOMAIN vr' = Tasks
         /\ vr' \in [Tasks -> Nat]
         /\ \A p, q \in Tasks : vr'[q] - vr'[p] = Charged[q] - Charged[p]
<1>1. DOMAIN Charged = Tasks /\ Charged \in [Tasks -> Nat]
  BY ChargedIs
<1>2. CASE vr' = Charged
  BY <1>1, <1>2
<1>3. ASSUME NEW least \in Tasks, \A q \in Tasks : Charged[least] <= Charged[q],
             vr' = [q \in Tasks |-> Charged[q] - Charged[least]]
      PROVE  /\ DOMAIN vr' = Tasks
             /\ vr' \in [Tasks -> Nat]
             /\ \A p, q \in Tasks : vr'[q] - vr'[p] = Charged[q] - Charged[p]
  <2>1. \A q \in Tasks : Charged[q] \in Nat /\ Charged[q] - Charged[least] \in Nat
    BY <1>1, <1>3
  <2> QED BY <1>3, <2>1
<1> QED BY <1>1, <1>2, <1>3 DEF Becomes, BecomesLowered

(* Every step, and a stutter, preserves the types. *)
LEMMA TypeInductive ==
  ASSUME TypeOK, [FairNext]_fairVars
  PROVE  TypeOK'
<1> USE DispatcherAssumption DEF TypeOK, Tasks
<1>1. CASE FairDepart
  BY <1>1 DEF FairDepart, Depart
<1>2. ASSUME NEW pid \in Pid, FairArrive(pid)
      PROVE  TypeOK'
  BY <1>2 DEF FairArrive, Arrive
<1>3. ASSUME NEW pid \in Pid, FairRefuse(pid)
      PROVE  TypeOK'
  BY <1>3 DEF FairRefuse, Refuse
<1>4. ASSUME NEW next \in Pid \cup {BOOT_PID}, FairHandoff(next)
      PROVE  TypeOK'
  BY <1>4 DEF FairHandoff, Handoff, Record, Pid
<1>5. ASSUME NEW next \in Pid \cup {BOOT_PID}, FairTick(next)
      PROVE  TypeOK'
  <2>1. DOMAIN vr' = Tasks /\ vr' \in [Tasks -> Nat]
    BY <1>5, TickKeepsDifferences DEF FairTick
  <2> QED BY <1>5, <2>1 DEF FairTick, Record, Pid
<1>6. CASE UNCHANGED fairVars
  BY <1>6 DEF fairVars
<1> QED BY <1>1, <1>2, <1>3, <1>4, <1>5, <1>6 DEF FairNext, Pass

(* Every step preserves the lag bound; only choices (a tick, a hand-off)   *)
(* and charges can disturb it.                                             *)
LEMMA LagInductive ==
  ASSUME TypeOK, LagIsBounded, [FairNext]_fairVars
  PROVE  LagIsBounded'
<1>0. /\ Tasks \subseteq Pid /\ vr \in [Tasks -> Nat] /\ picked \in [Tasks -> SUBSET Pid]
      /\ current \in Pid \cup {BOOT_PID} /\ BOOT_PID \notin Pid /\ over \in BOOLEAN
      /\ Tasks \subseteq used
  BY DispatcherAssumption DEF TypeOK, Pid
<1>1. CASE FairDepart
  BY <1>0, <1>1 DEF FairDepart, Depart, LagIsBounded, Tasks
<1>2. ASSUME NEW pid \in Pid, FairArrive(pid)
      PROVE  LagIsBounded'
  BY <1>0, <1>2 DEF FairArrive, Arrive, LagIsBounded, Tasks
<1>3. ASSUME NEW pid \in Pid, FairRefuse(pid)
      PROVE  LagIsBounded'
  BY <1>3 DEF FairRefuse, Refuse, LagIsBounded, Tasks
<1>4. ASSUME NEW next \in Pid \cup {BOOT_PID}, FairHandoff(next)
      PROVE  LagIsBounded'
  <2>1. next # BOOT_PID => next \in Tasks /\ \A q \in Tasks : vr[next] <= vr[q]
    BY <1>0, <1>4, ChosenIsLeast DEF FairHandoff, Handoff
  <2> QED BY <1>0, <1>4, <2>1 DEF FairHandoff, Handoff, Record, LagIsBounded, Tasks
<1>5. ASSUME NEW next \in Pid \cup {BOOT_PID}, FairTick(next)
      PROVE  LagIsBounded'
  <2>1. next # BOOT_PID => next \in Tasks /\ \A q \in Tasks : vr[next] <= vr[q]
    BY <1>0, <1>5, ChosenIsLeast DEF FairTick
  <2>2. /\ DOMAIN vr' = Tasks /\ vr' \in [Tasks -> Nat]
        /\ \A p, q \in Tasks : vr'[q] - vr'[p] = Charged[q] - Charged[p]
        /\ \A q \in Tasks : Charged[q] = IF q = current THEN vr[q] + 1 ELSE vr[q]
    BY <1>5, ChargedIs, TickKeepsDifferences DEF FairTick
  <2>3. ASSUME NEW p \in Tasks, NEW q \in picked'[p] \cap Tasks
        PROVE  vr'[q] <= vr'[p] + (IF q = next THEN 1 ELSE 2)
    <3>1. picked'[p] = picked[p] \cup (IF next = BOOT_PID THEN {} ELSE {next})
      BY <1>5, <2>2 DEF FairTick, Record
    <3>2. /\ vr[p] \in Nat /\ vr[q] \in Nat /\ vr'[p] \in Nat /\ vr'[q] \in Nat
          /\ vr'[q] - vr'[p] = Charged[q] - Charged[p]
          /\ Charged[p] \in Nat /\ Charged[q] \in Nat /\ Charged[p] >= vr[p]
      BY <1>0, <2>2
    <3>3. CASE q = next
      <4>1. Charged[q] <= vr[p] + 1
        BY <1>0, <2>1, <2>2, <3>2, <3>3
      <4> QED BY <3>2, <3>3, <4>1
    <3>4. CASE q # next
      <4>1. Charged[q] <= vr[p] + 2
        BY <2>2, <3>1, <3>2, <3>4 DEF LagIsBounded
      <4> QED BY <3>2, <3>4, <4>1
    <3> QED BY <3>3, <3>4
  <2>4. current' = next
    BY <1>5 DEF FairTick
  <2> QED BY <2>2, <2>3, <2>4 DEF LagIsBounded, Tasks
<1>6. CASE UNCHANGED fairVars
  BY <1>6 DEF fairVars, LagIsBounded, Tasks
<1> QED BY <1>1, <1>2, <1>3, <1>4, <1>5, <1>6 DEF FairNext, Pass

(* Whatever tasks arrive and depart, and whoever is chosen, the queue, the *)
(* running pid and the history keep their types.                           *)
THEOREM FairShareTypeCorrect == FairSpec => []TypeOK
<1>1. FairInit => TypeOK
  BY DispatcherAssumption DEF FairInit, Init, TypeOK, Tasks, Pid
<1> QED BY <1>1, TypeInductive, PTL DEF FairSpec

(* No task runs more than two ticks ahead of one that was queued when it   *)
(* was chosen, for every number of tasks and every order of arrivals,      *)
(* departures and ticks.                                                   *)
THEOREM LagBound == FairSpec => []LagIsBounded
<1>1. FairInit => TypeOK /\ LagIsBounded
  BY DispatcherAssumption DEF FairInit, Init, TypeOK, LagIsBounded, Tasks, Pid
<1> QED BY <1>1, TypeInductive, LagInductive, PTL DEF FairSpec
=============================================================================
