--------------------------- MODULE RunQueueLemmas ---------------------------
(* What the operations of RunQueueOps preserve and return, for every queue. *)
EXTENDS RunQueueOps, TLAPS, WellFoundedInduction

(* A non-empty BTreeMap of (u64, Pid) keys has a first entry, however many *)
(* keys it holds: FirstKey is one of them and less than all the others.    *)
LEMMA FirstKeyIsLeast ==
  ASSUME NEW order, order \subseteq Key, order # {}
  PROVE  /\ FirstKey(order) \in order
         /\ \A j \in order : j = FirstKey(order) \/ KeyLess(FirstKey(order), j)
<1> DEFINE Less == LexPairOrdering(OpToRel(<, Nat), OpToRel(<, Nat), Nat, Nat)
<1>1. IsWellFoundedOn(Less, Key)
  BY NatLessThanWellFounded, WFLexPairOrdering DEF Key
<1>2. PICK k \in order : \A j \in order : ~ (<<j, k>> \in Less)
  BY <1>1, WFMin
<1>3. ASSUME NEW j \in order
      PROVE  j = k \/ KeyLess(k, j)
  <2>1. ~ (<<j, k>> \in Less)
    BY <1>2, <1>3
  <2>a. j \in Nat \X Nat /\ k \in Nat \X Nat
    BY DEF Key
  <2> HIDE DEF Less
  <2>2. /\ j = <<j[1], j[2]>> /\ k = <<k[1], k[2]>>
        /\ j[1] \in Nat /\ j[2] \in Nat /\ k[1] \in Nat /\ k[2] \in Nat
    BY <2>a
  <2>3. ~ KeyLess(j, k)
    BY <2>1, <2>a, <2>2 DEF Less, LexPairOrdering, OpToRel, KeyLess
  <2> QED
    BY <2>2, <2>3 DEF KeyLess
<1> QED
  BY <1>2, <1>3 DEF FirstKey

(* The mirror property key by key, the form the provers use. *)
MirrorsByKey(rq) ==
  \A v, q \in Nat :
    /\ <<v, q>> \in rq.real_time_order
         <=> q \in Queued(rq) /\ rq.processes[q].class = "RealTime" /\ rq.processes[q].deadline = v
    /\ <<v, q>> \in rq.normal_order
         <=> q \in Queued(rq) /\ rq.processes[q].class = "Normal" /\ rq.processes[q].vruntime = v

(* The two forms of the mirror property are one. *)
LEMMA MirrorPointwise ==
  ASSUME NEW rq, IsRunQueue(rq)
  PROVE  OrderingsMirror(rq) <=> MirrorsByKey(rq)
<1>1. ASSUME OrderingsMirror(rq) PROVE MirrorsByKey(rq)
  BY <1>1 DEF OrderingsMirror, MirrorsByKey, IsRunQueue, Queued, Normal, EdfKey, CfsKey
<1>2. ASSUME MirrorsByKey(rq) PROVE OrderingsMirror(rq)
  <2>1. ASSUME NEW pid \in Queued(rq)
        PROVE  pid \in Nat /\ rq.processes[pid].deadline \in Nat /\ rq.processes[pid].vruntime \in Nat
    BY DEF IsRunQueue, Queued, Process
  <2>2. \A k \in Key : \E v, q \in Nat : k = <<v, q>>
    BY DEF Key
  <2>3. rq.real_time_order = {EdfKey(pid, rq.processes[pid]) :
                               pid \in {q \in Queued(rq) : rq.processes[q].class = "RealTime"}}
    BY <1>2, <2>1, <2>2 DEF MirrorsByKey, IsRunQueue, EdfKey
  <2>4. rq.normal_order = {CfsKey(pid, rq.processes[pid]) : pid \in Normal(rq)}
    BY <1>2, <2>1, <2>2 DEF MirrorsByKey, IsRunQueue, CfsKey, Normal
  <2> QED BY <2>3, <2>4 DEF OrderingsMirror
<1> QED BY <1>1, <1>2

(* The empty queue is well formed and its orderings mirror it. *)
LEMMA NewRunQueueMirrors ==
  IsRunQueue(NewRunQueue) /\ OrderingsMirror(NewRunQueue) /\ Queued(NewRunQueue) = {}
BY DEF NewRunQueue, IsRunQueue, OrderingsMirror, Queued, Normal, Process, PriorityClass

(* add_process keeps the queue well formed and queues exactly its pid. *)
LEMMA AddProcessType ==
  ASSUME NEW rq, IsRunQueue(rq), NEW pid \in Nat, NEW p \in Process
  PROVE  /\ IsRunQueue(AddProcess(rq, pid, p))
         /\ Queued(AddProcess(rq, pid, p)) = Queued(rq) \cup {pid}
BY DEF IsRunQueue, AddProcess, Queued, Key, EdfKey, CfsKey, Process

(* add_process of a pid that is not queued keeps the orderings exact. *)
LEMMA AddProcessMirrors ==
  ASSUME NEW rq, IsRunQueue(rq), OrderingsMirror(rq),
         NEW pid \in Nat, pid \notin Queued(rq), NEW p \in Process
  PROVE  OrderingsMirror(AddProcess(rq, pid, p))
<1> DEFINE new == AddProcess(rq, pid, p)
<1>1. MirrorsByKey(rq)
  BY MirrorPointwise
<1>2. SUFFICES ASSUME NEW v \in Nat, NEW q \in Nat
               PROVE  /\ <<v, q>> \in new.real_time_order
                           <=> q \in Queued(new) /\ new.processes[q].class = "RealTime"
                                                 /\ new.processes[q].deadline = v
                      /\ <<v, q>> \in new.normal_order
                           <=> q \in Queued(new) /\ new.processes[q].class = "Normal"
                                                 /\ new.processes[q].vruntime = v
  BY AddProcessType, MirrorPointwise DEF MirrorsByKey
<1>3. /\ Queued(new) = Queued(rq) \cup {pid}
      /\ new.processes[pid] = p
      /\ q # pid /\ q \in Queued(rq) => new.processes[q] = rq.processes[q]
  BY DEF AddProcess, Queued
<1>4. /\ <<v, q>> \in new.real_time_order
           <=> <<v, q>> \in rq.real_time_order \/ (p.class = "RealTime" /\ v = p.deadline /\ q = pid)
      /\ <<v, q>> \in new.normal_order
           <=> <<v, q>> \in rq.normal_order \/ (p.class = "Normal" /\ v = p.vruntime /\ q = pid)
  BY DEF AddProcess, EdfKey, CfsKey
<1> QED BY <1>1, <1>3, <1>4 DEF MirrorsByKey

(* remove_process keeps the queue well formed and removes exactly its pid. *)
LEMMA RemoveProcessType ==
  ASSUME NEW rq, IsRunQueue(rq), NEW pid
  PROVE  /\ IsRunQueue(RemoveProcess(rq, pid))
         /\ Queued(RemoveProcess(rq, pid)) = Queued(rq) \ {pid}
BY DEF IsRunQueue, RemoveProcess, Queued, Key, EdfKey, CfsKey, Process

(* remove_process takes the removed process out of its ordering too. *)
LEMMA RemoveProcessMirrors ==
  ASSUME NEW rq, IsRunQueue(rq), OrderingsMirror(rq), NEW pid
  PROVE  OrderingsMirror(RemoveProcess(rq, pid))
<1>0. CASE pid \notin Queued(rq)
  BY <1>0 DEF RemoveProcess
<1>1. CASE pid \in Queued(rq)
  <2> DEFINE new == RemoveProcess(rq, pid)
             p   == rq.processes[pid]
  <2>1. MirrorsByKey(rq)
    BY MirrorPointwise
  <2>2. SUFFICES ASSUME NEW v \in Nat, NEW q \in Nat
                 PROVE  /\ <<v, q>> \in new.real_time_order
                             <=> q \in Queued(new) /\ new.processes[q].class = "RealTime"
                                                   /\ new.processes[q].deadline = v
                        /\ <<v, q>> \in new.normal_order
                             <=> q \in Queued(new) /\ new.processes[q].class = "Normal"
                                                   /\ new.processes[q].vruntime = v
    BY RemoveProcessType, MirrorPointwise DEF MirrorsByKey
  <2>3. /\ Queued(new) = Queued(rq) \ {pid}
        /\ q # pid /\ q \in Queued(rq) => new.processes[q] = rq.processes[q]
    BY <1>1 DEF RemoveProcess, Queued
  <2>4. /\ <<v, q>> \in new.real_time_order
             <=> <<v, q>> \in rq.real_time_order /\ ~ (p.class = "RealTime" /\ v = p.deadline /\ q = pid)
        /\ <<v, q>> \in new.normal_order
             <=> <<v, q>> \in rq.normal_order /\ ~ (p.class = "Normal" /\ v = p.vruntime /\ q = pid)
    BY <1>1 DEF RemoveProcess, EdfKey, CfsKey
  <2> QED BY <1>1, <2>1, <2>3, <2>4 DEF MirrorsByKey
<1> QED BY <1>0, <1>1

(* update_vruntime keeps the queue well formed and the same pids queued. *)
LEMMA UpdateVruntimeType ==
  ASSUME NEW rq, IsRunQueue(rq), NEW pid, NEW time_used \in Nat
  PROVE  /\ IsRunQueue(UpdateVruntime(rq, pid, time_used))
         /\ Queued(UpdateVruntime(rq, pid, time_used)) = Queued(rq)
BY U64Assumption DEF IsRunQueue, UpdateVruntime, Queued, Normal, Key, EdfKey, CfsKey, Process

(* update_vruntime moves the process to the key of its new vruntime. *)
LEMMA UpdateVruntimeMirrors ==
  ASSUME NEW rq, IsRunQueue(rq), OrderingsMirror(rq), NEW pid, NEW time_used \in Nat
  PROVE  OrderingsMirror(UpdateVruntime(rq, pid, time_used))
<1>0. CASE pid \notin Normal(rq)
  BY <1>0 DEF UpdateVruntime
<1>1. CASE pid \in Normal(rq)
  <2> DEFINE new == UpdateVruntime(rq, pid, time_used)
             p   == rq.processes[pid]
             vr  == (p.vruntime + time_used) % U64
  <2>1. MirrorsByKey(rq)
    BY MirrorPointwise
  <2>2. SUFFICES ASSUME NEW v \in Nat, NEW q \in Nat
                 PROVE  /\ <<v, q>> \in new.real_time_order
                             <=> q \in Queued(new) /\ new.processes[q].class = "RealTime"
                                                   /\ new.processes[q].deadline = v
                        /\ <<v, q>> \in new.normal_order
                             <=> q \in Queued(new) /\ new.processes[q].class = "Normal"
                                                   /\ new.processes[q].vruntime = v
    BY UpdateVruntimeType, MirrorPointwise DEF MirrorsByKey
  <2>3. /\ pid \in Queued(rq) /\ p.class = "Normal"
        /\ p \in Process
    BY <1>1 DEF Normal, IsRunQueue, Queued
  <2>4. /\ Queued(new) = Queued(rq)
        /\ q # pid /\ q \in Queued(rq) => new.processes[q] = rq.processes[q]
        /\ new.processes[pid] = [p EXCEPT !.vruntime = vr]
    BY <1>1, <2>3 DEF UpdateVruntime, Queued
  <2>5. new.processes[pid].class = "Normal" /\ new.processes[pid].vruntime = vr
    BY <2>3, <2>4 DEF Process
  <2>6. /\ new.real_time_order = rq.real_time_order
        /\ <<v, q>> \in new.normal_order
             <=> \/ <<v, q>> \in rq.normal_order /\ ~ (v = p.vruntime /\ q = pid)
                 \/ v = vr /\ q = pid
    BY <1>1, <2>3 DEF UpdateVruntime, CfsKey, Process
  <2> HIDE DEF new, vr
  <2>7. CASE q = pid
    BY <2>1, <2>3, <2>4, <2>5, <2>6, <2>7 DEF MirrorsByKey
  <2>8. CASE q # pid
    BY <2>1, <2>3, <2>4, <2>6, <2>8 DEF MirrorsByKey
  <2> QED BY <2>7, <2>8
<1> QED BY <1>0, <1>1

(* pick_next_task returns what the hybrid policy chooses, provided the     *)
(* orderings mirror the processes.                                         *)
LEMMA PickMakesHybridChoice ==
  ASSUME NEW rq, IsRunQueue(rq), OrderingsMirror(rq)
  PROVE  IsHybridChoice(rq, PickNextTask(rq))
<1> DEFINE ps == rq.processes
           RealTime == {q \in Queued(rq) : ps[q].class = "RealTime"}
           pick == PickNextTask(rq)
<1>0. /\ rq.real_time_order \subseteq Key /\ rq.normal_order \subseteq Key
      /\ rq.real_time_order = {EdfKey(pid, ps[pid]) : pid \in RealTime}
      /\ rq.normal_order = {CfsKey(pid, ps[pid]) : pid \in Normal(rq)}
  BY DEF IsRunQueue, OrderingsMirror
<1>1. CASE RealTime # {}
  <2>1. rq.real_time_order # {}
    BY <1>0, <1>1
  <2>2. PICK pid \in RealTime : FirstKey(rq.real_time_order) = EdfKey(pid, ps[pid])
    BY <1>0, <2>1, FirstKeyIsLeast
  <2>3. pick = pid
    BY <2>1, <2>2 DEF PickNextTask, EdfKey
  <2>4. ASSUME NEW q \in RealTime \ {pid}
        PROVE  KeyLess(EdfKey(pid, ps[pid]), EdfKey(q, ps[q]))
    <3>1. EdfKey(q, ps[q]) \in rq.real_time_order
      BY <1>0, <2>4
    <3>2. EdfKey(q, ps[q]) # EdfKey(pid, ps[pid])
      BY <2>4 DEF EdfKey
    <3> QED BY <1>0, <2>1, <2>2, <3>1, <3>2, FirstKeyIsLeast
  <2> QED BY <1>1, <2>3, <2>4 DEF IsHybridChoice
<1>2. CASE RealTime = {} /\ Normal(rq) # {}
  <2>1. rq.real_time_order = {} /\ rq.normal_order # {}
    BY <1>0, <1>2
  <2>2. PICK pid \in Normal(rq) : FirstKey(rq.normal_order) = CfsKey(pid, ps[pid])
    BY <1>0, <2>1, FirstKeyIsLeast
  <2>3. pick = pid
    BY <2>1, <2>2 DEF PickNextTask, CfsKey
  <2>4. ASSUME NEW q \in Normal(rq) \ {pid}
        PROVE  KeyLess(CfsKey(pid, ps[pid]), CfsKey(q, ps[q]))
    <3>1. CfsKey(q, ps[q]) \in rq.normal_order
      BY <1>0, <2>4
    <3>2. CfsKey(q, ps[q]) # CfsKey(pid, ps[pid])
      BY <2>4 DEF CfsKey
    <3> QED BY <1>0, <2>1, <2>2, <3>1, <3>2, FirstKeyIsLeast
  <2> QED BY <1>2, <2>3, <2>4 DEF IsHybridChoice
<1>3. CASE RealTime = {} /\ Normal(rq) = {}
  <2>1. rq.real_time_order = {} /\ rq.normal_order = {}
    BY <1>0, <1>3
  <2> QED BY <1>3, <2>1 DEF IsHybridChoice, PickNextTask
<1> QED BY <1>1, <1>2, <1>3

(* pick_next_task names a queued process or nobody. *)
LEMMA PickIsQueued ==
  ASSUME NEW rq, IsRunQueue(rq), OrderingsMirror(rq)
  PROVE  PickNextTask(rq) \in Queued(rq) \cup {None}
BY PickMakesHybridChoice DEF IsHybridChoice, Normal
=============================================================================
