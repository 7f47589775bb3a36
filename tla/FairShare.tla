------------------------------ MODULE FairShare ------------------------------
(***************************************************************************)
(* How fair Dispatcher's choices are.  The history variable 'picked'       *)
(* remembers, for every queued task, which tasks have been chosen at a     *)
(* tick or a hand-off since it arrived.                                    *)
(*                                                                         *)
(* Tasks arrive until arrivals are closed, at the latest when a vruntime   *)
(* would pass MaxVruntime.  From then on only differences of vruntimes     *)
(* matter, and the least is kept at 0: the state stays finite while the    *)
(* ticks go on for ever, unless the budget is over.                        *)
(***************************************************************************)
EXTENDS Dispatcher

CONSTANT MaxVruntime

ASSUME FairShareAssumption == MaxVruntime \in Nat

VARIABLES picked, closed

fairVars == <<vr, current, over, used, picked, closed>>

(* 'next' is chosen: every task still queued afterwards has seen it.       *)
Record(next) ==
  picked' = [p \in DOMAIN vr' |-> picked[p] \cup (IF next = BOOT_PID THEN {} ELSE {next})]

(* vr is f, once arrivals are closed f with the least value made 0.        *)
BecomesLowered(f) ==
  IF DOMAIN f = {} THEN vr' = f
  ELSE \E least \in DOMAIN f : /\ \A q \in DOMAIN f : f[least] <= f[q]
                               /\ vr' = [q \in DOMAIN f |-> f[q] - f[least]]

Becomes(f) == IF closed' THEN BecomesLowered(f) ELSE vr' = f

FairInit == Init /\ picked = [pid \in {} |-> {}] /\ closed = FALSE

FairArrive(pid) ==
  /\ ~ closed /\ Arrive(pid) /\ UNCHANGED closed
  /\ picked' = [p \in DOMAIN vr' |-> IF p = pid THEN {} ELSE picked[p]]

FairRefuse(pid) == Refuse(pid) /\ UNCHANGED <<picked, closed>>

FairDepart == Depart /\ picked' = [p \in DOMAIN vr' |-> picked[p]] /\ UNCHANGED closed

FairHandoff(next) == Handoff(next) /\ Record(next) /\ UNCHANGED closed

(* Dispatcher's Tick, or with the vruntimes lowered. *)
FairTick(next) ==
  /\ over' \in {over, TRUE} /\ closed' \in {closed, TRUE}
  /\ Chosen(over', next) /\ current' = next
  /\ Becomes(Charged)
  /\ over' \/ closed' \/ \A p \in DOMAIN vr' : vr'[p] <= MaxVruntime
  /\ UNCHANGED used
  /\ Record(next)

Pass == \E next \in Pid \cup {BOOT_PID} : FairHandoff(next) \/ FairTick(next)

FairNext ==
  \/ FairDepart
  \/ \E pid \in Pid : FairArrive(pid) \/ FairRefuse(pid)
  \/ Pass

(* Ticks never stop, though the budget need not end, and a departed task's *)
(* core is passed on.                                                      *)
FairSpec == FairInit /\ [][FairNext]_fairVars /\ WF_fairVars(Pass /\ UNCHANGED over)

----------------------------------------------------------------------------
(* Every variable keeps its type; a vruntime is never negative and only    *)
(* pids that have arrived are queued.                                      *)
TypeOK ==
  /\ Tasks \subseteq Pid
  /\ vr \in [Tasks -> Nat]
  /\ current \in Pid \cup {BOOT_PID}
  /\ over \in BOOLEAN
  /\ Tasks \subseteq used /\ used \subseteq Pid
  /\ picked \in [Tasks -> SUBSET Pid]
  /\ closed \in BOOLEAN

(* No task gets more than two ticks ahead of one that was waiting when it  *)
(* was chosen.  One of the two is the tick it was chosen for; the other is *)
(* the tick that on_timer_tick charges after having already chosen, on the *)
(* old vruntimes, who runs next.                                           *)
LagIsBounded ==
  \A p \in Tasks : \A q \in picked[p] \cap Tasks :
    vr[q] <= vr[p] + (IF q = current THEN 1 ELSE 2)

(* Every queued task gets the core again and again until it departs or the *)
(* budget is over: the charge of on_timer_tick and the choice of           *)
(* pick_next_task never leave a task waiting for ever behind those queued  *)
(* with it and finitely many newcomers.                                    *)
NoStarvation == \A p \in Pid : p \in Tasks ~> (current = p \/ p \notin Tasks \/ over)
=============================================================================
