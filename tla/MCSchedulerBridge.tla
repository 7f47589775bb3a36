------------------------- MODULE MCSchedulerBridge -------------------------
(* Two initial tasks (one bound to its own table) in a pool of three slots. *)
EXTENDS SchedulerBridge
=============================================================================
