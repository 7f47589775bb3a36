----------------------------- MODULE MCSpscRing -----------------------------
(* A ring of two slots whose indices wrap after four messages. *)
EXTENDS SpscRing
=============================================================================
