-------------------------- MODULE MCBuddyAllocator --------------------------
(* Eleven pages: two blocks of the largest order, and one of each smaller. *)
EXTENDS BuddyAllocator

MCBlockPages == [o \in 0 .. 2 |-> 2^o]
=============================================================================
