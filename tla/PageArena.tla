----------------------------- MODULE PageArena -----------------------------
(***************************************************************************)
(* What PhysicalAllocator in reference-rs/src/memory.rs promises: blocks   *)
(* of 2^order pages on a boundary of their own size, never one that        *)
(* touches a live block, and OutOfMemory only when there is none left.     *)
(* Addresses are page numbers from the base of the arena.                  *)
(***************************************************************************)
EXTENDS Naturals

CONSTANTS MAX_ORDER, TotalPages,
          BlockPages   \* The pages of a block of each order.

VARIABLES live_blocks, \* The order of every live block, by its address.
          result       \* What the last call returned, and its order if refused.

vars == <<live_blocks, result>>

Order == 0 .. MAX_ORDER
Page == 0 .. TotalPages - 1

Apart(a, o, b, p) == a + BlockPages[o] <= b \/ b + BlockPages[p] <= a

IsHole(a, o) ==
  /\ a % BlockPages[o] = 0 /\ a + BlockPages[o] <= TotalPages
  /\ \A b \in DOMAIN live_blocks : Apart(a, o, b, live_blocks[b])

Init == live_blocks = <<>> /\ result = <<"nothing", 0>>

Allocate(o) ==
  /\ \E a \in Page : IsHole(a, o) /\ live_blocks' = [b \in DOMAIN live_blocks \cup {a} |-> IF b = a THEN o ELSE live_blocks[b]]
  /\ result' = <<"Ok", 0>>

AllocateFails(o) ==
  /\ ~ \E a \in Page : IsHole(a, o)
  /\ result' = <<"OutOfMemory", o>>
  /\ UNCHANGED live_blocks

AllocateRejects == result' = <<"InvalidOrder", 0>> /\ UNCHANGED live_blocks

(* The call returns in a later step than the one that gives up the block. *)
Deallocate ==
  \E a \in DOMAIN live_blocks :
    /\ live_blocks' = [b \in DOMAIN live_blocks \ {a} |-> live_blocks[b]]
    /\ result' = <<"freeing", 0>>

DeallocateReturns ==
  /\ result = <<"freeing", 0>> /\ result' = <<"Ok", 0>>
  /\ UNCHANGED live_blocks

DeallocateFails ==
  /\ DOMAIN live_blocks # Page
  /\ result' = <<"DoubleFree", 0>>
  /\ UNCHANGED live_blocks

Next ==
  \/ \E o \in Order : Allocate(o) \/ AllocateFails(o)
  \/ AllocateRejects \/ Deallocate \/ DeallocateReturns \/ DeallocateFails

Spec == Init /\ [][Next]_vars
=============================================================================
