--------------------------- MODULE BuddyAllocator ---------------------------
(***************************************************************************)
(* PhysicalAllocator of reference-rs/src/memory.rs.  A call is one step    *)
(* for each turn of its loop, and no other call starts before it is done   *)
(* (every method takes &mut self).                                         *)
(*                                                                         *)
(* An address is the page number (addr - base) / PAGE_SIZE.  A free list   *)
(* is the set of its entries: their order only decides which of several    *)
(* free blocks is handed out.  BlocksDisjoint shows that no block is       *)
(* pushed on a list it is already on.                                      *)
(***************************************************************************)
EXTENDS Integers

CONSTANTS MAX_ORDER, TotalPages,
          BlockPages   \* The pages of a block of each order: 1 << order.

Order == 0 .. MAX_ORDER
Page == 0 .. TotalPages - 1

ASSUME BuddyAssumption ==
  /\ MAX_ORDER \in Nat /\ TotalPages \in Nat \ {0}
  /\ BlockPages \in [Order -> Nat \ {0}] /\ BlockPages[0] = 1
  /\ \A o \in Order : o < MAX_ORDER => BlockPages[o + 1] = 2 * BlockPages[o]

VARIABLES free_lists, live_blocks,
          call,     \* The call under way: its loop and that loop's variables.
          result    \* What the last call returned, and its order if refused.

vars == <<free_lists, live_blocks, call, result>>

Idle == [at |-> "idle", block |-> 0, order |-> 0, want |-> 0]

Init ==
  /\ free_lists = [o \in Order |-> {}]
  /\ live_blocks = <<>>
  /\ call = [Idle EXCEPT !.at = "seed"]
  /\ result = <<"nothing", 0>>

----------------------------------------------------------------------------
(* Variant: the largest block that divides what remains, as in an earlier  *)
(* version of the code.                                                    *)
SeedOrderDivides(addr) ==
  CHOOSE o \in Order :
    /\ (TotalPages - addr) % BlockPages[o] = 0 /\ addr % BlockPages[o] = 0
    /\ \A p \in Order : (TotalPages - addr) % BlockPages[p] = 0 /\ addr % BlockPages[p] = 0 => p <= o

(* seed_free_lists, with addr in call.block: the order is the largest that *)
(* fits into what remains and to which addr is aligned.                    *)
SeedOrder(addr) ==
  CHOOSE o \in Order :
    /\ addr + BlockPages[o] <= TotalPages /\ addr % BlockPages[o] = 0
    /\ \A p \in Order : addr + BlockPages[p] <= TotalPages /\ addr % BlockPages[p] = 0 => p <= o

Seed ==
  /\ call.at = "seed" /\ call.block < TotalPages
  /\ LET o == SeedOrder(call.block)
     IN  /\ free_lists' = [free_lists EXCEPT ![o] = @ \cup {call.block}]
         /\ call' = [call EXCEPT !.block = @ + BlockPages[o]]
  /\ UNCHANGED <<live_blocks, result>>

SeedEnds ==
  /\ call.at = "seed" /\ call.block >= TotalPages
  /\ call' = Idle
  /\ UNCHANGED <<free_lists, live_blocks, result>>

----------------------------------------------------------------------------
(* allocate, with ensure_free_block.  The pops of the code cannot fail:    *)
(* each list they pop from has just been found or made non-empty.          *)
AllocateRejects ==
  /\ call.at = "idle"
  /\ result' = <<"InvalidOrder", 0>>
  /\ UNCHANGED <<free_lists, live_blocks, call>>

Smallest(S) == CHOOSE o \in S : \A p \in S : o <= p

AllocateStarts(o) ==
  /\ call.at = "idle"
  /\ LET sources == {p \in o .. MAX_ORDER : free_lists[p] # {}}
     IN  \/ /\ sources = {}
            /\ result' = <<"OutOfMemory", o>>
            /\ UNCHANGED call
         \/ /\ sources # {}
            /\ call' = [Idle EXCEPT !.at = "split", !.order = Smallest(sources), !.want = o]
            /\ UNCHANGED result
  /\ UNCHANGED <<free_lists, live_blocks>>

(* Variants: the block stays on its list while its halves are pushed; only *)
(* one half is.                                                            *)
SplitKeepsBlock ==
  /\ call.at = "split" /\ call.order > call.want
  /\ \E block \in free_lists[call.order] :
       free_lists' = [free_lists EXCEPT ![call.order - 1] = @ \cup {block, block + BlockPages[call.order - 1]}]
  /\ call' = [call EXCEPT !.order = @ - 1]
  /\ UNCHANGED <<live_blocks, result>>

SplitLosesHalf ==
  /\ call.at = "split" /\ call.order > call.want
  /\ \E block \in free_lists[call.order] :
       free_lists' = [free_lists EXCEPT ![call.order] = @ \ {block}, ![call.order - 1] = @ \cup {block}]
  /\ call' = [call EXCEPT !.order = @ - 1]
  /\ UNCHANGED <<live_blocks, result>>

SplitBlock ==
  /\ call.at = "split" /\ call.order > call.want
  /\ \E block \in free_lists[call.order] :
       free_lists' = [free_lists EXCEPT ![call.order] = @ \ {block},
                                        ![call.order - 1] = @ \cup {block, block + BlockPages[call.order - 1]}]
  /\ call' = [call EXCEPT !.order = @ - 1]
  /\ UNCHANGED <<live_blocks, result>>

AllocateTakes ==
  /\ call.at = "split" /\ call.order = call.want
  /\ \E addr \in free_lists[call.want] :
       /\ free_lists' = [free_lists EXCEPT ![call.want] = @ \ {addr}]
       /\ live_blocks' = [b \in DOMAIN live_blocks \cup {addr} |-> IF b = addr THEN call.want ELSE live_blocks[b]]
  /\ call' = Idle
  /\ result' = <<"Ok", 0>>

----------------------------------------------------------------------------
(* deallocate.  buddy_of flips the bit of the block's size.  Variant: the  *)
(* neighbour above is taken for the buddy.                                 *)
BuddyAbove(addr, order) == addr + BlockPages[order]

BuddyOf(addr, order) ==
  IF (addr \div BlockPages[order]) % 2 = 0 THEN addr + BlockPages[order] ELSE addr - BlockPages[order]

DeallocateFails(addr) ==
  /\ call.at = "idle" /\ addr \notin DOMAIN live_blocks
  /\ result' = <<"DoubleFree", 0>>
  /\ UNCHANGED <<free_lists, live_blocks, call>>

DeallocateStarts(addr) ==
  /\ call.at = "idle" /\ addr \in DOMAIN live_blocks
  /\ live_blocks' = [b \in DOMAIN live_blocks \ {addr} |-> live_blocks[b]]
  /\ call' = [Idle EXCEPT !.at = "merge", !.block = addr, !.order = live_blocks[addr]]
  /\ result' = <<"freeing", 0>>
  /\ UNCHANGED free_lists

(* Variant: blocks of one page are never merged. *)
BuddyIsFreeSkipsPages == call.order \in 1 .. MAX_ORDER - 1 /\ BuddyOf(call.block, call.order) \in free_lists[call.order]

BuddyIsFree == call.order < MAX_ORDER /\ BuddyOf(call.block, call.order) \in free_lists[call.order]

MergeWithBuddy ==
  /\ call.at = "merge" /\ BuddyIsFree
  /\ LET buddy == BuddyOf(call.block, call.order)
     IN  /\ free_lists' = [free_lists EXCEPT ![call.order] = @ \ {buddy}]
         /\ call' = [call EXCEPT !.block = IF buddy < @ THEN buddy ELSE @, !.order = @ + 1]
  /\ UNCHANGED <<live_blocks, result>>

DeallocateReturns ==
  /\ call.at = "merge" /\ ~ BuddyIsFree
  /\ free_lists' = [free_lists EXCEPT ![call.order] = @ \cup {call.block}]
  /\ call' = Idle
  /\ result' = <<"Ok", 0>>
  /\ UNCHANGED live_blocks

----------------------------------------------------------------------------
Next ==
  \/ Seed \/ SeedEnds
  \/ AllocateRejects \/ (\E o \in Order : AllocateStarts(o)) \/ SplitBlock \/ AllocateTakes
  \/ (\E addr \in Page : DeallocateFails(addr) \/ DeallocateStarts(addr))
  \/ MergeWithBuddy \/ DeallocateReturns

Spec == Init /\ [][Next]_vars

----------------------------------------------------------------------------
Fits(addr, order) == addr \in Page /\ addr + BlockPages[order] <= TotalPages

(* Every variable keeps its type, and every block lies within the arena.   *)
TypeOK ==
  /\ free_lists \in [Order -> SUBSET Page]
  /\ \A o \in Order : \A a \in free_lists[o] : Fits(a, o)
  /\ DOMAIN live_blocks \subseteq Page
  /\ \A a \in DOMAIN live_blocks : live_blocks[a] \in Order /\ Fits(a, live_blocks[a])
  /\ call \in [at : {"seed", "idle", "split", "merge"}, block : 0 .. TotalPages, order : Order, want : Order]
  /\ call.at = "merge" => Fits(call.block, call.order)
  /\ result \in {"nothing", "Ok", "freeing", "OutOfMemory", "InvalidOrder", "DoubleFree"} \X Order

Apart(a, o, b, p) == a + BlockPages[o] <= b \/ b + BlockPages[p] <= a

(* No two blocks share a page, be they free, live or in the middle of      *)
(* being freed: memory is never handed out twice.                          *)
FreeApart ==
  \A o, p \in Order : \A a \in free_lists[o], b \in free_lists[p] : (a # b \/ o # p) => Apart(a, o, b, p)

LiveApart ==
  \A a, b \in DOMAIN live_blocks : a # b => Apart(a, live_blocks[a], b, live_blocks[b])

FreeApartFromLive ==
  \A o \in Order : \A a \in free_lists[o], b \in DOMAIN live_blocks : Apart(a, o, b, live_blocks[b])

InHandApart ==
  call.at = "merge" =>
    /\ \A o \in Order : \A a \in free_lists[o] : Apart(a, o, call.block, call.order)
    /\ \A b \in DOMAIN live_blocks : Apart(b, live_blocks[b], call.block, call.order)

BlocksDisjoint == FreeApart /\ LiveApart /\ FreeApartFromLive /\ InHandApart

Holds(a, o, page) == a <= page /\ page < a + BlockPages[o]

(* No page is ever lost: each is in a free block, in a live block, in the  *)
(* block being freed, or not yet seeded.                                   *)
PagesConserved ==
  \A page \in Page :
    \/ \E o \in Order : \E a \in free_lists[o] : Holds(a, o, page)
    \/ \E a \in DOMAIN live_blocks : Holds(a, live_blocks[a], page)
    \/ call.at = "merge" /\ Holds(call.block, call.order, page)
    \/ call.at = "seed" /\ call.block <= page

(* Between calls no two buddies are both free, so memory that could serve  *)
(* a larger request is never kept in pieces.                               *)
FullyCoalesced ==
  call.at = "idle" =>
    \A o \in Order \ {MAX_ORDER} : \A a \in free_lists[o] : BuddyOf(a, o) \notin free_lists[o]

(* The largest aligned blocks that fit into the arena. *)
LargestBlocks(o) ==
  {a \in Page : /\ a % BlockPages[o] = 0 /\ Fits(a, o)
                /\ o = MAX_ORDER \/ (a - (a % BlockPages[o + 1])) + BlockPages[o + 1] > TotalPages}

(* Whenever nothing is allocated, after seeding as much as after any       *)
(* history of calls, the free lists hold the largest aligned blocks.       *)
RestoresSeed ==
  call.at = "idle" /\ DOMAIN live_blocks = {} => free_lists = [o \in Order |-> LargestBlocks(o)]

A == INSTANCE PageArena

(* Callers see an arena of aligned blocks: OutOfMemory is only returned    *)
(* when every aligned block of that size touches a live one.               *)
ImplementsArena == A!Spec
=============================================================================
