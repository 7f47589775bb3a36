------------------------ MODULE BuddyAllocatorProofs ------------------------
(***************************************************************************)
(* PhysicalAllocator for every size of the arena.  IInv: no page is handed *)
(* out twice and none is lost.  BuddyInv: blocks are aligned and the lists *)
(* coalesced.  A hole in coalesced lists lies in one free block, so that   *)
(* OutOfMemory is returned only when there is no hole, and the lists       *)
(* are those of a fresh allocator when everything is freed.                *)
(***************************************************************************)
EXTENDS BuddyAllocator, TLAPS, WellFoundedInduction

(* While the lists are seeded nothing is live and every block on them ends *)
(* below the address the loop has reached.                                 *)
SeedInv ==
  call.at = "seed" =>
    /\ DOMAIN live_blocks = {}
    /\ \A o \in Order : \A a \in free_lists[o] : a + BlockPages[o] <= call.block

IInv == TypeOK /\ BlocksDisjoint /\ PagesConserved /\ SeedInv

(* The sizes of the blocks, the form the provers use. *)
LEMMA Sizes ==
  /\ MAX_ORDER \in Nat /\ TotalPages \in Nat /\ TotalPages > 0 /\ 0 \in Order
  /\ \A o \in Order : o \in Nat /\ BlockPages[o] \in Nat /\ BlockPages[o] > 0
  /\ BlockPages[0] = 1
  /\ \A o \in Order : o < MAX_ORDER => o + 1 \in Order /\ BlockPages[o + 1] = 2 * BlockPages[o]
  /\ \A o \in Order : o > 0 => o - 1 \in Order /\ BlockPages[o] = 2 * BlockPages[o - 1]
<1>1. MAX_ORDER \in Nat /\ TotalPages \in Nat /\ TotalPages > 0 /\ 0 \in Order
  BY BuddyAssumption DEF Order
<1>2. \A o \in Order : o \in Nat /\ BlockPages[o] \in Nat /\ BlockPages[o] > 0
  BY BuddyAssumption DEF Order
<1>3. \A o \in Order : o < MAX_ORDER => o + 1 \in Order /\ BlockPages[o + 1] = 2 * BlockPages[o]
  BY BuddyAssumption DEF Order
<1>4. ASSUME NEW o \in Order, o > 0
      PROVE  o - 1 \in Order /\ BlockPages[o] = 2 * BlockPages[o - 1]
  <2>1. o - 1 \in Order /\ o - 1 < MAX_ORDER /\ (o - 1) + 1 = o
    BY <1>1, <1>4 DEF Order
  <2> QED BY <2>1, <1>3
<1> QED BY <1>1, <1>2, <1>3, <1>4, BuddyAssumption

(* A non-empty set of orders has a smallest and a largest element. *)
LEMMA Extremes ==
  ASSUME NEW S \in SUBSET Order, S # {}
  PROVE  /\ \E o \in S : \A p \in S : o <= p
         /\ \E o \in S : \A p \in S : p <= o
<1>1. S \subseteq Nat /\ MAX_ORDER \in Nat /\ \A o \in S : o <= MAX_ORDER
  BY Sizes DEF Order
<1>2. IsWellFoundedOn(OpToRel(<, Nat), Nat)
  BY NatLessThanWellFounded
<1>3. \E o \in S : \A p \in S : o <= p
  <2>1. PICK o \in S : \A p \in S : ~ (<<p, o>> \in OpToRel(<, Nat))
    BY <1>1, <1>2, WFMin
  <2>2. ASSUME NEW p \in S PROVE o <= p
    <3>1. p \in Nat /\ o \in Nat
      BY <1>1
    <3>2. ~ (p < o)
      BY <2>1, <3>1 DEF OpToRel
    <3> QED BY <3>1, <3>2
  <2> QED BY <2>2
<1>4. \E o \in S : \A p \in S : p <= o
  <2> DEFINE T == {MAX_ORDER - o : o \in S}
  <2>0. \A o \in S : MAX_ORDER - o \in Nat
    BY <1>1
  <2>1. T \subseteq Nat /\ T # {}
    BY <2>0
  <2>2. PICK t \in T : \A u \in T : ~ (<<u, t>> \in OpToRel(<, Nat))
    BY <2>1, <1>2, WFMin
  <2>3. PICK o \in S : t = MAX_ORDER - o
    OBVIOUS
  <2>4. ASSUME NEW p \in S PROVE p <= o
    <3>1. MAX_ORDER - p \in T
      OBVIOUS
    <3>2. ~ (MAX_ORDER - p < t)
      <4> HIDE DEF T
      <4> QED BY <2>1, <2>2, <3>1 DEF OpToRel
    <3> QED BY <1>1, <2>3, <3>2
  <2> QED BY <2>4
<1> QED BY <1>3, <1>4

(* The block begins on a boundary of its own size. *)
Aligned(a, o) == a % BlockPages[o] = 0

(* The order at which an address is seeded is the largest that fits into   *)
(* what remains and to which it is aligned.                                *)
LEMMA SeedOrderIsLargest ==
  ASSUME NEW addr \in Page
  PROVE  /\ SeedOrder(addr) \in Order /\ addr + BlockPages[SeedOrder(addr)] <= TotalPages
         /\ Aligned(addr, SeedOrder(addr))
         /\ \A p \in Order : addr + BlockPages[p] <= TotalPages /\ Aligned(addr, p) => p <= SeedOrder(addr)
<1> DEFINE S == {o \in Order : addr + BlockPages[o] <= TotalPages /\ addr % BlockPages[o] = 0}
<1>1. 0 \in S
  BY Sizes DEF Page
<1>2. PICK o \in S : \A p \in S : p <= o
  BY <1>1, Extremes
<1>3. \E q \in Order :
        /\ addr + BlockPages[q] <= TotalPages /\ addr % BlockPages[q] = 0
        /\ \A p \in Order : addr + BlockPages[p] <= TotalPages /\ addr % BlockPages[p] = 0 => p <= q
  BY <1>2
<1> QED BY <1>3, Zenon DEF SeedOrder, Aligned

(* The empty allocator satisfies the invariant. *)
LEMMA InitInv == Init => IInv
<1> SUFFICES ASSUME Init PROVE IInv
  OBVIOUS
<1>1. DOMAIN live_blocks = {} /\ \A o \in Order : free_lists[o] = {}
  BY DEF Init
<1>2. call.at = "seed" /\ call.block = 0 /\ TypeOK
  BY <1>1, Sizes DEF Init, TypeOK, Idle, Page
<1>3. BlocksDisjoint
  BY <1>1, <1>2 DEF BlocksDisjoint, FreeApart, LiveApart, FreeApartFromLive, InHandApart
<1>4. PagesConserved
  BY <1>2, Sizes DEF PagesConserved, Page
<1> QED BY <1>1, <1>2, <1>3, <1>4 DEF IInv, SeedInv

(* A turn of the seeding loop pushes a block above all the others. *)
LEMMA SeedKeeps == IInv /\ Seed => IInv'
<1> SUFFICES ASSUME IInv, Seed PROVE IInv'
  OBVIOUS
<1> USE DEF IInv
<1> DEFINE o0 == SeedOrder(call.block)
           b0 == call.block
<1>0. b0 \in Page /\ b0 \in Nat /\ call.at = "seed"
  BY Sizes DEF Seed, TypeOK, Page
<1>1. o0 \in Order /\ b0 + BlockPages[o0] <= TotalPages
  BY <1>0, SeedOrderIsLargest
<1>2. /\ live_blocks' = live_blocks /\ result' = result
      /\ call' = [call EXCEPT !.block = b0 + BlockPages[o0]]
      /\ free_lists' = [free_lists EXCEPT ![o0] = free_lists[o0] \cup {b0}]
  BY DEF Seed
<1> HIDE DEF o0
<1>3. /\ call'.at = "seed" /\ call'.block = b0 + BlockPages[o0]
      /\ \A p \in Order : free_lists'[p] = IF p = o0 THEN free_lists[p] \cup {b0} ELSE free_lists[p]
  BY <1>0, <1>1, <1>2 DEF TypeOK
<1>4. TypeOK'
  BY <1>0, <1>1, <1>2, <1>3, Sizes DEF TypeOK, Fits, Page
<1>5. SeedInv'
  <2>1. ASSUME NEW o \in Order, NEW a \in free_lists'[o] PROVE a + BlockPages[o] <= b0 + BlockPages[o0]
    <3>1. a \in Nat /\ (a \in free_lists[o] \/ (a = b0 /\ o = o0))
      BY <1>3, <1>4, Sizes DEF TypeOK, Page
    <3>2. a \in free_lists[o] => a + BlockPages[o] <= b0
      BY <1>0 DEF SeedInv
    <3> QED BY <3>1, <3>2, <1>0, <1>1, Sizes
  <2> QED BY <2>1, <1>0, <1>2, <1>3 DEF SeedInv
<1>6. BlocksDisjoint'
  <2>1. FreeApart'
    <3> SUFFICES ASSUME NEW o \in Order, NEW p \in Order, NEW a \in free_lists'[o], NEW b \in free_lists'[p],
                        a # b \/ o # p
                 PROVE  Apart(a, o, b, p)
      BY DEF FreeApart, Apart
    <3>1. a \in Nat /\ b \in Nat
      BY <1>4, Sizes DEF TypeOK, Page
    <3>2. /\ a \in free_lists[o] \/ (a = b0 /\ o = o0)
          /\ b \in free_lists[p] \/ (b = b0 /\ p = o0)
      BY <1>3
    <3>3. CASE a \in free_lists[o] /\ b \in free_lists[p]
      BY <3>3 DEF BlocksDisjoint, FreeApart
    <3>4. CASE a \in free_lists[o] /\ b = b0
      BY <3>1, <3>4, <1>0, Sizes DEF SeedInv, Apart
    <3>5. CASE a = b0 /\ b \in free_lists[p]
      BY <3>1, <3>5, <1>0, Sizes DEF SeedInv, Apart
    <3> QED BY <3>2, <3>3, <3>4, <3>5
  <2> QED BY <2>1, <1>0, <1>2, <1>3 DEF BlocksDisjoint, LiveApart, FreeApartFromLive, InHandApart, SeedInv
<1>7. PagesConserved'
  <2> SUFFICES ASSUME NEW page \in Page
               PROVE  \/ \E o \in Order : \E a \in free_lists'[o] : Holds(a, o, page)
                      \/ call'.block <= page
    BY <1>3 DEF PagesConserved, Holds
  <2>1. CASE \E o \in Order : \E a \in free_lists[o] : Holds(a, o, page)
    BY <2>1, <1>3
  <2>2. CASE b0 <= page
    <3>1. o0 \in Order /\ b0 \in free_lists'[o0]
      BY <1>1, <1>3
    <3>2. Holds(b0, o0, page) \/ call'.block <= page
      BY <2>2, <1>0, <1>1, <1>3, Sizes DEF Holds, Page
    <3> QED BY <3>1, <3>2
  <2> QED BY <2>1, <2>2, <1>0 DEF PagesConserved, SeedInv
<1> QED BY <1>4, <1>5, <1>6, <1>7

(* Splitting replaces a block by its two halves. *)
LEMMA SplitBlockKeeps == IInv /\ SplitBlock => IInv'
<1> SUFFICES ASSUME IInv, SplitBlock PROVE IInv'
  OBVIOUS
<1> USE DEF IInv
<1> DEFINE o0 == call.order
           h == call.order - 1
<1>0. o0 \in Order /\ o0 > 0 /\ call.want \in Order /\ call.at = "split"
  BY Sizes DEF SplitBlock, TypeOK, Order
<1>1. h \in Order /\ BlockPages[o0] = 2 * BlockPages[h] /\ h # o0
  BY <1>0, Sizes
<1>2. PICK block \in free_lists[o0] :
        free_lists' = [free_lists EXCEPT ![o0] = @ \ {block}, ![h] = @ \cup {block, block + BlockPages[h]}]
  BY DEF SplitBlock
<1>3. /\ live_blocks' = live_blocks /\ result' = result /\ call' = [call EXCEPT !.order = h]
  BY DEF SplitBlock
<1> HIDE DEF o0, h
<1>4. /\ free_lists'[o0] = free_lists[o0] \ {block}
      /\ free_lists'[h] = free_lists[h] \cup {block, block + BlockPages[h]}
      /\ \A p \in Order : p # o0 /\ p # h => free_lists'[p] = free_lists[p]
      /\ free_lists' = [p \in Order |-> free_lists'[p]]
  BY <1>0, <1>1, <1>2 DEF TypeOK
<1>5. Fits(block, o0) /\ block \in Nat
  BY <1>0, <1>2, Sizes DEF TypeOK, Fits, Page
<1>6. call'.at = "split"
  BY <1>0, <1>3 DEF TypeOK
<1>7. TypeOK'
  <2>1. \A p \in Order : free_lists'[p] \subseteq Page /\ \A a \in free_lists'[p] : Fits(a, p)
    BY <1>0, <1>1, <1>4, <1>5, Sizes DEF TypeOK, Fits, Page
  <2>2. free_lists' \in [Order -> SUBSET Page]
    BY <2>1, <1>4
  <2> QED BY <2>1, <2>2, <1>1, <1>3, <1>6 DEF TypeOK, Fits
<1>8. \A p \in Order : \A a \in free_lists'[p] :
        \/ a \in free_lists[p] /\ (a # block \/ p # o0)
        \/ p = h /\ (a = block \/ a = block + BlockPages[h])
  BY <1>0, <1>1, <1>4
<1>9. FreeApart'
  <2> SUFFICES ASSUME NEW o \in Order, NEW p \in Order, NEW a \in free_lists'[o], NEW b \in free_lists'[p],
                      a # b \/ o # p
               PROVE  Apart(a, o, b, p)
    BY DEF FreeApart, Apart
  <2>1. a \in Nat /\ b \in Nat
    BY <1>7, Sizes DEF TypeOK, Page
  <2>2. \A q \in Order : \A c \in free_lists[q] : (c # block \/ q # o0) => Apart(c, q, block, o0)
    BY <1>0, <1>2 DEF BlocksDisjoint, FreeApart
  <2>3. CASE a \in free_lists[o] /\ (a # block \/ o # o0) /\ b \in free_lists[p] /\ (b # block \/ p # o0)
    BY <2>3 DEF BlocksDisjoint, FreeApart
  <2>4. CASE a \in free_lists[o] /\ (a # block \/ o # o0) /\ p = h /\ (b = block \/ b = block + BlockPages[h])
    BY <2>1, <2>2, <2>4, <1>0, <1>1, <1>5, Sizes DEF Apart
  <2>5. CASE b \in free_lists[p] /\ (b # block \/ p # o0) /\ o = h /\ (a = block \/ a = block + BlockPages[h])
    BY <2>1, <2>2, <2>5, <1>0, <1>1, <1>5, Sizes DEF Apart
  <2>6. CASE o = h /\ p = h /\ a \in {block, block + BlockPages[h]} /\ b \in {block, block + BlockPages[h]}
    BY <2>1, <2>6, <1>1, <1>5, Sizes DEF Apart
  <2> QED BY <1>8, <2>3, <2>4, <2>5, <2>6
<1>10. FreeApartFromLive'
  <2> SUFFICES ASSUME NEW o \in Order, NEW a \in free_lists'[o], NEW b \in DOMAIN live_blocks
               PROVE  Apart(a, o, b, live_blocks[b])
    BY <1>3 DEF FreeApartFromLive, Apart
  <2>1. a \in Nat /\ b \in Nat /\ live_blocks[b] \in Order
    BY <1>7, Sizes DEF TypeOK, Page
  <2>2. Apart(block, o0, b, live_blocks[b])
    BY <1>0, <1>2 DEF BlocksDisjoint, FreeApartFromLive
  <2>3. CASE a \in free_lists[o]
    BY <2>3 DEF BlocksDisjoint, FreeApartFromLive
  <2>4. CASE o = h /\ (a = block \/ a = block + BlockPages[h])
    BY <2>1, <2>2, <2>4, <1>0, <1>1, <1>5, Sizes DEF Apart
  <2> QED BY <1>8, <2>3, <2>4
<1>11. BlocksDisjoint'
  BY <1>3, <1>6, <1>9, <1>10 DEF BlocksDisjoint, LiveApart, InHandApart, Apart
<1>12. PagesConserved'
  <2> SUFFICES ASSUME NEW page \in Page
               PROVE  \/ \E o \in Order : \E a \in free_lists'[o] : Holds(a, o, page)
                      \/ \E a \in DOMAIN live_blocks : Holds(a, live_blocks[a], page)
    BY <1>3 DEF PagesConserved, Holds
  <2>1. CASE Holds(block, o0, page)
    <3>1. Holds(block, h, page) \/ Holds(block + BlockPages[h], h, page)
      BY <2>1, <1>1, <1>5, Sizes DEF Holds, Page
    <3> QED BY <3>1, <1>1, <1>4
  <2>2. CASE \E o \in Order : \E a \in free_lists[o] : (a # block \/ o # o0) /\ Holds(a, o, page)
    BY <2>2, <1>0, <1>1, <1>4
  <2> QED BY <2>1, <2>2, <1>0 DEF PagesConserved
<1> QED BY <1>6, <1>7, <1>11, <1>12 DEF SeedInv

(* The block handed out leaves its free list and touches no live block. *)
LEMMA AllocateTakesKeeps == IInv /\ AllocateTakes => IInv'
<1> SUFFICES ASSUME IInv, AllocateTakes PROVE IInv'
  OBVIOUS
<1> USE DEF IInv
<1> DEFINE w == call.want
<1>0. w \in Order /\ call.at = "split" /\ call' = Idle /\ result' = <<"Ok", 0>>
  BY DEF AllocateTakes, TypeOK
<1>1. PICK addr \in free_lists[w] :
        /\ free_lists' = [free_lists EXCEPT ![w] = @ \ {addr}]
        /\ live_blocks' = [b \in DOMAIN live_blocks \cup {addr} |-> IF b = addr THEN w ELSE live_blocks[b]]
  BY DEF AllocateTakes
<1> HIDE DEF w
<1>2. /\ free_lists'[w] = free_lists[w] \ {addr}
      /\ \A p \in Order : p # w => free_lists'[p] = free_lists[p]
      /\ free_lists' \in [Order -> SUBSET Page]
  BY <1>0, <1>1 DEF TypeOK
<1>3. /\ DOMAIN live_blocks' = DOMAIN live_blocks \cup {addr}
      /\ live_blocks'[addr] = w
      /\ \A b \in DOMAIN live_blocks : b # addr => live_blocks'[b] = live_blocks[b]
  BY <1>1
<1>4. Fits(addr, w) /\ addr \in Page /\ addr \in Nat
  BY <1>0, <1>1, Sizes DEF TypeOK, Fits, Page
<1>5. addr \notin DOMAIN live_blocks
  BY <1>0, <1>1, <1>4, Sizes DEF BlocksDisjoint, FreeApartFromLive, Apart, TypeOK
<1>6. call'.at = "idle" /\ \A p \in Order : free_lists'[p] \subseteq free_lists[p]
  BY <1>0, <1>2 DEF Idle
<1>7. TypeOK'
  <2>1. \A o \in Order : \A a \in free_lists'[o] : Fits(a, o)
    BY <1>6 DEF TypeOK
  <2>2. /\ DOMAIN live_blocks' \subseteq Page
        /\ \A a \in DOMAIN live_blocks' : live_blocks'[a] \in Order /\ Fits(a, live_blocks'[a])
    BY <1>0, <1>3, <1>4 DEF TypeOK
  <2>3. call' \in [at : {"seed", "idle", "split", "merge"}, block : 0 .. TotalPages, order : Order, want : Order]
    BY <1>0, Sizes DEF Idle
  <2>4. result' \in {"nothing", "Ok", "freeing", "OutOfMemory", "InvalidOrder", "DoubleFree"} \X Order
    BY <1>0, Sizes
  <2> QED BY <1>2, <1>6, <2>1, <2>2, <2>3, <2>4 DEF TypeOK, Fits
<1>8. FreeApart'
  BY <1>6 DEF BlocksDisjoint, FreeApart, Apart
<1>9. \A b \in DOMAIN live_blocks : Apart(addr, w, b, live_blocks[b]) /\ Apart(b, live_blocks[b], addr, w)
  BY <1>0, <1>1 DEF BlocksDisjoint, FreeApartFromLive, Apart
<1>10. LiveApart'
  <2> SUFFICES ASSUME NEW a \in DOMAIN live_blocks', NEW b \in DOMAIN live_blocks', a # b
               PROVE  Apart(a, live_blocks'[a], b, live_blocks'[b])
    BY DEF LiveApart, Apart
  <2>1. CASE a # addr /\ b # addr
    BY <2>1, <1>3 DEF BlocksDisjoint, LiveApart
  <2>2. CASE a = addr \/ b = addr
    BY <2>2, <1>3, <1>9
  <2> QED BY <2>1, <2>2
<1>11. FreeApartFromLive'
  <2> SUFFICES ASSUME NEW o \in Order, NEW a \in free_lists'[o], NEW b \in DOMAIN live_blocks'
               PROVE  Apart(a, o, b, live_blocks'[b])
    BY DEF FreeApartFromLive, Apart
  <2>1. a \in free_lists[o] /\ (a # addr \/ o # w)
    BY <1>2, <1>6
  <2>2. CASE b # addr
    BY <2>1, <2>2, <1>3 DEF BlocksDisjoint, FreeApartFromLive
  <2>3. CASE b = addr
    BY <2>1, <2>3, <1>0, <1>1, <1>3 DEF BlocksDisjoint, FreeApart
  <2> QED BY <2>2, <2>3
<1>12. PagesConserved'
  <2> SUFFICES ASSUME NEW page \in Page
               PROVE  \/ \E o \in Order : \E a \in free_lists'[o] : Holds(a, o, page)
                      \/ \E a \in DOMAIN live_blocks' : Holds(a, live_blocks'[a], page)
    BY DEF PagesConserved, Holds
  <2>1. CASE Holds(addr, w, page)
    BY <2>1, <1>3
  <2>2. CASE \E o \in Order : \E a \in free_lists[o] : (a # addr \/ o # w) /\ Holds(a, o, page)
    BY <2>2, <1>0, <1>2
  <2>3. CASE \E a \in DOMAIN live_blocks : Holds(a, live_blocks[a], page)
    BY <2>3, <1>3, <1>5
  <2> QED BY <2>1, <2>2, <2>3, <1>0 DEF PagesConserved
<1> QED BY <1>6, <1>7, <1>8, <1>10, <1>11, <1>12 DEF BlocksDisjoint, InHandApart, SeedInv

(* The block being freed is in hand until the loop ends. *)
LEMMA DeallocateStartsKeeps ==
  ASSUME IInv, NEW addr \in Page, DeallocateStarts(addr)
  PROVE  IInv'
<1> USE DEF IInv
<1>0. /\ addr \in DOMAIN live_blocks /\ free_lists' = free_lists
      /\ live_blocks' = [b \in DOMAIN live_blocks \ {addr} |-> live_blocks[b]]
      /\ call' = [Idle EXCEPT !.at = "merge", !.block = addr, !.order = live_blocks[addr]]
      /\ result' = <<"freeing", 0>> /\ call.at = "idle"
  BY DEF DeallocateStarts
<1>1. /\ DOMAIN live_blocks' = DOMAIN live_blocks \ {addr}
      /\ \A b \in DOMAIN live_blocks' : live_blocks'[b] = live_blocks[b]
      /\ live_blocks[addr] \in Order /\ Fits(addr, live_blocks[addr])
  BY <1>0 DEF TypeOK
<1>2. /\ call'.at = "merge" /\ call'.block = addr /\ call'.order = live_blocks[addr]
      /\ call' \in [at : {"seed", "idle", "split", "merge"}, block : 0 .. TotalPages, order : Order, want : Order]
  <2>1. addr \in 0 .. TotalPages
    BY Sizes DEF Page
  <2>2. call' = [at |-> "merge", block |-> addr, order |-> live_blocks[addr], want |-> 0]
    BY <1>0 DEF Idle
  <2> QED BY <2>1, <2>2, <1>1, Sizes
<1>3. TypeOK'
  <2>1. result' \in {"nothing", "Ok", "freeing", "OutOfMemory", "InvalidOrder", "DoubleFree"} \X Order
    BY <1>0, Sizes
  <2> QED BY <1>0, <1>1, <1>2, <2>1 DEF TypeOK, Fits
<1>4. LiveApart' /\ FreeApartFromLive' /\ FreeApart'
  BY <1>0, <1>1 DEF BlocksDisjoint, LiveApart, FreeApartFromLive, FreeApart, Apart
<1>5. InHandApart'
  BY <1>0, <1>1, <1>2 DEF BlocksDisjoint, LiveApart, FreeApartFromLive, InHandApart, Apart
<1>6. PagesConserved'
  <2> SUFFICES ASSUME NEW page \in Page
               PROVE  \/ \E o \in Order : \E a \in free_lists[o] : Holds(a, o, page)
                      \/ \E a \in DOMAIN live_blocks' : Holds(a, live_blocks'[a], page)
                      \/ Holds(addr, live_blocks[addr], page)
    BY <1>0, <1>2 DEF PagesConserved, Holds
  <2> QED BY <1>0, <1>1 DEF PagesConserved
<1> QED BY <1>2, <1>3, <1>4, <1>5, <1>6 DEF BlocksDisjoint, SeedInv

(* A block and its free buddy are neighbours, so their union is a block. *)
LEMMA MergeWithBuddyKeeps == IInv /\ MergeWithBuddy => IInv'
<1> SUFFICES ASSUME IInv, MergeWithBuddy PROVE IInv'
  OBVIOUS
<1> USE DEF IInv
<1> DEFINE o0 == call.order
           b0 == call.block
           buddy == BuddyOf(b0, o0)
           low == IF buddy < b0 THEN buddy ELSE b0
           up == o0 + 1
<1>0. /\ o0 \in Order /\ o0 < MAX_ORDER /\ call.at = "merge" /\ Fits(b0, o0) /\ buddy \in free_lists[o0]
      /\ b0 \in Nat /\ buddy \in Nat /\ Fits(buddy, o0)
  BY Sizes DEF MergeWithBuddy, BuddyIsFree, TypeOK, Fits, Page
<1>1. buddy = b0 + BlockPages[o0] \/ buddy = b0 - BlockPages[o0]
  BY DEF BuddyOf
<1>2. /\ live_blocks' = live_blocks /\ result' = result
      /\ free_lists' = [free_lists EXCEPT ![o0] = @ \ {buddy}]
      /\ call' = [call EXCEPT !.block = low, !.order = up]
  BY DEF MergeWithBuddy
<1> HIDE DEF o0, b0, buddy
<1>3. up \in Order /\ BlockPages[up] = 2 * BlockPages[o0]
  BY <1>0, Sizes
<1>4. low \in Nat /\ Fits(low, up)
  BY <1>0, <1>1, <1>3, Sizes DEF Fits, Page
<1>5. /\ call'.at = "merge" /\ call'.block = low /\ call'.order = up
      /\ call' \in [at : {"seed", "idle", "split", "merge"}, block : 0 .. TotalPages, order : Order, want : Order]
  <2>1. low \in 0 .. TotalPages
    BY <1>4, Sizes DEF Fits, Page
  <2> HIDE DEF low, up
  <2>2. call \in [at : {"seed", "idle", "split", "merge"}, block : 0 .. TotalPages, order : Order, want : Order]
    BY DEF TypeOK
  <2> QED BY <2>1, <2>2, <1>0, <1>2, <1>3
<1>6. /\ free_lists'[o0] = free_lists[o0] \ {buddy}
      /\ \A p \in Order : p # o0 => free_lists'[p] = free_lists[p]
      /\ free_lists' \in [Order -> SUBSET Page]
  BY <1>0, <1>2 DEF TypeOK
<1>7. \A p \in Order : \A a \in free_lists'[p] : a \in free_lists[p] /\ (a # buddy \/ p # o0)
  BY <1>6
<1>8. TypeOK'
  BY <1>2, <1>4, <1>5, <1>6, <1>7 DEF TypeOK, Fits
<1>9. FreeApart' /\ LiveApart' /\ FreeApartFromLive'
  BY <1>2, <1>7 DEF BlocksDisjoint, FreeApart, LiveApart, FreeApartFromLive, Apart
<1>10. InHandApart'
  <2>1. ASSUME NEW a \in Nat, NEW o \in Order, Apart(a, o, buddy, o0), Apart(a, o, b0, o0)
        PROVE  Apart(a, o, low, up)
    BY <2>1, <1>0, <1>1, <1>3, Sizes DEF Apart
  <2>2. ASSUME NEW o \in Order, NEW a \in free_lists'[o]
        PROVE  Apart(a, o, low, up)
    <3>1. a \in free_lists[o] /\ (a # buddy \/ o # o0) /\ a \in Nat
      BY <1>7, Sizes DEF TypeOK, Page
    <3>2. Apart(a, o, buddy, o0)
      BY <3>1, <1>0 DEF BlocksDisjoint, FreeApart
    <3>3. Apart(a, o, b0, o0)
      BY <3>1, <1>0 DEF BlocksDisjoint, InHandApart, b0, o0
    <3> QED BY <2>1, <3>1, <3>2, <3>3
  <2>3. ASSUME NEW b \in DOMAIN live_blocks
        PROVE  Apart(b, live_blocks[b], low, up)
    <3>1. b \in Nat /\ live_blocks[b] \in Order
      BY Sizes DEF TypeOK, Page
    <3>2. Apart(buddy, o0, b, live_blocks[b])
      BY <1>0 DEF BlocksDisjoint, FreeApartFromLive
    <3>3. Apart(b, live_blocks[b], b0, o0)
      BY <1>0 DEF BlocksDisjoint, InHandApart, b0, o0
    <3>4. Apart(b, live_blocks[b], buddy, o0)
      BY <3>2 DEF Apart
    <3> QED BY <2>1, <3>1, <3>3, <3>4
  <2> HIDE DEF low, up
  <2> QED BY <2>2, <2>3, <1>2, <1>5 DEF InHandApart, Apart
<1>11. PagesConserved'
  <2> SUFFICES ASSUME NEW page \in Page
               PROVE  \/ \E o \in Order : \E a \in free_lists'[o] : Holds(a, o, page)
                      \/ \E a \in DOMAIN live_blocks : Holds(a, live_blocks[a], page)
                      \/ Holds(low, up, page)
    BY <1>2, <1>5 DEF PagesConserved, Holds
  <2>1. CASE Holds(buddy, o0, page) \/ Holds(b0, o0, page)
    BY <2>1, <1>0, <1>1, <1>3, Sizes DEF Holds, Page
  <2>2. CASE \E o \in Order : \E a \in free_lists[o] : (a # buddy \/ o # o0) /\ Holds(a, o, page)
    BY <2>2, <1>0, <1>6
  <2> QED BY <2>1, <2>2, <1>0 DEF PagesConserved, b0, o0
<1> QED BY <1>5, <1>8, <1>9, <1>10, <1>11 DEF BlocksDisjoint, SeedInv

(* The block in hand goes on a free list it is not on. *)
LEMMA DeallocateReturnsKeeps == IInv /\ DeallocateReturns => IInv'
<1> SUFFICES ASSUME IInv, DeallocateReturns PROVE IInv'
  OBVIOUS
<1> USE DEF IInv
<1> DEFINE o0 == call.order
           b0 == call.block
<1>0. o0 \in Order /\ b0 \in Page /\ b0 \in Nat /\ Fits(b0, o0) /\ call.at = "merge"
  BY Sizes DEF DeallocateReturns, TypeOK, Fits, Page
<1>1. /\ live_blocks' = live_blocks /\ result' = <<"Ok", 0>> /\ call' = Idle
      /\ free_lists' = [free_lists EXCEPT ![o0] = @ \cup {b0}]
  BY DEF DeallocateReturns
<1>2. /\ \A o \in Order : \A a \in free_lists[o] : Apart(a, o, b0, o0)
      /\ \A b \in DOMAIN live_blocks : Apart(b, live_blocks[b], b0, o0)
  BY <1>0 DEF BlocksDisjoint, InHandApart
<1>3. PagesConserved'
  <2> SUFFICES ASSUME NEW page \in Page
               PROVE  \/ \E o \in Order : \E a \in free_lists'[o] : Holds(a, o, page)
                      \/ \E a \in DOMAIN live_blocks : Holds(a, live_blocks[a], page)
    BY <1>1 DEF PagesConserved, Holds
  <2>1. \A p \in Order : free_lists'[p] = IF p = o0 THEN free_lists[p] \cup {b0} ELSE free_lists[p]
    BY <1>0, <1>1 DEF TypeOK
  <2>2. CASE Holds(b0, o0, page)
    BY <2>1, <2>2, <1>0
  <2>3. CASE \E o \in Order : \E a \in free_lists[o] : Holds(a, o, page)
    BY <2>1, <2>3
  <2> QED BY <2>2, <2>3, <1>0 DEF PagesConserved
<1> HIDE DEF o0, b0
<1>4. /\ \A p \in Order : \A a \in free_lists'[p] : a \in free_lists[p] \/ (a = b0 /\ p = o0)
      /\ free_lists' \in [Order -> SUBSET Page]
  BY <1>0, <1>1 DEF TypeOK
<1>5. call'.at = "idle"
  BY <1>1 DEF Idle
<1>6. TypeOK'
  <2>1. call' \in [at : {"seed", "idle", "split", "merge"}, block : 0 .. TotalPages, order : Order, want : Order]
    BY <1>1, Sizes DEF Idle
  <2>2. result' \in {"nothing", "Ok", "freeing", "OutOfMemory", "InvalidOrder", "DoubleFree"} \X Order
    BY <1>1, Sizes
  <2> QED BY <1>0, <1>1, <1>4, <1>5, <2>1, <2>2 DEF TypeOK, Fits
<1>7. FreeApart'
  BY <1>2, <1>4 DEF BlocksDisjoint, FreeApart, Apart
<1>8. FreeApartFromLive' /\ LiveApart'
  BY <1>1, <1>2, <1>4 DEF BlocksDisjoint, FreeApartFromLive, LiveApart, Apart
<1> QED BY <1>3, <1>5, <1>6, <1>7, <1>8 DEF BlocksDisjoint, InHandApart, SeedInv

(* The rest of a call moves no block. *)
LEMMA NothingMovesKeeps ==
  ASSUME IInv, UNCHANGED <<free_lists, live_blocks>>,
         call.at \in {"idle", "split"} \/ (call.at = "seed" /\ call.block >= TotalPages),
         call'.at \in {"idle", "split"}, TypeOK'
  PROVE  IInv'
<1>1. BlocksDisjoint'
  BY DEF IInv, BlocksDisjoint, FreeApart, LiveApart, FreeApartFromLive, InHandApart, Apart
<1>2. PagesConserved'
  <2> SUFFICES ASSUME NEW page \in Page
               PROVE  \/ \E o \in Order : \E a \in free_lists[o] : Holds(a, o, page)
                      \/ \E a \in DOMAIN live_blocks : Holds(a, live_blocks[a], page)
    BY DEF PagesConserved, Holds
  <2>1. ~ (call.at = "seed" /\ call.block <= page)
    BY Sizes DEF IInv, TypeOK, Page
  <2> QED BY <2>1 DEF IInv, PagesConserved
<1> QED BY <1>1, <1>2 DEF IInv, SeedInv

(* Every step of every call keeps the invariant. *)
LEMMA NextKeeps == IInv /\ [Next]_vars => IInv'
<1> SUFFICES ASSUME IInv, [Next]_vars PROVE IInv'
  OBVIOUS
<1> DEFINE Calls == [at : {"seed", "idle", "split", "merge"}, block : 0 .. TotalPages, order : Order, want : Order]
           Results == {"nothing", "Ok", "freeing", "OutOfMemory", "InvalidOrder", "DoubleFree"} \X Order
<1>0. ASSUME UNCHANGED <<free_lists, live_blocks>>, call' \in Calls, call'.at # "merge", result' \in Results
      PROVE  TypeOK'
  BY <1>0 DEF IInv, TypeOK, Fits
<1>1. CASE Seed
  BY <1>1, SeedKeeps
<1>2. CASE SeedEnds
  <2>1. call' \in Calls /\ call'.at = "idle"
    BY <1>2, Sizes DEF SeedEnds, Idle
  <2> QED BY <1>0, <1>2, <2>1, NothingMovesKeeps DEF SeedEnds, IInv, TypeOK
<1>3. CASE AllocateRejects
  <2>1. result' \in Results
    BY <1>3, Sizes DEF AllocateRejects
  <2> QED BY <1>0, <1>3, <2>1, NothingMovesKeeps DEF AllocateRejects, IInv, TypeOK
<1>4. ASSUME NEW o \in Order, AllocateStarts(o)
      PROVE  IInv'
  <2> DEFINE sources == {p \in o .. MAX_ORDER : free_lists[p] # {}}
  <2>1. CASE sources = {}
    <3>1. result' \in Results
      BY <1>4, <2>1 DEF AllocateStarts
    <3> QED BY <1>0, <1>4, <2>1, <3>1, NothingMovesKeeps DEF AllocateStarts, IInv, TypeOK
  <2>2. CASE sources # {}
    <3>1. sources \in SUBSET Order
      BY Sizes DEF Order
    <3>2. \E q \in sources : \A p \in sources : q <= p
      BY <2>2, <3>1, Extremes
    <3>3. Smallest(sources) \in Order
      <4> HIDE DEF sources
      <4> QED BY <3>1, <3>2 DEF Smallest
    <3>4. call' = [at |-> "split", block |-> 0, order |-> Smallest(sources), want |-> o] /\ result' = result
      BY <1>4, <2>2 DEF AllocateStarts, Idle
    <3>5. call' \in Calls /\ call'.at = "split"
      <4> HIDE DEF sources
      <4> QED BY <3>3, <3>4, Sizes
    <3> QED BY <1>0, <1>4, <3>4, <3>5, NothingMovesKeeps DEF AllocateStarts, IInv, TypeOK
  <2> QED BY <2>1, <2>2
<1>5. CASE SplitBlock
  BY <1>5, SplitBlockKeeps
<1>6. CASE AllocateTakes
  BY <1>6, AllocateTakesKeeps
<1>7. ASSUME NEW addr \in Page, DeallocateFails(addr)
      PROVE  IInv'
  <2>1. result' \in Results
    BY <1>7, Sizes DEF DeallocateFails
  <2> QED BY <1>0, <1>7, <2>1, NothingMovesKeeps DEF DeallocateFails, IInv, TypeOK
<1>8. ASSUME NEW addr \in Page, DeallocateStarts(addr)
      PROVE  IInv'
  BY <1>8, DeallocateStartsKeeps
<1>9. CASE MergeWithBuddy
  BY <1>9, MergeWithBuddyKeeps
<1>10. CASE DeallocateReturns
  BY <1>10, DeallocateReturnsKeeps
<1>11. CASE UNCHANGED vars
  BY <1>11 DEF vars, IInv, TypeOK, Fits, SeedInv, PagesConserved, Holds, BlocksDisjoint, FreeApart, LiveApart,
               FreeApartFromLive, InHandApart, Apart
<1> QED BY <1>1, <1>2, <1>3, <1>4, <1>5, <1>6, <1>7, <1>8, <1>9, <1>10, <1>11 DEF Next

(* The invariant holds throughout. *)
LEMMA Invariance == Spec => []IInv
BY InitInv, NextKeeps, PTL DEF Spec

(* PhysicalAllocator keeps its types, and every block it knows lies within *)
(* the arena.                                                              *)
THEOREM BuddyTypeCorrect == Spec => []TypeOK
BY Invariance, PTL DEF IInv

(* allocate never returns a page that is live, and splitting and merging   *)
(* never make two blocks overlap, for every arena and history of calls.    *)
THEOREM BuddyBlocksDisjoint == Spec => []BlocksDisjoint
BY Invariance, PTL DEF IInv

(* No call of allocate or deallocate ever loses a page. *)
THEOREM BuddyPagesConserved == Spec => []PagesConserved
BY Invariance, PTL DEF IInv

----------------------------------------------------------------------------
(* Alignment. *)

(* A remainder of 0 means a multiple. *)
LEMMA Multiples ==
  ASSUME NEW a \in Nat, NEW s \in Nat, s > 0
  PROVE  a % s = 0 <=> \E k \in Nat : a = k * s
<1>1. ASSUME a % s = 0 PROVE \E k \in Nat : a = k * s
  <2>1. a \div s \in Nat /\ a = (a \div s) * s
    BY <1>1
  <2> QED BY <2>1
<1>2. ASSUME NEW k \in Nat, a = k * s PROVE a % s = 0
  BY <1>2
<1> QED BY <1>1, <1>2

(* An aligned address is a multiple of the size of the block. *)
LEMMA AlignedIsMultiple ==
  ASSUME NEW a \in Nat, NEW o \in Order
  PROVE  Aligned(a, o) <=> \E k \in Nat : a = k * BlockPages[o]
BY Multiples, Sizes DEF Aligned

(* Products keep the order of their factors. *)
LEMMA ProductIsMonotone ==
  ASSUME NEW x \in Nat, NEW y \in Nat, NEW s \in Nat
  PROVE  /\ x <= y => x * s <= y * s
         /\ x < y => x * s + s <= y * s
         /\ x * s \in Nat
<1>1. x <= y => x * s <= y * s
  OBVIOUS
<1>2. x < y => x * s + s <= y * s
  OBVIOUS
<1> QED BY <1>1, <1>2

(* A block is made of whole smaller blocks: there is no smallest order at  *)
(* which this fails.                                                       *)
LEMMA SizesDivide ==
  ASSUME NEW o \in Order, NEW p \in Order, o <= p
  PROVE  \E m \in Nat : m > 0 /\ BlockPages[p] = m * BlockPages[o]
<1> DEFINE Divides(q) == \E m \in Nat : m > 0 /\ BlockPages[q] = m * BlockPages[o]
           Bad == {q \in Order : o <= q /\ ~ Divides(q)}
<1>1. Divides(o)
  <2>1. 1 \in Nat /\ 1 > 0 /\ BlockPages[o] = 1 * BlockPages[o]
    BY Sizes
  <2> QED BY <2>1
<1>2. Bad = {}
  <2> SUFFICES ASSUME Bad # {} PROVE FALSE
    OBVIOUS
  <2>1. PICK q \in Bad : \A r \in Bad : q <= r
    <3>1. Bad \in SUBSET Order
      OBVIOUS
    <3> QED BY <3>1, Extremes
  <2>2. q \in Nat /\ o \in Nat /\ q > o
    BY <1>1, <2>1, Sizes
  <2>3. q - 1 \in Order /\ BlockPages[q] = 2 * BlockPages[q - 1] /\ o <= q - 1 /\ ~ (q <= q - 1)
    BY <2>2, Sizes
  <2>4. Divides(q - 1)
    BY <2>1, <2>3
  <2>5. PICK m \in Nat : m > 0 /\ BlockPages[q - 1] = m * BlockPages[o]
    BY <2>4
  <2>6. 2 * m \in Nat /\ 2 * m > 0 /\ BlockPages[q] = (2 * m) * BlockPages[o]
    BY <2>3, <2>5, Sizes
  <2> QED BY <2>1, <2>6
<1> QED BY <1>2

(* What is aligned to a block is aligned to every smaller one. *)
LEMMA AlignedBelow ==
  ASSUME NEW a \in Nat, NEW o \in Order, NEW p \in Order, o <= p, Aligned(a, p)
  PROVE  Aligned(a, o)
<1>1. PICK k \in Nat : a = k * BlockPages[p]
  BY AlignedIsMultiple
<1>2. PICK m \in Nat : BlockPages[p] = m * BlockPages[o]
  BY SizesDivide
<1>3. k * m \in Nat /\ a = (k * m) * BlockPages[o]
  BY <1>1, <1>2, Sizes
<1> QED BY <1>3, AlignedIsMultiple

(* The end of a larger block is aligned as its beginning is. *)
LEMMA AlignedAbove ==
  ASSUME NEW a \in Nat, NEW o \in Order, NEW p \in Order, o <= p, Aligned(a, o)
  PROVE  Aligned(a + BlockPages[p], o)
<1>1. PICK k \in Nat : a = k * BlockPages[o]
  BY AlignedIsMultiple
<1>2. PICK m \in Nat : BlockPages[p] = m * BlockPages[o]
  BY SizesDivide
<1>3. k + m \in Nat /\ a + BlockPages[p] = (k + m) * BlockPages[o]
  BY <1>1, <1>2, Sizes
<1> QED BY <1>3, AlignedIsMultiple, Sizes

(* Two aligned blocks are apart, or the larger one holds the smaller. *)
LEMMA ApartOrInside ==
  ASSUME NEW a \in Nat, NEW o \in Order, NEW b \in Nat, NEW p \in Order, o <= p,
         Aligned(a, o), Aligned(b, p), ~ Apart(a, o, b, p)
  PROVE  b <= a /\ a + BlockPages[o] <= b + BlockPages[p]
<1> DEFINE s == BlockPages[o]
<1>1. s \in Nat /\ s > 0 /\ BlockPages[p] \in Nat
  BY Sizes
<1>2. PICK j \in Nat : a = j * s
  BY AlignedIsMultiple
<1>3. PICK k \in Nat : b = k * BlockPages[p]
  BY AlignedIsMultiple
<1>4. PICK m \in Nat : BlockPages[p] = m * s
  BY SizesDivide
<1>5. k * m \in Nat /\ b = (k * m) * s /\ k * m + m \in Nat /\ b + BlockPages[p] = (k * m + m) * s
  BY <1>1, <1>3, <1>4
<1>6. b < a + s /\ a < b + BlockPages[p]
  BY <1>1 DEF Apart
<1> HIDE DEF s
<1>7. k * m <= j
  <2> SUFFICES ASSUME j < k * m PROVE FALSE
    BY <1>5
  <2>1. j * s + s <= (k * m) * s
    BY <1>1, <1>5, ProductIsMonotone
  <2> QED BY <2>1, <1>1, <1>2, <1>5, <1>6
<1>8. j < k * m + m
  <2> SUFFICES ASSUME k * m + m <= j PROVE FALSE
    BY <1>5
  <2>1. (k * m + m) * s <= j * s
    BY <1>1, <1>5, ProductIsMonotone
  <2> QED BY <2>1, <1>1, <1>2, <1>5, <1>6
<1>9. (k * m) * s <= j * s /\ j * s + s <= (k * m + m) * s
  BY <1>1, <1>5, <1>7, <1>8, ProductIsMonotone
<1> QED BY <1>2, <1>5, <1>9 DEF s

(* The block of the next order around a block: it begins with the block or *)
(* with its buddy, and holds nothing else.                                 *)
Around(a, o) == a - (a % BlockPages[o + 1])

LEMMA AroundIsPair ==
  ASSUME NEW a \in Nat, NEW o \in Order, o < MAX_ORDER, Aligned(a, o)
  PROVE  LET c == Around(a, o)
             s == BlockPages[o]
         IN  /\ o + 1 \in Order /\ c \in Nat /\ Aligned(c, o + 1) /\ Aligned(c, o) /\ Aligned(c + s, o)
             /\ \/ a = c /\ BuddyOf(a, o) = c + s
                \/ a = c + s /\ BuddyOf(a, o) = c
             /\ BuddyOf(c, o) = c + s /\ BuddyOf(c + s, o) = c
<1> DEFINE c == Around(a, o)
           s == BlockPages[o]
           h == a \div (2 * s)
           r == a % (2 * s)
<1>1. o + 1 \in Order /\ BlockPages[o + 1] = 2 * s /\ s \in Nat /\ s > 0
  BY Sizes
<1>2. PICK k \in Nat : a = k * s
  BY AlignedIsMultiple
<1>3. \/ k % 2 = 0 /\ k = 2 * (k \div 2)
      \/ k % 2 = 1 /\ k = 2 * (k \div 2) + 1
  OBVIOUS
<1>4. PICK i \in Nat : k = 2 * i \/ k = 2 * i + 1
  <2>1. k \div 2 \in Nat
    OBVIOUS
  <2> QED BY <1>3, <2>1
<1> HIDE DEF s
<1>5. i * (2 * s) \in Nat /\ i * (2 * s) = (2 * i) * s /\ (2 * i + 1) * s = i * (2 * s) + s
  BY <1>1
<1>6. c = i * (2 * s) /\ (a = c \/ a = c + s) /\ (a = c <=> k = 2 * i)
  <2>1. CASE k = 2 * i
    <3>1. a = i * (2 * s)
      BY <2>1, <1>2, <1>5
    <3>2. a % (2 * s) = 0
      BY <3>1, <1>1
    <3> QED BY <1>1, <2>1, <3>1, <3>2 DEF Around
  <2>2. CASE k = 2 * i + 1
    <3>1. a = i * (2 * s) + s
      BY <2>2, <1>2, <1>5
    <3>2. a % (2 * s) = s
      BY <3>1, <1>1
    <3> QED BY <1>1, <1>5, <2>2, <3>1, <3>2 DEF Around
  <2> QED BY <1>4, <2>1, <2>2
<1>7. c = (2 * i) * s /\ c + s = (2 * i + 1) * s
  BY <1>5, <1>6
<1>8. /\ Aligned(c, o + 1) /\ c \in Nat
      /\ Aligned(c, o) /\ Aligned(c + s, o)
  <2>1. c \in Nat /\ c + s \in Nat /\ 2 * i \in Nat /\ 2 * i + 1 \in Nat
    BY <1>1, <1>5, <1>6
  <2> HIDE DEF c
  <2> QED BY <1>1, <1>6, <1>7, <2>1, AlignedIsMultiple DEF s
<1>9. c \div s = 2 * i /\ (c + s) \div s = 2 * i + 1
  <2>1. ((2 * i) * s) \div s = 2 * i
    BY <1>1
  <2>2. ((2 * i + 1) * s) \div s = 2 * i + 1
    BY <1>1
  <2> QED BY <1>7, <2>1, <2>2
<1>10. (2 * i) % 2 = 0 /\ (2 * i + 1) % 2 = 1
  OBVIOUS
<1>11. BuddyOf(c, o) = c + s /\ BuddyOf(c + s, o) = c
  <2> HIDE DEF c
  <2>1. BuddyOf(c, o) = c + s
    BY <1>9, <1>10 DEF BuddyOf, s
  <2>2. BuddyOf(c + s, o) = (c + s) - s
    BY <1>9, <1>10 DEF BuddyOf, s
  <2> QED BY <2>1, <2>2, <1>1, <1>8
<1> QED BY <1>1, <1>6, <1>8, <1>11 DEF s

(* Every block is the buddy of its buddy. *)
LEMMA BuddyIsMutual ==
  ASSUME NEW a \in Nat, NEW o \in Order, o < MAX_ORDER, Aligned(a, o)
  PROVE  BuddyOf(BuddyOf(a, o), o) = a /\ BuddyOf(a, o) # a
BY AroundIsPair, Sizes

----------------------------------------------------------------------------
(* Alignment and coalescing are kept. *)

(* Every block is aligned; the address that is seeded next is aligned to   *)
(* the block after the largest that still fits.                            *)
AlignInv ==
  /\ \A o \in Order : \A a \in free_lists[o] : Aligned(a, o)
  /\ \A a \in DOMAIN live_blocks : Aligned(a, live_blocks[a])
  /\ call.at = "merge" => Aligned(call.block, call.order)
  /\ call.at = "seed" =>
       \A o \in Order : call.block + BlockPages[o] <= TotalPages =>
         Aligned(call.block, IF o < MAX_ORDER THEN o + 1 ELSE o)

(* No two free buddies, except for the halves of the block just split. *)
Coalesced(o) == \A a \in free_lists[o] : BuddyOf(a, o) \notin free_lists[o]

CoalesceInv ==
  \A o \in Order : o < MAX_ORDER =>
    \/ Coalesced(o)
    \/ call.at = "split" /\ o = call.order /\ \E a \in free_lists[o] : free_lists[o] = {a, BuddyOf(a, o)}

(* Between the order that is wanted and the one split next nothing is free. *)
SplitInv ==
  call.at = "split" =>
    /\ call.want <= call.order
    /\ \A p \in Order : call.want <= p /\ p < call.order => free_lists[p] = {}

CallInv == call.at = "merge" => result = <<"freeing", 0>>

BuddyInv == IInv /\ AlignInv /\ CoalesceInv /\ SplitInv /\ CallInv

(* Nothing is free, live or in hand at first, and 0 is aligned. *)
LEMMA InitBuddyInv == Init => BuddyInv
<1> SUFFICES ASSUME Init PROVE BuddyInv
  OBVIOUS
<1>1. DOMAIN live_blocks = {} /\ (\A o \in Order : free_lists[o] = {}) /\ call.at = "seed" /\ call.block = 0
  BY DEF Init, Idle
<1>2. \A o \in Order : Aligned(0, o)
  <2> SUFFICES ASSUME NEW o \in Order PROVE 0 % BlockPages[o] = 0
    BY DEF Aligned
  <2> QED BY Sizes
<1>3. AlignInv
  BY <1>1, <1>2, Sizes DEF AlignInv
<1>4. CoalesceInv /\ SplitInv /\ CallInv
  BY <1>1 DEF CoalesceInv, Coalesced, SplitInv, CallInv
<1> QED BY <1>3, <1>4, InitInv DEF BuddyInv

(* Adding a block whose buddy is not free makes no pair. *)
LEMMA PushKeepsCoalesced ==
  ASSUME TypeOK, NEW o \in Order, o < MAX_ORDER, NEW b \in Nat, Aligned(b, o), Coalesced(o),
         \A a \in free_lists[o] : Aligned(a, o),
         BuddyOf(b, o) \notin free_lists[o],
         free_lists'[o] \subseteq free_lists[o] \cup {b}
  PROVE  Coalesced(o)'
<1> SUFFICES ASSUME NEW a \in free_lists'[o], BuddyOf(a, o) \in free_lists'[o] PROVE FALSE
  BY DEF Coalesced, BuddyOf
<1>1. \A x \in free_lists[o] : x \in Nat
  BY Sizes DEF TypeOK, Page
<1>2. BuddyOf(b, o) # b
  BY BuddyIsMutual
<1>3. CASE a = b
  BY <1>2, <1>3
<1>4. CASE a \in free_lists[o]
  <2>1. BuddyOf(a, o) = b
    BY <1>4 DEF Coalesced
  <2>2. BuddyOf(BuddyOf(a, o), o) = a
    BY <1>1, <1>4, BuddyIsMutual
  <2> QED BY <1>4, <2>1, <2>2
<1> QED BY <1>3, <1>4

(* Removing free blocks makes no pair. *)
LEMMA SubsetKeepsCoalesced ==
  ASSUME NEW o, Coalesced(o), free_lists'[o] \subseteq free_lists[o]
  PROVE  Coalesced(o)'
BY DEF Coalesced, BuddyOf

(* Seeding goes down the orders: what is seeded at an order below the      *)
(* largest is the lower one of two buddies.                                *)
LEMMA SeedKeepsBuddies == BuddyInv /\ Seed => BuddyInv'
<1> SUFFICES ASSUME BuddyInv, Seed PROVE BuddyInv'
  OBVIOUS
<1> DEFINE b0 == call.block
           o0 == SeedOrder(call.block)
<1>0. IInv /\ TypeOK /\ SeedInv /\ IInv'
  BY SeedKeeps DEF BuddyInv, IInv
<1>1. b0 \in Page /\ b0 \in Nat /\ call.at = "seed"
  BY <1>0, Sizes DEF Seed, TypeOK, Page
<1>2. /\ o0 \in Order /\ b0 + BlockPages[o0] <= TotalPages /\ Aligned(b0, o0)
      /\ \A p \in Order : b0 + BlockPages[p] <= TotalPages /\ Aligned(b0, p) => p <= o0
  BY <1>1, SeedOrderIsLargest
<1>3. /\ live_blocks' = live_blocks /\ result' = result
      /\ call' = [call EXCEPT !.block = b0 + BlockPages[o0]]
      /\ free_lists' = [free_lists EXCEPT ![o0] = free_lists[o0] \cup {b0}]
  BY DEF Seed
<1> HIDE DEF o0
<1>4. /\ call'.at = "seed" /\ call'.block = b0 + BlockPages[o0]
      /\ \A p \in Order : free_lists'[p] = IF p = o0 THEN free_lists[p] \cup {b0} ELSE free_lists[p]
  BY <1>0, <1>1, <1>2, <1>3 DEF TypeOK
<1>5. \A o \in Order : b0 + BlockPages[o] <= TotalPages => Aligned(b0, IF o < MAX_ORDER THEN o + 1 ELSE o)
  BY <1>1 DEF BuddyInv, AlignInv
<1>6. \A o \in Order : b0 + BlockPages[o] <= TotalPages => o <= o0
  <2> SUFFICES ASSUME NEW o \in Order, b0 + BlockPages[o] <= TotalPages PROVE Aligned(b0, o)
    BY <1>2
  <2>1. CASE o < MAX_ORDER
    <3>1. Aligned(b0, o + 1) /\ o + 1 \in Order /\ o <= o + 1
      BY <1>5, <2>1, Sizes
    <3> QED BY <3>1, <1>1, AlignedBelow
  <2>2. CASE ~ (o < MAX_ORDER)
    BY <1>5, <2>2
  <2> QED BY <2>1, <2>2
<1>7. ASSUME NEW o \in Order, call'.block + BlockPages[o] <= TotalPages
      PROVE  Aligned(call'.block, IF o < MAX_ORDER THEN o + 1 ELSE o)
  <2> DEFINE u == IF o < MAX_ORDER THEN o + 1 ELSE o
  <2>0. b0 + BlockPages[o0] + BlockPages[o] <= TotalPages
    BY <1>4, <1>7
  <2>1. b0 + BlockPages[o] <= TotalPages
    BY <2>0, <1>1, <1>2, Sizes
  <2>2. o <= o0 /\ Aligned(b0, u)
    BY <2>1, <1>5, <1>6
  <2>3. u \in Order /\ u <= o0
    <3>1. CASE o < o0
      BY <3>1, <1>2, Sizes DEF Order
    <3>2. CASE o = o0 /\ ~ (o < MAX_ORDER)
      BY <3>2, Sizes
    <3>3. CASE o = o0 /\ o < MAX_ORDER
      <4>1. o + 1 \in Order /\ BlockPages[o + 1] = 2 * BlockPages[o]
        BY <3>3, Sizes
      <4>2. b0 + BlockPages[o + 1] <= TotalPages
        BY <2>0, <3>3, <4>1, <1>1, Sizes
      <4>3. o + 1 <= o0
        BY <4>1, <4>2, <1>6
      <4> QED BY <4>3, <3>3, Sizes
    <3> QED BY <2>2, <3>1, <3>2, <3>3, <1>2, Sizes
  <2> HIDE DEF u
  <2> QED BY <2>2, <2>3, <1>1, <1>2, <1>4, AlignedAbove DEF u
<1>8. AlignInv'
  <2>1. \A o \in Order : \A a \in free_lists'[o] : Aligned(a, o)
    BY <1>2, <1>4 DEF BuddyInv, AlignInv
  <2>2. DOMAIN live_blocks' = {} /\ call'.at # "merge"
    BY <1>0, <1>1, <1>3, <1>4 DEF SeedInv
  <2> QED BY <2>1, <2>2, <1>7 DEF AlignInv, Aligned
<1>9. CoalesceInv'
  <2> SUFFICES ASSUME NEW o \in Order, o < MAX_ORDER PROVE Coalesced(o)'
    BY DEF CoalesceInv, Coalesced, BuddyOf
  <2>1. Coalesced(o)
    BY <1>1 DEF BuddyInv, CoalesceInv
  <2>2. CASE o # o0
    BY <2>1, <2>2, <1>4, SubsetKeepsCoalesced
  <2>3. CASE o = o0
    <3>1. Aligned(b0, o + 1) /\ o + 1 \in Order
      BY <2>3, <1>2, <1>5, Sizes
    <3>2. BuddyOf(b0, o) = b0 + BlockPages[o]
      <4>1. Around(b0, o) = b0
        BY <3>1, <1>1, Sizes DEF Around, Aligned
      <4> QED BY <4>1, <2>3, <1>1, <1>2, AroundIsPair
    <3>3. BuddyOf(b0, o) \notin free_lists[o]
      <4>1. \A a \in free_lists[o] : a \in Nat /\ a + BlockPages[o] <= b0
        BY <1>0, <1>1, Sizes DEF SeedInv, TypeOK, Page
      <4> QED BY <4>1, <3>2, <1>1, Sizes
    <3>4. \A a \in free_lists[o] : Aligned(a, o)
      BY DEF BuddyInv, AlignInv
    <3> QED BY <1>0, <1>1, <1>2, <1>4, <2>1, <2>3, <3>3, <3>4, PushKeepsCoalesced
  <2> QED BY <2>2, <2>3
<1> QED BY <1>0, <1>4, <1>8, <1>9 DEF BuddyInv, SplitInv, CallInv

(* The halves of a block are buddies, alone on a list that was empty. *)
LEMMA SplitBlockKeepsBuddies == BuddyInv /\ SplitBlock => BuddyInv'
<1> SUFFICES ASSUME BuddyInv, SplitBlock PROVE BuddyInv'
  OBVIOUS
<1> DEFINE o0 == call.order
           h == call.order - 1
<1>0. IInv /\ TypeOK /\ IInv'
  BY SplitBlockKeeps DEF BuddyInv, IInv
<1>1. o0 \in Order /\ o0 > call.want /\ call.want \in Order /\ call.at = "split"
  BY <1>0 DEF SplitBlock, TypeOK
<1>2. h \in Order /\ h + 1 = o0 /\ BlockPages[o0] = 2 * BlockPages[h] /\ h # o0 /\ call.want <= h /\ h < o0 /\ h < MAX_ORDER
  BY <1>1, Sizes DEF Order
<1>3. PICK block \in free_lists[o0] :
        free_lists' = [free_lists EXCEPT ![o0] = @ \ {block}, ![h] = @ \cup {block, block + BlockPages[h]}]
  BY DEF SplitBlock
<1>4. live_blocks' = live_blocks /\ result' = result /\ call' = [call EXCEPT !.order = h]
  BY DEF SplitBlock
<1> HIDE DEF o0, h
<1>5. call'.at = "split" /\ call'.order = h /\ call'.want = call.want
  BY <1>0, <1>1, <1>4 DEF TypeOK
<1>6. free_lists[h] = {} /\ \A p \in Order : call.want <= p /\ p < o0 => free_lists[p] = {}
  BY <1>1, <1>2 DEF BuddyInv, SplitInv, o0
<1>7. /\ free_lists'[o0] = free_lists[o0] \ {block}
      /\ free_lists'[h] = {block, block + BlockPages[h]}
      /\ \A p \in Order : p # o0 /\ p # h => free_lists'[p] = free_lists[p]
  BY <1>0, <1>1, <1>2, <1>3, <1>6 DEF TypeOK
<1>8. block \in Nat /\ Aligned(block, o0)
  BY <1>0, <1>1, <1>3, Sizes DEF TypeOK, Page, BuddyInv, AlignInv
<1>9. Aligned(block, h) /\ Aligned(block + BlockPages[h], h) /\ BuddyOf(block, h) = block + BlockPages[h]
  <2>1. Aligned(block, h)
    BY <1>1, <1>2, <1>8, AlignedBelow, Sizes
  <2>2. Around(block, h) = block
    BY <1>1, <1>2, <1>8, Sizes DEF Around, Aligned
  <2> QED BY <2>1, <2>2, <1>2, <1>8, AroundIsPair
<1>10. AlignInv'
  <2>1. \A o \in Order : \A a \in free_lists'[o] : Aligned(a, o)
    BY <1>1, <1>2, <1>7, <1>9 DEF BuddyInv, AlignInv
  <2> QED BY <2>1, <1>4, <1>5 DEF BuddyInv, AlignInv, Aligned
<1>11. CoalesceInv'
  <2> SUFFICES ASSUME NEW o \in Order, o < MAX_ORDER
               PROVE  Coalesced(o)' \/ (o = h /\ \E a \in free_lists'[o] : free_lists'[o] = {a, BuddyOf(a, o)})
    BY <1>5 DEF CoalesceInv, Coalesced, BuddyOf
  <2>1. CASE o = h
    <3>1. block \in free_lists'[o] /\ free_lists'[o] = {block, BuddyOf(block, o)}
      BY <2>1, <1>7, <1>9
    <3> QED BY <2>1, <3>1
  <2>2. CASE o # h /\ o # o0
    <3>1. Coalesced(o)
      BY <2>2 DEF BuddyInv, CoalesceInv, o0
    <3> QED BY <2>2, <3>1, <1>7, SubsetKeepsCoalesced
  <2>3. CASE o = o0
    <3>1. CASE Coalesced(o)
      BY <2>3, <3>1, <1>7, SubsetKeepsCoalesced
    <3>2. CASE \E a \in free_lists[o] : free_lists[o] = {a, BuddyOf(a, o)}
      <4>1. PICK a \in free_lists[o] : free_lists[o] = {a, BuddyOf(a, o)}
        BY <3>2
      <4>2. a \in Nat /\ Aligned(a, o)
        BY <1>0, Sizes DEF TypeOK, Page, BuddyInv, AlignInv
      <4>3. BuddyOf(BuddyOf(a, o), o) = a /\ BuddyOf(a, o) # a
        BY <4>2, BuddyIsMutual
      <4>4. free_lists'[o] = {a, BuddyOf(a, o)} \ {block} /\ block \in {a, BuddyOf(a, o)}
        BY <2>3, <4>1, <1>3, <1>7
      <4>5. \A x \in free_lists'[o] : BuddyOf(x, o) \notin free_lists'[o]
        BY <4>3, <4>4
      <4> QED BY <4>5 DEF Coalesced, BuddyOf
    <3> QED BY <3>1, <3>2, <2>3 DEF BuddyInv, CoalesceInv
  <2> QED BY <2>1, <2>2, <2>3
<1>12. SplitInv'
  BY <1>1, <1>2, <1>5, <1>6, <1>7, Sizes DEF SplitInv
<1> QED BY <1>0, <1>5, <1>10, <1>11, <1>12 DEF BuddyInv, CallInv

(* Taking one of two buddies leaves the other alone. *)
LEMMA AllocateTakesKeepsBuddies == BuddyInv /\ AllocateTakes => BuddyInv'
<1> SUFFICES ASSUME BuddyInv, AllocateTakes PROVE BuddyInv'
  OBVIOUS
<1> DEFINE w == call.want
<1>0. IInv /\ TypeOK /\ IInv'
  BY AllocateTakesKeeps DEF BuddyInv, IInv
<1>1. w \in Order /\ call.at = "split" /\ call.order = w /\ call'.at = "idle"
  BY <1>0 DEF AllocateTakes, TypeOK, Idle
<1>2. PICK addr \in free_lists[w] :
        /\ free_lists' = [free_lists EXCEPT ![w] = @ \ {addr}]
        /\ live_blocks' = [b \in DOMAIN live_blocks \cup {addr} |-> IF b = addr THEN w ELSE live_blocks[b]]
  BY DEF AllocateTakes
<1> HIDE DEF w
<1>3. \A p \in Order : free_lists'[p] = IF p = w THEN free_lists[p] \ {addr} ELSE free_lists[p]
  BY <1>0, <1>1, <1>2 DEF TypeOK
<1>4. AlignInv'
  <2>1. \A o \in Order : \A a \in free_lists'[o] : Aligned(a, o)
    BY <1>3 DEF BuddyInv, AlignInv
  <2>2. \A a \in DOMAIN live_blocks' : Aligned(a, live_blocks'[a])
    BY <1>1, <1>2 DEF BuddyInv, AlignInv
  <2> QED BY <2>1, <2>2, <1>1 DEF AlignInv, Aligned
<1>5. CoalesceInv'
  <2> SUFFICES ASSUME NEW o \in Order, o < MAX_ORDER PROVE Coalesced(o)'
    BY DEF CoalesceInv, Coalesced, BuddyOf
  <2>1. CASE Coalesced(o)
    BY <2>1, <1>3, SubsetKeepsCoalesced
  <2>2. CASE o = w /\ \E a \in free_lists[o] : free_lists[o] = {a, BuddyOf(a, o)}
    <3>1. PICK a \in free_lists[o] : free_lists[o] = {a, BuddyOf(a, o)}
      BY <2>2
    <3>2. a \in Nat /\ Aligned(a, o)
      BY <1>0, Sizes DEF TypeOK, Page, BuddyInv, AlignInv
    <3>3. BuddyOf(BuddyOf(a, o), o) = a /\ BuddyOf(a, o) # a
      BY <3>2, BuddyIsMutual
    <3>4. free_lists'[o] = {a, BuddyOf(a, o)} \ {addr} /\ addr \in {a, BuddyOf(a, o)}
      BY <2>2, <3>1, <1>2, <1>3
    <3>5. \A x \in free_lists'[o] : BuddyOf(x, o) \notin free_lists'[o]
      BY <3>3, <3>4
    <3> QED BY <3>5 DEF Coalesced, BuddyOf
  <2> QED BY <2>1, <2>2, <1>1 DEF BuddyInv, CoalesceInv
<1> QED BY <1>0, <1>1, <1>4, <1>5 DEF BuddyInv, SplitInv, CallInv

(* A live block is aligned, and so is the block in hand it becomes. *)
LEMMA DeallocateStartsKeepsBuddies ==
  ASSUME BuddyInv, NEW addr \in Page, DeallocateStarts(addr)
  PROVE  BuddyInv'
<1>0. IInv /\ IInv'
  BY DeallocateStartsKeeps DEF BuddyInv
<1>1. /\ addr \in DOMAIN live_blocks /\ free_lists' = free_lists /\ call.at = "idle"
      /\ live_blocks' = [b \in DOMAIN live_blocks \ {addr} |-> live_blocks[b]]
      /\ call'.at = "merge" /\ call'.block = addr /\ call'.order = live_blocks[addr]
      /\ result' = <<"freeing", 0>>
  BY DEF DeallocateStarts, Idle
<1>2. AlignInv'
  BY <1>1 DEF BuddyInv, AlignInv, Aligned
<1>3. CoalesceInv'
  BY <1>1 DEF BuddyInv, CoalesceInv, Coalesced, BuddyOf
<1> QED BY <1>0, <1>1, <1>2, <1>3 DEF BuddyInv, SplitInv, CallInv

(* The union of two buddies is aligned. *)
LEMMA MergeWithBuddyKeepsBuddies == BuddyInv /\ MergeWithBuddy => BuddyInv'
<1> SUFFICES ASSUME BuddyInv, MergeWithBuddy PROVE BuddyInv'
  OBVIOUS
<1> DEFINE o0 == call.order
           b0 == call.block
           buddy == BuddyOf(b0, o0)
           low == IF buddy < b0 THEN buddy ELSE b0
<1>0. IInv /\ TypeOK /\ IInv'
  BY MergeWithBuddyKeeps DEF BuddyInv, IInv
<1>1. o0 \in Order /\ o0 < MAX_ORDER /\ call.at = "merge" /\ b0 \in Nat /\ Aligned(b0, o0)
  BY <1>0, Sizes DEF MergeWithBuddy, BuddyIsFree, TypeOK, Fits, Page, BuddyInv, AlignInv
<1>2. /\ live_blocks' = live_blocks /\ result' = result
      /\ free_lists' = [free_lists EXCEPT ![o0] = @ \ {buddy}]
      /\ call' = [call EXCEPT !.block = low, !.order = o0 + 1]
  BY DEF MergeWithBuddy
<1> HIDE DEF o0, b0, buddy
<1>3. /\ call'.at = "merge" /\ call'.block = low /\ call'.order = o0 + 1
      /\ \A p \in Order : free_lists'[p] \subseteq free_lists[p]
  <2> HIDE DEF low
  <2> QED BY <1>0, <1>1, <1>2 DEF TypeOK
<1>4. low = Around(b0, o0) /\ Aligned(low, o0 + 1)
  BY <1>1, AroundIsPair, Sizes DEF buddy
<1>5. AlignInv'
  BY <1>2, <1>3, <1>4 DEF BuddyInv, AlignInv, Aligned
<1>6. CoalesceInv'
  <2> SUFFICES ASSUME NEW o \in Order, o < MAX_ORDER PROVE Coalesced(o)'
    BY DEF CoalesceInv, Coalesced, BuddyOf
  <2>1. Coalesced(o)
    BY <1>1 DEF BuddyInv, CoalesceInv
  <2> QED BY <2>1, <1>3, SubsetKeepsCoalesced
<1> QED BY <1>0, <1>1, <1>2, <1>3, <1>5, <1>6 DEF BuddyInv, SplitInv, CallInv

(* A block is pushed when its buddy is not free, or at the largest order. *)
LEMMA DeallocateReturnsKeepsBuddies == BuddyInv /\ DeallocateReturns => BuddyInv'
<1> SUFFICES ASSUME BuddyInv, DeallocateReturns PROVE BuddyInv'
  OBVIOUS
<1> DEFINE o0 == call.order
           b0 == call.block
<1>0. IInv /\ TypeOK /\ IInv'
  BY DeallocateReturnsKeeps DEF BuddyInv, IInv
<1>1. o0 \in Order /\ call.at = "merge" /\ b0 \in Nat /\ Aligned(b0, o0)
  BY <1>0, Sizes DEF DeallocateReturns, TypeOK, Fits, Page, BuddyInv, AlignInv
<1>2. o0 < MAX_ORDER => BuddyOf(b0, o0) \notin free_lists[o0]
  BY DEF DeallocateReturns, BuddyIsFree
<1>3. /\ live_blocks' = live_blocks /\ call' = Idle
      /\ free_lists' = [free_lists EXCEPT ![o0] = @ \cup {b0}]
  BY DEF DeallocateReturns
<1> HIDE DEF o0, b0
<1>4. /\ \A p \in Order : free_lists'[p] = IF p = o0 THEN free_lists[p] \cup {b0} ELSE free_lists[p]
      /\ call'.at = "idle"
  BY <1>0, <1>1, <1>3 DEF TypeOK, Idle
<1>5. AlignInv'
  <2>1. \A o \in Order : \A a \in free_lists'[o] : Aligned(a, o)
    BY <1>1, <1>4 DEF BuddyInv, AlignInv
  <2> QED BY <2>1, <1>3, <1>4 DEF BuddyInv, AlignInv, Aligned
<1>6. CoalesceInv'
  <2> SUFFICES ASSUME NEW o \in Order, o < MAX_ORDER PROVE Coalesced(o)'
    BY DEF CoalesceInv, Coalesced, BuddyOf
  <2>1. Coalesced(o) /\ \A a \in free_lists[o] : Aligned(a, o)
    BY <1>1 DEF BuddyInv, CoalesceInv, AlignInv
  <2>2. CASE o # o0
    BY <2>1, <2>2, <1>4, SubsetKeepsCoalesced
  <2>3. CASE o = o0
    BY <2>1, <2>3, <1>0, <1>1, <1>2, <1>4, PushKeepsCoalesced
  <2> QED BY <2>2, <2>3
<1> QED BY <1>0, <1>4, <1>5, <1>6 DEF BuddyInv, SplitInv, CallInv

(* allocate starts at the smallest order with a free block. *)
LEMMA AllocateStartsKeepsBuddies ==
  ASSUME BuddyInv, NEW o \in Order, AllocateStarts(o)
  PROVE  BuddyInv'
<1> DEFINE sources == {p \in o .. MAX_ORDER : free_lists[p] # {}}
<1>0. IInv /\ IInv'
  BY NextKeeps DEF BuddyInv, Next
<1>1. free_lists' = free_lists /\ live_blocks' = live_blocks /\ call.at = "idle"
  BY DEF AllocateStarts
<1>2. call'.at \in {"idle", "split"} /\ SplitInv'
  <2>1. CASE sources = {}
    BY <1>1, <2>1 DEF AllocateStarts, SplitInv
  <2>2. CASE sources # {}
    <3>1. sources \in SUBSET Order
      BY Sizes DEF Order
    <3>2. \E q \in sources : \A p \in sources : q <= p
      BY <2>2, <3>1, Extremes
    <3>3. Smallest(sources) \in sources /\ \A p \in sources : Smallest(sources) <= p
      <4> HIDE DEF sources
      <4> QED BY <3>2 DEF Smallest
    <3>4. call'.at = "split" /\ call'.order = Smallest(sources) /\ call'.want = o
      BY <2>2 DEF AllocateStarts, Idle
    <3>5. ASSUME NEW p \in Order, o <= p, p < Smallest(sources) PROVE free_lists[p] = {}
      <4>1. p \notin sources
        <5> HIDE DEF sources
        <5> QED BY <3>1, <3>3, <3>5, Sizes
      <4> QED BY <3>5, <4>1, Sizes DEF Order
    <3>6. o <= Smallest(sources)
      <4>1. \A p \in sources : o <= p
        BY Sizes
      <4> HIDE DEF sources
      <4> QED BY <3>3, <4>1
    <3> HIDE DEF sources
    <3> QED BY <3>4, <3>5, <3>6, <1>1 DEF SplitInv
  <2> QED BY <2>1, <2>2
<1>3. AlignInv' /\ CallInv'
  BY <1>1, <1>2 DEF BuddyInv, AlignInv, Aligned, CallInv
<1>4. CoalesceInv'
  BY <1>1 DEF BuddyInv, CoalesceInv, Coalesced, BuddyOf
<1> QED BY <1>0, <1>2, <1>3, <1>4 DEF BuddyInv

(* A call that fails at once, or the end of seeding. *)
LEMMA IdleKeepsBuddies ==
  ASSUME BuddyInv, IInv', UNCHANGED <<free_lists, live_blocks>>, call.at \in {"seed", "idle"}, call'.at = "idle"
  PROVE  BuddyInv'
<1>1. AlignInv' /\ CallInv' /\ SplitInv'
  BY DEF BuddyInv, AlignInv, Aligned, CallInv, SplitInv
<1>2. CoalesceInv'
  BY DEF BuddyInv, CoalesceInv, Coalesced, BuddyOf
<1> QED BY <1>1, <1>2 DEF BuddyInv

(* Every step of every call keeps the invariant. *)
LEMMA NextKeepsBuddies == BuddyInv /\ [Next]_vars => BuddyInv'
<1> SUFFICES ASSUME BuddyInv, [Next]_vars PROVE BuddyInv'
  OBVIOUS
<1>0. IInv'
  BY NextKeeps DEF BuddyInv
<1>1. CASE SeedEnds
  BY <1>0, <1>1, IdleKeepsBuddies DEF SeedEnds, Idle
<1>2. CASE AllocateRejects
  BY <1>0, <1>2, IdleKeepsBuddies DEF AllocateRejects
<1>3. ASSUME NEW addr \in Page, DeallocateFails(addr) PROVE BuddyInv'
  BY <1>0, <1>3, IdleKeepsBuddies DEF DeallocateFails
<1>4. CASE UNCHANGED vars
  <2>1. AlignInv' /\ CallInv' /\ SplitInv'
    BY <1>4 DEF BuddyInv, vars, AlignInv, Aligned, CallInv, SplitInv
  <2>2. CoalesceInv'
    BY <1>4 DEF BuddyInv, vars, CoalesceInv, Coalesced, BuddyOf
  <2> QED BY <1>0, <2>1, <2>2 DEF BuddyInv
<1> QED BY <1>1, <1>2, <1>3, <1>4, SeedKeepsBuddies, AllocateStartsKeepsBuddies, SplitBlockKeepsBuddies,
           AllocateTakesKeepsBuddies, DeallocateStartsKeepsBuddies, MergeWithBuddyKeepsBuddies,
           DeallocateReturnsKeepsBuddies DEF Next

(* Types, disjointness, conservation, alignment and coalescing hold        *)
(* throughout.                                                             *)
THEOREM BuddyInvariant == Spec => []BuddyInv
BY InitBuddyInv, NextKeepsBuddies, PTL DEF Spec

----------------------------------------------------------------------------
(* What callers see. *)

(* In coalesced lists an aligned block that no live block touches lies in  *)
(* one free block: of the free blocks in it, the smallest would have a     *)
(* buddy in it that is free as well.                                       *)
LEMMA HoleIsInOneBlock ==
  ASSUME BuddyInv, call.at = "idle", NEW a \in Nat, NEW o \in Order, Aligned(a, o),
         a + BlockPages[o] <= TotalPages,
         \A b \in DOMAIN live_blocks : Apart(a, o, b, live_blocks[b])
  PROVE  \E p \in Order : \E b \in free_lists[p] : o <= p /\ b <= a /\ a + BlockPages[o] <= b + BlockPages[p]
<1>1. TypeOK /\ PagesConserved /\ FreeApart
  BY DEF BuddyInv, IInv, BlocksDisjoint
<1>2. ASSUME NEW page \in Nat, a <= page, page < a + BlockPages[o]
      PROVE  \E p \in Order : \E b \in free_lists[p] : b \in Nat /\ Aligned(b, p) /\ Holds(b, p, page)
  <2>1. page \in Page
    BY <1>2, Sizes DEF Page
  <2>2. ASSUME NEW b \in DOMAIN live_blocks PROVE ~ Holds(b, live_blocks[b], page)
    <3>1. b \in Nat /\ live_blocks[b] \in Order /\ Apart(a, o, b, live_blocks[b])
      BY <1>1, Sizes DEF TypeOK, Page
    <3> QED BY <3>1, <1>2, Sizes DEF Apart, Holds
  <2>3. \E p \in Order : \E b \in free_lists[p] : Holds(b, p, page)
    BY <1>1, <2>1, <2>2 DEF PagesConserved
  <2> QED BY <2>3, <1>1, Sizes DEF TypeOK, Page, BuddyInv, AlignInv
<1> DEFINE Inner == {p \in Order : p < o /\ \E b \in free_lists[p] : ~ Apart(b, p, a, o)}
<1>3. CASE Inner = {}
  <2>1a. PICK p \in Order : \E b \in free_lists[p] : b \in Nat /\ Aligned(b, p) /\ Holds(b, p, a)
    BY <1>2, Sizes
  <2>1. PICK b \in free_lists[p] : b \in Nat /\ Aligned(b, p) /\ Holds(b, p, a)
    BY <2>1a
  <2>2. ~ Apart(b, p, a, o) /\ ~ Apart(a, o, b, p)
    BY <2>1, Sizes DEF Holds, Apart
  <2>3. o <= p
    BY <1>3, <2>2, Sizes
  <2> QED BY <2>1, <2>2, <2>3, ApartOrInside
<1>4. CASE Inner # {}
  <2>1. PICK p \in Inner : \A q \in Inner : p <= q
    <3>1. Inner \in SUBSET Order
      OBVIOUS
    <3> QED BY <1>4, <3>1, Extremes
  <2>2. PICK b \in free_lists[p] : ~ Apart(b, p, a, o)
    BY <2>1
  <2>3. p \in Order /\ p < o /\ p < MAX_ORDER /\ b \in Nat /\ Aligned(b, p)
    BY <1>1, <2>1, <2>2, Sizes DEF Order, TypeOK, Page, BuddyInv, AlignInv
  <2> DEFINE c == Around(b, p)
             s == BlockPages[p]
             d == BuddyOf(b, p)
  <2>4. /\ p + 1 \in Order /\ c \in Nat /\ Aligned(c, p + 1) /\ Aligned(c, p) /\ Aligned(c + s, p)
        /\ (b = c /\ d = c + s) \/ (b = c + s /\ d = c)
        /\ s \in Nat /\ s > 0 /\ BlockPages[p + 1] = 2 * s
    BY <2>3, AroundIsPair, Sizes
  <2> HIDE DEF c, d
  <2>5. a <= c /\ c + 2 * s <= a + BlockPages[o]
    <3>1. ~ Apart(c, p + 1, a, o)
      BY <2>2, <2>4, Sizes DEF Apart
    <3>2. p + 1 <= o
      BY <2>3, Sizes
    <3> QED BY <2>4, <3>1, <3>2, ApartOrInside
  <2>6. d \in Nat /\ Aligned(d, p) /\ a <= d /\ d + s <= a + BlockPages[o] /\ d < a + BlockPages[o]
    BY <2>4, <2>5, Sizes
  <2>7a. PICK q \in Order : \E e \in free_lists[q] : e \in Nat /\ Aligned(e, q) /\ Holds(e, q, d)
    BY <1>2, <2>6
  <2>7. PICK e \in free_lists[q] : e \in Nat /\ Aligned(e, q) /\ Holds(e, q, d)
    BY <2>7a
  <2>8. ~ Apart(e, q, a, o) /\ ~ Apart(e, q, d, p) /\ ~ Apart(d, p, e, q)
    BY <2>6, <2>7, Sizes DEF Holds, Apart
  <2>9. p <= q
    <3> SUFFICES ASSUME q < p PROVE FALSE
      BY <2>3, <2>7, Sizes
    <3>1. q \in Inner
      BY <2>3, <2>7, <2>8, Sizes
    <3> QED BY <2>1, <2>3, <3>1, Sizes
  <2>10. CASE q = p
    <3>1. e <= d /\ d + s <= e + s
      BY <2>3, <2>6, <2>7, <2>8, <2>10, ApartOrInside, Sizes
    <3>2. e = d
      BY <3>1, <2>4, <2>6, <2>7
    <3>3. d \in free_lists[p]
      BY <3>2, <2>7, <2>10
    <3>4. Coalesced(p)
      BY <2>3 DEF BuddyInv, CoalesceInv
    <3> QED BY <2>2, <3>3, <3>4 DEF Coalesced, d
  <2>11. CASE q # p
    <3>1. p + 1 <= q
      BY <2>3, <2>7, <2>9, <2>11, Sizes
    <3>2. ~ Apart(c, p + 1, e, q)
      BY <2>4, <2>6, <2>7, Sizes DEF Holds, Apart
    <3>3. e <= c /\ c + 2 * s <= e + BlockPages[q]
      BY <2>4, <2>7, <3>1, <3>2, ApartOrInside
    <3>4. Apart(b, p, e, q)
      BY <1>1, <2>2, <2>3, <2>7, <2>11 DEF FreeApart
    <3> QED BY <2>3, <2>4, <2>7, <3>3, <3>4, Sizes DEF Apart
  <2> QED BY <2>10, <2>11
<1> QED BY <1>3, <1>4

(* With nothing live the lists are those of a fresh allocator. *)
LEMMA EmptyIsSeeded ==
  ASSUME BuddyInv, call.at = "idle", DOMAIN live_blocks = {}
  PROVE  free_lists = [o \in Order |-> LargestBlocks(o)]
<1>1. TypeOK /\ FreeApart /\ \A o \in Order : \A a \in free_lists[o] : Aligned(a, o) /\ a \in Page /\ a \in Nat /\ Fits(a, o)
  BY Sizes DEF BuddyInv, IInv, BlocksDisjoint, AlignInv, TypeOK, Page
<1>2. ASSUME NEW o \in Order PROVE free_lists[o] = LargestBlocks(o)
  <2>1. ASSUME NEW a \in free_lists[o] PROVE a \in LargestBlocks(o)
    <3> SUFFICES ASSUME o # MAX_ORDER, ~ (Around(a, o) + BlockPages[o + 1] > TotalPages) PROVE FALSE
      BY <1>1 DEF LargestBlocks, Around, Aligned
    <3> DEFINE c == Around(a, o)
               s == BlockPages[o]
    <3>1. /\ o < MAX_ORDER /\ o + 1 \in Order /\ c \in Nat /\ Aligned(c, o + 1) /\ (a = c \/ a = c + s)
          /\ s \in Nat /\ s > 0 /\ BlockPages[o + 1] = 2 * s
      <4>1. o < MAX_ORDER
        BY Sizes DEF Order
      <4> QED BY <4>1, <1>1, <2>1, AroundIsPair, Sizes
    <3> HIDE DEF c
    <3>2. c + BlockPages[o + 1] <= TotalPages
      BY <3>1, Sizes DEF c
    <3>3a. PICK p \in Order : \E b \in free_lists[p] : o + 1 <= p /\ b <= c /\ c + BlockPages[o + 1] <= b + BlockPages[p]
      BY <3>1, <3>2, HoleIsInOneBlock
    <3>3. PICK b \in free_lists[p] : o + 1 <= p /\ b <= c /\ c + BlockPages[o + 1] <= b + BlockPages[p]
      BY <3>3a
    <3>4. Apart(a, o, b, p)
      BY <1>1, <2>1, <3>3, Sizes DEF FreeApart
    <3>5. b \in Nat /\ BlockPages[p] \in Nat /\ a \in Nat /\ (a + s <= b \/ b + BlockPages[p] <= a)
      BY <1>1, <2>1, <3>3, <3>4, Sizes DEF Apart
    <3>6. b <= c /\ c + 2 * s <= b + BlockPages[p]
      BY <3>1, <3>3
    <3> HIDE DEF s
    <3> QED BY <3>1, <3>5, <3>6
  <2>2. ASSUME NEW a \in LargestBlocks(o) PROVE a \in free_lists[o]
    <3>1. a \in Nat /\ Aligned(a, o) /\ a + BlockPages[o] <= TotalPages
      BY <2>2, Sizes DEF LargestBlocks, Fits, Page, Aligned
    <3>2a. PICK p \in Order : \E b \in free_lists[p] : o <= p /\ b <= a /\ a + BlockPages[o] <= b + BlockPages[p]
      BY <3>1, HoleIsInOneBlock
    <3>2. PICK b \in free_lists[p] : o <= p /\ b <= a /\ a + BlockPages[o] <= b + BlockPages[p]
      BY <3>2a
    <3>3. b \in Nat /\ Aligned(b, p) /\ b + BlockPages[p] <= TotalPages
      BY <1>1, <3>2 DEF Fits
    <3>4. CASE o = p
      <4>1. a = b
        BY <3>1, <3>2, <3>3, <3>4, Sizes
      <4> QED BY <3>2, <3>4, <4>1
    <3>5. CASE o # p
      <4> DEFINE c == Around(a, o)
                 s == BlockPages[o]
      <4>1. o < MAX_ORDER /\ o + 1 <= p
        BY <3>2, <3>5, Sizes DEF Order
      <4>2. /\ o + 1 \in Order /\ c \in Nat /\ Aligned(c, o + 1) /\ (a = c \/ a = c + s)
            /\ s \in Nat /\ s > 0 /\ BlockPages[o + 1] = 2 * s
        BY <4>1, <3>1, AroundIsPair, Sizes
      <4>3. c + BlockPages[o + 1] > TotalPages
        BY <2>2, <4>1, Sizes DEF LargestBlocks, Around
      <4> HIDE DEF c
      <4>4. ~ Apart(c, o + 1, b, p)
        <5>1. BlockPages[p] \in Nat /\ a + s <= b + BlockPages[p] /\ b <= a
          BY <3>2, Sizes
        <5> HIDE DEF s
        <5>2. ~ (c + 2 * s <= b) /\ ~ (b + BlockPages[p] <= c)
          BY <3>1, <3>3, <4>2, <5>1
        <5> QED BY <4>2, <5>2 DEF Apart
      <4>5. c + BlockPages[o + 1] <= b + BlockPages[p]
        BY <3>3, <4>1, <4>2, <4>4, ApartOrInside
      <4> QED BY <3>3, <4>2, <4>3, <4>5, Sizes
    <3> QED BY <3>4, <3>5
  <2> QED BY <2>1, <2>2
<1> QED BY <1>1, <1>2 DEF TypeOK

(* Between calls no two buddies are both free: deallocate merges all that  *)
(* can be merged, for every arena and history of calls.                    *)
THEOREM BuddyFullyCoalesced == Spec => []FullyCoalesced
<1>1. BuddyInv => FullyCoalesced
  <2> SUFFICES ASSUME BuddyInv, call.at = "idle", NEW o \in Order \ {MAX_ORDER}, NEW a \in free_lists[o]
               PROVE  BuddyOf(a, o) \notin free_lists[o]
    BY DEF FullyCoalesced
  <2>1. o \in Order /\ o < MAX_ORDER
    BY Sizes DEF Order
  <2> QED BY <2>1 DEF BuddyInv, CoalesceInv, Coalesced
<1> QED BY <1>1, BuddyInvariant, PTL

(* Once everything is freed the allocator is as fresh as new: no history   *)
(* of allocate and deallocate fragments the arena for good.                *)
THEOREM BuddyRestoresSeed == Spec => []RestoresSeed
<1>1. BuddyInv => RestoresSeed
  BY EmptyIsSeeded DEF RestoresSeed
<1> QED BY <1>1, BuddyInvariant, PTL

(* PhysicalAllocator implements PageArena: its blocks are aligned and      *)
(* touch no live one, and it says OutOfMemory only when there is no hole,  *)
(* which without coalescing would be false.                                *)
THEOREM BuddyImplementsArena == Spec => ImplementsArena
<1>1. Init => A!Init
  BY DEF Init, A!Init
<1>2. BuddyInv /\ [Next]_vars => [A!Next]_(A!vars)
  <2> SUFFICES ASSUME BuddyInv, [Next]_vars PROVE A!Next \/ UNCHANGED <<live_blocks, result>>
    BY DEF A!vars
  <2>0. TypeOK /\ A!Order = Order /\ A!Page = Page
    BY DEF BuddyInv, IInv, Order, Page, A!Order, A!Page
  <2>1. CASE Seed \/ SeedEnds \/ SplitBlock \/ MergeWithBuddy \/ UNCHANGED vars
    BY <2>1 DEF Seed, SeedEnds, SplitBlock, MergeWithBuddy, vars
  <2>2. CASE AllocateRejects
    BY <2>2 DEF AllocateRejects, A!Next, A!AllocateRejects
  <2>3. ASSUME NEW o \in Order, AllocateStarts(o) PROVE A!Next \/ UNCHANGED <<live_blocks, result>>
    <3>1. CASE \A p \in o .. MAX_ORDER : free_lists[p] = {}
      <4>1. ASSUME NEW a \in Page, A!IsHole(a, o) PROVE FALSE
        <5>1. a \in Nat /\ Aligned(a, o) /\ a + BlockPages[o] <= TotalPages
          BY <4>1, Sizes DEF A!IsHole, Aligned, Page
        <5>2. \A b \in DOMAIN live_blocks : Apart(a, o, b, live_blocks[b])
          BY <4>1 DEF A!IsHole, A!Apart, Apart
        <5>3. PICK p \in Order : free_lists[p] # {} /\ o <= p
          BY <2>3, <5>1, <5>2, HoleIsInOneBlock DEF AllocateStarts
        <5>4. p \in o .. MAX_ORDER
          BY <5>3, Sizes DEF Order
        <5> QED BY <3>1, <5>3, <5>4
      <4>2. A!AllocateFails(o)
        BY <2>0, <2>3, <3>1, <4>1 DEF AllocateStarts, A!AllocateFails
      <4> QED BY <2>0, <4>2 DEF A!Next
    <3>2. CASE ~ \A p \in o .. MAX_ORDER : free_lists[p] = {}
      BY <2>3, <3>2 DEF AllocateStarts
    <3> QED BY <3>1, <3>2
  <2>4. CASE AllocateTakes
    <3> DEFINE w == call.want
    <3>1. w \in Order
      BY <2>0 DEF TypeOK
    <3>2. PICK addr \in free_lists[w] :
            live_blocks' = [b \in DOMAIN live_blocks \cup {addr} |-> IF b = addr THEN w ELSE live_blocks[b]]
      BY <2>4 DEF AllocateTakes
    <3>3. addr \in Page /\ Fits(addr, w) /\ Aligned(addr, w) /\ \A b \in DOMAIN live_blocks : Apart(addr, w, b, live_blocks[b])
      BY <2>0, <3>1, <3>2 DEF TypeOK, BuddyInv, AlignInv, IInv, BlocksDisjoint, FreeApartFromLive
    <3>4. A!IsHole(addr, w)
      BY <3>3 DEF A!IsHole, A!Apart, Apart, Aligned, Fits
    <3>5. A!Allocate(w)
      BY <2>0, <2>4, <3>2, <3>3, <3>4 DEF A!Allocate, AllocateTakes
    <3> QED BY <2>0, <3>1, <3>5 DEF A!Next
  <2>5. ASSUME NEW addr \in Page, DeallocateFails(addr) PROVE A!Next
    <3>1. DOMAIN live_blocks # Page
      BY <2>5 DEF DeallocateFails
    <3> QED BY <2>0, <2>5, <3>1 DEF DeallocateFails, A!Next, A!DeallocateFails
  <2>6. ASSUME NEW addr \in Page, DeallocateStarts(addr) PROVE A!Next
    BY <2>6 DEF DeallocateStarts, A!Next, A!Deallocate
  <2>7. CASE DeallocateReturns
    BY <2>7 DEF DeallocateReturns, A!Next, A!DeallocateReturns, BuddyInv, CallInv
  <2> QED BY <2>1, <2>2, <2>3, <2>4, <2>5, <2>6, <2>7 DEF Next
<1> QED BY <1>1, <1>2, BuddyInvariant, PTL DEF Spec, ImplementsArena, A!Spec
=============================================================================
