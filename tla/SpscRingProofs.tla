--------------------------- MODULE SpscRingProofs ---------------------------
(***************************************************************************)
(* RingBuffer never races on a slot and is an atomic bounded FIFO, for any *)
(* messages, any capacity and any width of its indices that the capacity   *)
(* divides.                                                                *)
(***************************************************************************)
EXTENDS SpscRing, TLAPS, SequenceTheorems

(* Division with remainder. *)
LEMMA Remainder ==
  ASSUME NEW d \in Nat \ {0}, NEW a \in Int
  PROVE  a % d \in 0 .. d - 1 /\ \E q \in Int : a = (d * q) + (a % d)
<1>1. a \div d \in Int /\ a = (d * (a \div d)) + (a % d)
  BY SMT
<1>2. a % d \in 0 .. d - 1
  BY SMT
<1> QED
  BY <1>1, <1>2

(* A number below d is the remainder of whatever it is added to. *)
LEMMA RemainderIsUnique ==
  ASSUME NEW d \in Nat \ {0}, NEW q \in Int, NEW r \in 0 .. d - 1
  PROVE  ((d * q) + r) % d = r
  BY SMT

(* Adding a multiple of d leaves the remainder alone. *)
LEMMA AddsMultiple ==
  ASSUME NEW d \in Nat \ {0}, NEW k \in Int, NEW a \in Int
  PROVE  (a + (d * k)) % d = a % d
<1>1. PICK q \in Int : a = (d * q) + (a % d)
  BY Remainder
<1>2. a + (d * k) = (d * (q + k)) + (a % d)
  BY <1>1, SMT
<1>3. a % d \in 0 .. d - 1 /\ q + k \in Int
  BY Remainder
<1>4. ((d * (q + k)) + (a % d)) % d = a % d
  BY <1>3, RemainderIsUnique, Zenon
<1> QED
  BY <1>2, <1>4, Zenon

(* Indices less than a ring apart are indices of different slots. *)
LEMMA SlotsDiffer ==
  ASSUME NEW a \in Int, NEW b \in Int, b - a \in 1 .. Capacity - 1
  PROVE  a % Capacity # b % Capacity
<1> SUFFICES ASSUME a % Capacity = b % Capacity PROVE FALSE
  OBVIOUS
<1>1. Capacity \in Nat \ {0}
  BY RingAssumption
<1>2. PICK q \in Int : a = (Capacity * q) + (a % Capacity)
  BY <1>1, Remainder
<1>3. PICK p \in Int : b = (Capacity * p) + (b % Capacity)
  BY <1>1, Remainder
<1>4. b - a = Capacity * (p - q)
  BY <1>1, <1>2, <1>3, SMT
<1>5. Capacity * (p - q) > 0 /\ Capacity * (p - q) < Capacity
  BY <1>1, <1>4
<1>6. p - q >= 1
  BY <1>1, <1>5, SMT
<1>7. Capacity * (p - q) >= Capacity
  BY <1>1, <1>6, SMT
<1> QED
  BY <1>1, <1>5, <1>7

(* The wrap of an index does not change its slot. *)
LEMMA WrapKeepsSlot ==
  ASSUME NEW a \in Int
  PROVE  /\ (a + USIZE) % Capacity = a % Capacity
         /\ (a - USIZE) % Capacity = a % Capacity
         /\ (a % USIZE) % Capacity = a % Capacity
         /\ a % Capacity \in SlotIndex
<1>1. Capacity \in Nat \ {0} /\ USIZE \in Nat \ {0} /\ USIZE \in Int /\ USIZE % Capacity = 0
  BY RingAssumption
<1>2. PICK k \in Int : USIZE = (Capacity * k) + (USIZE % Capacity)
  BY <1>1, Remainder
<1>3. USIZE = Capacity * k
  BY <1>1, <1>2
<1>4. (a + USIZE) % Capacity = a % Capacity
  BY <1>1, <1>3, AddsMultiple, Zenon
<1>5. (a - USIZE) % Capacity = a % Capacity
  <2>1. ((a - USIZE) + (Capacity * k)) % Capacity = (a - USIZE) % Capacity
    <3>1. a - USIZE \in Int
      BY <1>1
    <3> QED
      BY <1>1, <3>1, AddsMultiple
  <2>2. (a - USIZE) + (Capacity * k) = a
    BY <1>1, <1>3
  <2> QED
    BY <2>1, <2>2
<1>6. (a % USIZE) % Capacity = a % Capacity
  <2>1. PICK q \in Int : a = (USIZE * q) + (a % USIZE)
    BY <1>1, Remainder
  <2>2. a % USIZE \in Int /\ k * q \in Int
    BY <1>1, Remainder
  <2>3. a = (a % USIZE) + (Capacity * (k * q))
    BY <1>1, <1>3, <2>1, <2>2, SMT
  <2>4. ((a % USIZE) + (Capacity * (k * q))) % Capacity = (a % USIZE) % Capacity
    BY <1>1, <2>2, AddsMultiple, Zenon
  <2> QED
    BY <2>3, <2>4, Zenon
<1>7. a % Capacity \in SlotIndex
  BY <1>1, Remainder DEF SlotIndex
<1> QED
  BY <1>4, <1>5, <1>6, <1>7

(* The same for the arithmetic of the indices themselves. *)
LEMMA NextIndex ==
  ASSUME NEW a \in 0 .. USIZE - 1
  PROVE  /\ (a + 1) % USIZE \in 0 .. USIZE - 1
         /\ (a + 1) % USIZE = a + 1 \/ (a + 1) % USIZE = a + 1 - USIZE
<1>1. USIZE \in Nat \ {0}
  BY RingAssumption
<1>2. CASE a + 1 < USIZE
  <2>1. (a + 1) % USIZE = a + 1
    BY <1>1, <1>2, SMT
  <2> QED
    BY <1>1, <1>2, <2>1
<1>3. CASE a + 1 = USIZE
  <2>1. (a + 1) % USIZE = 0
    BY <1>1, <1>3, SMT
  <2> QED
    BY <1>1, <1>3, <2>1
<1> QED
  BY <1>1, <1>2, <1>3

----------------------------------------------------------------------------
(* Messages enqueued and not yet released: len, give or take what a thread *)
(* in the middle of its call has done to its index already.                *)
Held == (len + IF ppc = "publish" THEN 1 ELSE 0) - IF cpc = "release" THEN 1 ELSE 0

(* The index of the oldest message, and the one after the newest. *)
Oldest == IF cpc = "release" THEN read_index - 1 ELSE read_index
Newest == IF ppc = "publish" THEN write_index - 1 ELSE write_index

(* Every variable keeps its type, and a thread in the middle of a call has *)
(* a message in its hands.                                                 *)
RingTypeOK ==
  /\ slots \in [SlotIndex -> Message \cup {"None"}]
  /\ write_index \in 0 .. USIZE - 1 /\ read_index \in 0 .. USIZE - 1 /\ len \in 0 .. Capacity
  /\ ppc \in {"idle", "write", "advance", "publish"} /\ (ppc # "idle" => message \in Message)
  /\ cpc \in {"idle", "take", "advance", "release"}
  /\ cpc \in {"advance", "release"} => taken \in Message

(* What a thread has found of len stays true until it changes len itself:  *)
(* the other one only makes more room, or more messages.                   *)
RoomInv == (ppc # "idle" => len < Capacity) /\ (cpc # "idle" => len > 0)

(* The indices are as far apart as there are messages, up to a wrap. *)
DistanceInv == write_index - read_index = Held \/ write_index - read_index = Held - USIZE

(* Every message is in its slot, or with the consumer; the producer's is   *)
(* in the slot it goes to.                                                 *)
SlotInv ==
  /\ \A i \in 1 .. len : (i = 1 /\ cpc \in {"advance", "release"}) \/ slots[(Oldest + i - 1) % Capacity] \in Message
  /\ ppc \in {"advance", "publish"} => slots[Newest % Capacity] = message

RingInv == RingTypeOK /\ RoomInv /\ DistanceInv /\ SlotInv

(* The slot after the newest message is as far from the oldest as there    *)
(* are messages, and so is none of theirs while there is room.             *)
LEMMA NewestSlot ==
  ASSUME RingTypeOK, DistanceInv
  PROVE  /\ Newest % Capacity = (Oldest + len) % Capacity
         /\ Newest \in Int /\ Oldest \in Int
         /\ len < Capacity => \A i \in 1 .. len : (Oldest + i - 1) % Capacity # Newest % Capacity
<1>1. USIZE \in Nat /\ Capacity \in Nat \ {0}
  BY RingAssumption
<1>2. Newest \in Int /\ Oldest \in Int /\ len \in Nat
  BY <1>1 DEF RingTypeOK, Newest, Oldest
<1>3. Newest = Oldest + len \/ Newest = (Oldest + len) - USIZE
  BY <1>1 DEF RingTypeOK, DistanceInv, Held, Newest, Oldest
<1>4. Newest % Capacity = (Oldest + len) % Capacity
  BY <1>2, <1>3, WrapKeepsSlot
<1>5. ASSUME len < Capacity, NEW i \in 1 .. len
      PROVE  (Oldest + i - 1) % Capacity # Newest % Capacity
  <2>1. (Oldest + len) - (Oldest + i - 1) \in 1 .. Capacity - 1
    BY <1>1, <1>2, <1>5
  <2>2. Oldest + len \in Int /\ Oldest + i - 1 \in Int
    BY <1>2
  <2> QED
    BY <1>4, <2>1, <2>2, SlotsDiffer
<1> QED
  BY <1>2, <1>4, <1>5

(* The new ring has the invariant. *)
LEMMA RingInit == Init => RingInv
<1> SUFFICES ASSUME Init PROVE RingInv
  OBVIOUS
<1> USE RingAssumption DEF Init
<1>1. RingTypeOK
  BY DEF RingTypeOK
<1>2. RoomInv /\ DistanceInv
  BY DEF RoomInv, DistanceInv, Held
<1>3. SlotInv
  BY DEF SlotInv
<1> QED
  BY <1>1, <1>2, <1>3 DEF RingInv

----------------------------------------------------------------------------
(* Every step of the producer keeps RingInv.  Finding room: *)
LEMMA EnqueueCheckStep ==
  ASSUME RingInv, NEW m \in Message, EnqueueChecks(m)
  PROVE  RingInv'
<1> USE RingAssumption DEF EnqueueChecks, consumerVars, RingInv
<1>1. RingTypeOK' /\ RoomInv'
  BY DEF RingTypeOK, RoomInv
<1>2. DistanceInv' /\ SlotInv'
  BY DEF RingTypeOK, DistanceInv, Held, SlotInv, Oldest, Newest
<1> QED
  BY <1>1, <1>2

(* Writing the slot, which holds none of the messages. *)
LEMMA EnqueueWriteStep ==
  ASSUME RingInv, EnqueueWrites
  PROVE  RingInv'
<1> USE DEF EnqueueWrites, consumerVars, RingInv
<1>1. Newest = write_index /\ Newest' = write_index /\ Oldest' = Oldest /\ Newest \in Int
  BY NewestSlot DEF Newest, Oldest
<1>2. Newest % Capacity \in SlotIndex
  BY <1>1, WrapKeepsSlot
<1>3. RingTypeOK' /\ RoomInv' /\ DistanceInv'
  BY <1>1, <1>2 DEF RingTypeOK, RoomInv, DistanceInv, Held
<1>4. slots'[Newest % Capacity] = message
  BY <1>1, <1>2 DEF RingTypeOK
<1>5. ASSUME NEW i \in 1 .. len
      PROVE  slots'[(Oldest + i - 1) % Capacity] = slots[(Oldest + i - 1) % Capacity]
  <2>1. (Oldest + i - 1) % Capacity # Newest % Capacity
    BY NewestSlot DEF RoomInv
  <2>2. Oldest + i - 1 \in Int
    BY NewestSlot DEF RingTypeOK
  <2> QED
    BY <1>1, <2>1, <2>2, WrapKeepsSlot DEF RingTypeOK
<1>6. SlotInv'
  BY <1>1, <1>4, <1>5 DEF SlotInv
<1> QED
  BY <1>3, <1>6

(* Advancing write_index, past the wrap perhaps. *)
LEMMA EnqueueAdvanceStep ==
  ASSUME RingInv, EnqueueAdvances
  PROVE  RingInv'
<1> USE DEF EnqueueAdvances, consumerVars, RingInv
<1>1. /\ write_index' \in 0 .. USIZE - 1
      /\ write_index' = write_index + 1 \/ write_index' = write_index + 1 - USIZE
  BY NextIndex DEF RingTypeOK
<1>2. RingTypeOK' /\ RoomInv'
  BY <1>1 DEF RingTypeOK, RoomInv
<1>3. DistanceInv'
  BY <1>1, RingAssumption DEF DistanceInv, Held, RingTypeOK
<1>4. Newest' % Capacity = Newest % Capacity
  <2>1. Newest \in Int /\ Newest = write_index
    BY NewestSlot DEF Newest
  <2>2. Newest' = Newest \/ Newest' = Newest - USIZE
    BY <1>1, <2>1, RingAssumption DEF Newest, RingTypeOK
  <2> QED
    BY <2>1, <2>2, WrapKeepsSlot
<1>5. SlotInv'
  BY <1>4 DEF SlotInv, Oldest
<1> QED
  BY <1>2, <1>3, <1>5

(* Raising len, which does not wrap as there was room. *)
LEMMA EnqueuePublishStep ==
  ASSUME RingInv, EnqueuePublishes
  PROVE  RingInv' /\ len' = len + 1
<1> USE DEF EnqueuePublishes, consumerVars, RingInv
<1>1. len' = len + 1
  BY RingAssumption DEF RingTypeOK, RoomInv
<1>2. RingTypeOK' /\ RoomInv' /\ DistanceInv'
  BY <1>1, RingAssumption DEF RingTypeOK, RoomInv, DistanceInv, Held
<1>3. slots[(Oldest + len) % Capacity] = message /\ message \in Message
  BY NewestSlot DEF SlotInv, RingTypeOK
<1>4. Oldest' = Oldest /\ Oldest \in Int /\ len \in Nat
  BY NewestSlot, RingAssumption DEF Oldest, RingTypeOK
<1>5. ASSUME NEW i \in 1 .. len + 1
      PROVE  (i = 1 /\ cpc \in {"advance", "release"}) \/ slots[(Oldest + i - 1) % Capacity] \in Message
  <2>1. CASE i = len + 1
    <3>1. Oldest + i - 1 = Oldest + len
      BY <1>4, <2>1
    <3> QED
      BY <1>3, <3>1
  <2>2. CASE i # len + 1
    <3>1. i \in 1 .. len
      BY <1>4, <2>2
    <3> QED
      BY <3>1 DEF SlotInv
  <2> QED
    BY <2>1, <2>2
<1>6. SlotInv'
  BY <1>1, <1>4, <1>5 DEF SlotInv
<1> QED
  BY <1>1, <1>2, <1>6

----------------------------------------------------------------------------
(* Every step of the consumer keeps RingInv.  Finding a message: *)
LEMMA DequeueCheckStep ==
  ASSUME RingInv, DequeueChecks
  PROVE  RingInv'
<1> USE RingAssumption DEF DequeueChecks, producerVars, RingInv
<1>1. RingTypeOK' /\ RoomInv'
  BY DEF RingTypeOK, RoomInv
<1>2. DistanceInv' /\ SlotInv'
  BY DEF RingTypeOK, DistanceInv, Held, SlotInv, Oldest, Newest
<1> QED
  BY <1>1, <1>2

(* Taking the oldest message leaves the others in their slots. *)
LEMMA DequeueTakeStep ==
  ASSUME RingInv, DequeueTakes
  PROVE  /\ RingInv'
         /\ taken' = slots[Oldest % Capacity] /\ taken' \in Message
         /\ \A i \in 2 .. len : slots'[(Oldest + i - 1) % Capacity] = slots[(Oldest + i - 1) % Capacity]
<1> USE DEF DequeueTakes, producerVars, RingInv
<1>1. Oldest = read_index /\ Oldest' = read_index /\ Newest' = Newest /\ Oldest \in Int
  BY NewestSlot DEF Newest, Oldest
<1>2. Oldest % Capacity \in SlotIndex /\ len \in Nat /\ len >= 1 /\ len <= Capacity
  <2>1. Oldest % Capacity \in SlotIndex
    BY <1>1, WrapKeepsSlot
  <2> QED
    BY <2>1, RingAssumption DEF RoomInv, RingTypeOK
<1>3. taken' = slots[Oldest % Capacity] /\ taken' \in Message
  <2>1. slots[(Oldest + 1 - 1) % Capacity] \in Message
    BY <1>2 DEF SlotInv
  <2>2. Oldest + 1 - 1 = Oldest
    BY <1>1
  <2> QED
    BY <1>1, <2>1, <2>2
<1>4. RingTypeOK' /\ RoomInv' /\ DistanceInv'
  BY <1>1, <1>2, <1>3 DEF RingTypeOK, RoomInv, DistanceInv, Held
<1>5. ASSUME NEW j \in Int, j - Oldest \in 1 .. Capacity - 1
      PROVE  slots'[j % Capacity] = slots[j % Capacity]
  <2>1. j % Capacity # Oldest % Capacity
    BY <1>1, <1>5, SlotsDiffer
  <2> QED
    BY <1>1, <2>1, WrapKeepsSlot DEF RingTypeOK
<1>6. ASSUME NEW i \in 2 .. len
      PROVE  slots'[(Oldest + i - 1) % Capacity] = slots[(Oldest + i - 1) % Capacity]
  <2>1. Oldest + i - 1 \in Int /\ (Oldest + i - 1) - Oldest \in 1 .. Capacity - 1
    BY <1>1, <1>2, RingAssumption
  <2> QED
    BY <1>5, <2>1
<1>7. ppc \in {"advance", "publish"} => slots'[Newest % Capacity] = message
  <2> SUFFICES ASSUME ppc \in {"advance", "publish"}
               PROVE  slots'[Newest % Capacity] = message
    OBVIOUS
  <2>1. Newest % Capacity = (Oldest + len) % Capacity
    BY NewestSlot
  <2>2. Oldest + len \in Int /\ (Oldest + len) - Oldest \in 1 .. Capacity - 1
    BY <1>1, <1>2, RingAssumption DEF RoomInv
  <2>3. slots'[Newest % Capacity] = slots[Newest % Capacity]
    BY <1>5, <2>1, <2>2
  <2> QED
    BY <2>3 DEF SlotInv
<1>8. SlotInv'
  <2>1. ASSUME NEW i \in 1 .. len, i # 1
        PROVE  slots'[(Oldest + i - 1) % Capacity] \in Message
    <3>1. i \in 2 .. len
      BY <1>2, <2>1
    <3> QED
      BY <1>6, <2>1, <3>1 DEF SlotInv
  <2> QED
    BY <1>1, <1>7, <2>1 DEF SlotInv
<1> QED
  BY <1>3, <1>4, <1>6, <1>8

(* Advancing read_index, past the wrap perhaps. *)
LEMMA DequeueAdvanceStep ==
  ASSUME RingInv, DequeueAdvances
  PROVE  /\ RingInv'
         /\ \A i \in Int : (Oldest' + i - 1) % Capacity = (Oldest + i - 1) % Capacity
<1> USE DEF DequeueAdvances, producerVars, RingInv
<1>1. /\ read_index' \in 0 .. USIZE - 1
      /\ read_index' = read_index + 1 \/ read_index' = read_index + 1 - USIZE
  BY NextIndex DEF RingTypeOK
<1>2. RingTypeOK' /\ RoomInv'
  BY <1>1 DEF RingTypeOK, RoomInv
<1>3. DistanceInv'
  <2>1. len \in Nat /\ write_index \in Int /\ read_index \in Int /\ USIZE \in Nat /\ Capacity < USIZE
        /\ write_index \in 0 .. USIZE - 1 /\ len <= Capacity /\ len >= 1
    BY RingAssumption DEF RingTypeOK, RoomInv
  <2>2. Held' = Held - 1 /\ Held \in Int /\ Held >= 1 /\ Held <= Capacity
    BY <2>1, RingAssumption DEF Held, RoomInv
  <2> QED
    BY <1>1, <2>1, <2>2 DEF DistanceInv
<1>4. Oldest' = Oldest \/ Oldest' = Oldest - USIZE
  BY <1>1, RingAssumption DEF Oldest, RingTypeOK
<1>5. ASSUME NEW i \in Int
      PROVE  (Oldest' + i - 1) % Capacity = (Oldest + i - 1) % Capacity
  <2>1. Oldest + i - 1 \in Int /\ USIZE \in Int /\ Oldest \in Int
    BY NewestSlot, RingAssumption
  <2>2. CASE Oldest' = Oldest - USIZE
    <3>1. Oldest' + i - 1 = (Oldest + i - 1) - USIZE
      BY <2>1, <2>2
    <3> QED
      BY <2>1, <3>1, WrapKeepsSlot
  <2> QED
    BY <1>4, <2>2
<1>6. SlotInv'
  <2>1. Newest' = Newest
    BY DEF Newest
  <2> QED
    BY <1>5, <2>1 DEF SlotInv
<1> QED
  BY <1>2, <1>3, <1>5, <1>6

(* Lowering len, which is not 0. *)
LEMMA DequeueReleaseStep ==
  ASSUME RingInv, DequeueReleases
  PROVE  RingInv' /\ len' = len - 1 /\ Oldest' = Oldest + 1
<1> USE DEF DequeueReleases, producerVars, RingInv
<1>1. len' = len - 1 /\ len \in Nat /\ len >= 1
  BY RingAssumption DEF RingTypeOK, RoomInv
<1>2. Oldest' = Oldest + 1 /\ Oldest \in Int /\ Newest' = Newest
  BY NewestSlot, RingAssumption DEF Oldest, Newest, RingTypeOK
<1>3. RingTypeOK' /\ RoomInv' /\ DistanceInv'
  BY <1>1, RingAssumption DEF RingTypeOK, RoomInv, DistanceInv, Held
<1>4. ASSUME NEW i \in 1 .. len'
      PROVE  slots[(Oldest' + i - 1) % Capacity] \in Message
  <2>1. i + 1 \in 1 .. len /\ i + 1 # 1
    BY <1>1
  <2>2. slots[(Oldest + (i + 1) - 1) % Capacity] \in Message
    BY <2>1 DEF SlotInv
  <2>3. Oldest + (i + 1) - 1 = Oldest' + i - 1
    BY <1>2
  <2> QED
    BY <2>2, <2>3
<1>5. SlotInv'
  BY <1>2, <1>4 DEF SlotInv
<1> QED
  BY <1>1, <1>2, <1>3, <1>5

(* RingInv is inductive. *)
LEMMA RingStep == RingInv /\ [Next]_vars => RingInv'
<1> SUFFICES ASSUME RingInv, [Next]_vars PROVE RingInv'
  OBVIOUS
<1>1. CASE UNCHANGED vars
  BY <1>1 DEF vars, producerVars, consumerVars, RingInv, RingTypeOK, RoomInv, DistanceInv, SlotInv, Held, Oldest, Newest
<1>2. CASE Producer
  BY <1>2, EnqueueCheckStep, EnqueueWriteStep, EnqueueAdvanceStep, EnqueuePublishStep DEF Producer
<1>3. CASE Consumer
  BY <1>3, DequeueCheckStep, DequeueTakeStep, DequeueAdvanceStep, DequeueReleaseStep DEF Consumer
<1> QED
  BY <1>1, <1>2, <1>3 DEF Next

(* RingInv in every reachable state, for any messages, capacity and width. *)
THEOREM RingCorrect == Spec => []RingInv
  BY RingInit, RingStep, PTL DEF Spec

(* Neither access to a slot races the other: while the producer is about   *)
(* to write there is room, and while the consumer is about to take there   *)
(* is a message, so their slots are less than a ring apart.                *)
THEOREM RingNoDataRace == Spec => []NoDataRace
<1>1. RingInv => NoDataRace
  <2> SUFFICES ASSUME RingInv, ppc = "write", cpc = "take"
               PROVE  write_index % Capacity # read_index % Capacity
    BY DEF NoDataRace
  <2>1. Newest = write_index /\ Oldest = read_index /\ Oldest \in Int
    BY NewestSlot DEF Newest, Oldest, RingInv
  <2>2. 1 \in 1 .. len /\ len < Capacity
    BY RingAssumption DEF RingInv, RingTypeOK, RoomInv
  <2>3. (Oldest + 1 - 1) % Capacity # Newest % Capacity
    BY <2>2, NewestSlot DEF RingInv
  <2>4. Oldest + 1 - 1 = Oldest
    BY <2>1
  <2> QED
    BY <2>1, <2>3, <2>4
<1> QED
  BY <1>1, RingCorrect, PTL

----------------------------------------------------------------------------
(* The refinement.  Nth[i] is message i of the queue, the wrap left out. *)
Nth ==
  [i \in Nat |-> IF i = 1 /\ cpc \in {"advance", "release"} THEN taken ELSE slots[(Oldest + i - 1) % Capacity]]

ContentsShape ==
  /\ Contents = [i \in 1 .. len |-> Nth[i]]
  /\ len \in Nat /\ Contents \in Seq(Message) /\ Len(Contents) = len
  /\ \A i \in 1 .. len : Contents[i] = Nth[i]

(* Contents is a sequence of len messages. *)
LEMMA ContentsAre == RingInv => ContentsShape
<1> SUFFICES ASSUME RingInv PROVE ContentsShape
  OBVIOUS
<1>1. len \in Nat /\ Oldest \in Int
  BY NewestSlot, RingAssumption DEF RingInv, RingTypeOK
<1>2. ASSUME NEW i \in 1 .. len
      PROVE  ((Oldest + i - 1) % USIZE) % Capacity = (Oldest + i - 1) % Capacity
  <2>1. Oldest + i - 1 \in Int
    BY <1>1
  <2> QED
    BY <2>1, WrapKeepsSlot
<1>3. Contents = [i \in 1 .. len |-> Nth[i]]
  BY <1>1, <1>2 DEF Contents, Nth, Oldest
<1>4. \A i \in 1 .. len : Nth[i] \in Message
  BY <1>1 DEF Nth, RingInv, SlotInv, RingTypeOK
<1>5. Contents \in Seq(Message) /\ Len(Contents) = len /\ \A i \in 1 .. len : Contents[i] = Nth[i]
  BY <1>1, <1>3, <1>4
<1> QED
  BY <1>1, <1>3, <1>5 DEF ContentsShape

(* The same after a step. *)
LEMMA NextContentsAre == RingInv' => ContentsShape'
  BY ContentsAre, PTL

(* A step that changes neither the length nor an element is a stutter. *)
LEMMA SameContents ==
  ASSUME RingInv, RingInv', len' = len, \A i \in 1 .. len : Nth'[i] = Nth[i]
  PROVE  Contents' = Contents
  BY ContentsAre, NextContentsAre DEF ContentsShape

(* To raise len is to append the producer's message. *)
LEMMA PublishAppends ==
  ASSUME RingInv, EnqueuePublishes
  PROVE  Contents' = Append(Contents, message) /\ message \in Message /\ Len(Contents) < Capacity
<1>1. RingInv' /\ len' = len + 1 /\ len \in Nat
  BY EnqueuePublishStep, ContentsAre DEF ContentsShape
<1>2. message \in Message /\ len < Capacity
  BY DEF RingInv, RingTypeOK, RoomInv, EnqueuePublishes
<1>3. Contents \in Seq(Message) /\ Len(Contents) = len /\ \A i \in 1 .. len : Contents[i] = Nth[i]
  BY ContentsAre DEF ContentsShape
<1>4. Contents' \in Seq(Message) /\ Len(Contents') = len + 1 /\ \A i \in 1 .. len + 1 : Contents'[i] = Nth'[i]
  BY <1>1, NextContentsAre DEF ContentsShape
<1>5. ASSUME NEW i \in 1 .. len PROVE Nth'[i] = Nth[i]
  BY <1>1 DEF EnqueuePublishes, consumerVars, Nth, Oldest
<1>6. Nth'[len + 1] = message
  <2>1. slots[(Oldest + len) % Capacity] = message /\ Oldest \in Int
    BY NewestSlot DEF RingInv, SlotInv, EnqueuePublishes
  <2>2. Oldest + (len + 1) - 1 = Oldest + len
    BY <1>1, <2>1
  <2>3. ~ (len + 1 = 1 /\ cpc \in {"advance", "release"})
    BY <1>1 DEF RingInv, RoomInv
  <2>4. Oldest' = Oldest /\ cpc' = cpc /\ slots' = slots
    BY DEF EnqueuePublishes, consumerVars, Oldest
  <2> QED
    BY <1>1, <2>1, <2>2, <2>3, <2>4 DEF Nth
<1>7. Append(Contents, message) \in Seq(Message) /\ Len(Append(Contents, message)) = len + 1
  BY <1>2, <1>3
<1>8. ASSUME NEW i \in 1 .. len + 1
      PROVE  Contents'[i] = Append(Contents, message)[i]
  <2>1. CASE i = len + 1
    <3>1. Append(Contents, message)[len + 1] = message
      BY <1>1, <1>2, <1>3
    <3>2. Contents'[len + 1] = Nth'[len + 1]
      BY <1>1, <1>4
    <3> QED
      BY <1>6, <2>1, <3>1, <3>2
  <2>2. CASE i # len + 1
    <3>1. i \in 1 .. len
      BY <1>1, <2>2
    <3>2. Append(Contents, message)[i] = Contents[i]
      BY <1>2, <1>3, <3>1
    <3> QED
      BY <1>3, <1>4, <1>5, <3>1, <3>2
  <2> QED
    BY <2>1, <2>2
<1>9. Contents' = Append(Contents, message)
  BY <1>1, <1>4, <1>7, <1>8, SeqEqual
<1> QED
  BY <1>2, <1>3, <1>9

(* To lower len is to remove the head, which is what dequeue returns. *)
LEMMA ReleaseRemoves ==
  ASSUME RingInv, DequeueReleases
  PROVE  Contents # <<>> /\ Contents' = Tail(Contents) /\ received' = Head(Contents)
<1>1. RingInv' /\ len' = len - 1 /\ len \in Nat /\ len >= 1 /\ Oldest' = Oldest + 1 /\ Oldest \in Int
  BY DequeueReleaseStep, ContentsAre, NewestSlot DEF RingInv, RoomInv, DequeueReleases, ContentsShape
<1>2. Contents \in Seq(Message) /\ Len(Contents) = len /\ \A i \in 1 .. len : Contents[i] = Nth[i]
  BY ContentsAre DEF ContentsShape
<1>3. Contents' \in Seq(Message) /\ Len(Contents') = len - 1 /\ \A i \in 1 .. len - 1 : Contents'[i] = Nth'[i]
  BY <1>1, NextContentsAre DEF ContentsShape
<1>4. ASSUME NEW i \in 1 .. len - 1 PROVE Nth'[i] = Nth[i + 1]
  <2>1. Oldest' + i - 1 = Oldest + (i + 1) - 1 /\ i + 1 # 1
    BY <1>1
  <2>2. slots' = slots /\ cpc' = "idle"
    BY DEF DequeueReleases
  <2> QED
    BY <2>1, <2>2 DEF Nth
<1>5. Tail(Contents) \in Seq(Message) /\ Len(Tail(Contents)) = len - 1
      /\ \A i \in 1 .. len - 1 : Tail(Contents)[i] = Contents[i + 1]
  BY <1>1, <1>2
<1>6. Contents' = Tail(Contents)
  <2>1. \A i \in 1 .. len - 1 : Contents'[i] = Tail(Contents)[i]
    BY <1>1, <1>2, <1>3, <1>4, <1>5
  <2> QED
    BY <1>1, <1>3, <1>5, <2>1, SeqEqual
<1>7. received' = taken /\ Head(Contents) = taken
  <2>1. taken \in Message /\ taken # "None"
    BY RingAssumption DEF RingInv, RingTypeOK, DequeueReleases
  <2>2. Head(Contents) = Nth[1] /\ Nth[1] = taken
    <3>1. Nth[1] = taken
      BY DEF Nth, DequeueReleases
    <3>2. 1 \in 1 .. len /\ Head(Contents) = Contents[1]
      BY <1>1, <1>2
    <3> QED
      BY <1>2, <3>1, <3>2
  <2> QED
    BY <2>1, <2>2 DEF DequeueReleases
<1> QED
  BY <1>1, <1>2, <1>6, <1>7

(* Every step is one of BoundedFifo, or changes nothing it sees. *)
LEMMA RefinesStep ==
  ASSUME RingInv, [Next]_vars
  PROVE  [F!Next]_F!vars
<1>0. RingInv'
  BY RingStep
<1>1. Len(Contents) = len /\ len \in Nat /\ len <= Capacity /\ (Contents = <<>> <=> len = 0)
  BY ContentsAre, RingAssumption DEF RingInv, RingTypeOK, ContentsShape
<1>2. CASE UNCHANGED vars
  BY <1>2 DEF vars, producerVars, consumerVars, Contents, F!vars
<1>3. ASSUME NEW m \in Message, EnqueueChecks(m)
      PROVE  F!EnqueueFails \/ UNCHANGED F!vars
  <2>1. Contents' = Contents /\ received' = received
    BY <1>3 DEF EnqueueChecks, consumerVars, Contents
  <2>2. CASE sent' = sent
    BY <2>1, <2>2 DEF F!vars
  <2>3. CASE len >= Capacity /\ sent' = "QueueFull"
    BY <1>1, <2>1, <2>3, RingAssumption DEF F!EnqueueFails
  <2> QED
    BY <1>3, <2>2, <2>3 DEF EnqueueChecks
<1>4. CASE EnqueueWrites
  <2>1. ASSUME NEW i \in 1 .. len
        PROVE  slots'[(Oldest + i - 1) % Capacity] = slots[(Oldest + i - 1) % Capacity]
    <3>1. (Oldest + i - 1) % Capacity # Newest % Capacity /\ Oldest + i - 1 \in Int
      BY <1>1, <1>4, NewestSlot DEF EnqueueWrites, RingInv, RoomInv
    <3>2. Newest = write_index
      BY <1>4 DEF EnqueueWrites, Newest
    <3> QED
      BY <1>4, <3>1, <3>2, WrapKeepsSlot DEF EnqueueWrites, RingInv, RingTypeOK
  <2>2. Contents' = Contents
    BY <1>0, <1>4, <2>1, SameContents DEF EnqueueWrites, consumerVars, Nth, Oldest
  <2> QED
    BY <1>4, <2>2 DEF EnqueueWrites, consumerVars, F!vars
<1>5. CASE EnqueueAdvances
  BY <1>5 DEF EnqueueAdvances, consumerVars, Contents, F!vars
<1>6. CASE EnqueuePublishes
  <2>1. F!Enqueue(message) /\ message \in Message
    BY <1>6, PublishAppends DEF F!Enqueue, EnqueuePublishes, consumerVars
  <2> QED
    BY <2>1 DEF F!Next
<1>7. CASE DequeueChecks
  <2>1. Contents' = Contents /\ sent' = sent
    BY <1>7 DEF DequeueChecks, producerVars, Contents
  <2>2. CASE received' = received
    BY <2>1, <2>2 DEF F!vars
  <2>3. CASE len = 0 /\ received' = "QueueEmpty"
    BY <1>1, <2>1, <2>3 DEF F!DequeueFails, F!Next
  <2> QED
    BY <1>7, <2>2, <2>3 DEF DequeueChecks
<1>8. CASE DequeueTakes
  <2>1. ASSUME NEW i \in 1 .. len PROVE Nth'[i] = Nth[i]
    <3>1. Oldest' = Oldest /\ cpc = "take" /\ cpc' = "advance" /\ Oldest \in Int
      BY <1>8, NewestSlot DEF DequeueTakes, Oldest, RingInv
    <3>2. CASE i = 1
      <4>1. Oldest + i - 1 = Oldest
        BY <3>1, <3>2
      <4> QED
        BY <1>8, <3>1, <3>2, <4>1, DequeueTakeStep DEF Nth
    <3>3. CASE i # 1
      <4>1. i \in 2 .. len
        BY <1>1, <3>3
      <4> QED
        BY <1>8, <3>1, <3>3, <4>1, DequeueTakeStep DEF Nth
    <3> QED
      BY <3>2, <3>3
  <2>2. Contents' = Contents
    BY <1>0, <1>8, <2>1, SameContents DEF DequeueTakes
  <2> QED
    BY <1>8, <2>2 DEF DequeueTakes, producerVars, F!vars
<1>9. CASE DequeueAdvances
  <2>1. ASSUME NEW i \in 1 .. len PROVE Nth'[i] = Nth[i]
    BY <1>9, DequeueAdvanceStep DEF Nth, DequeueAdvances
  <2>2. Contents' = Contents
    BY <1>0, <1>9, <2>1, SameContents DEF DequeueAdvances
  <2> QED
    BY <1>9, <2>2 DEF DequeueAdvances, producerVars, F!vars
<1>10. CASE DequeueReleases
  <2>1. F!Dequeue
    BY <1>10, ReleaseRemoves DEF F!Dequeue, DequeueReleases, producerVars
  <2> QED
    BY <2>1 DEF F!Next
<1> QED
  BY <1>2, <1>3, <1>4, <1>5, <1>6, <1>7, <1>8, <1>9, <1>10 DEF Next, Producer, Consumer, F!Next

(* RingBuffer is a bounded first-in first-out queue whose two operations   *)
(* take effect at once: enqueue when it raises len, dequeue when it lowers *)
(* it.                                                                     *)
THEOREM RingImplementsFifo == Spec => ImplementsFifo
<1>1. Init => F!Init
  <2> SUFFICES ASSUME Init PROVE F!Init
    OBVIOUS
  <2>1. Contents = <<>>
    BY RingInit, ContentsAre DEF Init, ContentsShape
  <2> QED
    BY <2>1 DEF Init, F!Init
<1>2. RingInv /\ [Next]_vars => [F!Next]_F!vars
  BY RefinesStep
<1> QED
  BY <1>1, <1>2, RingCorrect, PTL DEF Spec, ImplementsFifo, F!Spec
=============================================================================
