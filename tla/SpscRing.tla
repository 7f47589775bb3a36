------------------------------ MODULE SpscRing ------------------------------
(***************************************************************************)
(* RingBuffer of reference-rs/src/ipc.rs under one producer thread and one *)
(* consumer thread, one step per access to what they share.                *)
(*                                                                         *)
(* The atomics are taken in one global order.  That is all their orderings *)
(* give and all the code uses: write_index and read_index belong to one    *)
(* thread each, and every other access hangs on len, whose loads acquire   *)
(* and whose read-modify-writes release.  The slots are plain memory: two  *)
(* accesses to one slot that nothing orders would be a data race, which    *)
(* NoDataRace excludes.                                                    *)
(***************************************************************************)
EXTENDS Integers

CONSTANTS Message,   \* What may be sent.
          Capacity,
          USIZE      \* How many values a usize has: the indices wrap there.

(* Indices that wrap in the middle of the ring would jump to another slot, *)
(* so Capacity has to divide USIZE (the kernel uses 4); any other capacity *)
(* works until USIZE messages have passed.                                 *)
ASSUME RingAssumption ==
  /\ Capacity \in Nat \ {0} /\ USIZE \in Nat /\ USIZE > Capacity
  /\ USIZE % Capacity = 0
  /\ {"None", "nothing", "QueueEmpty"} \cap Message = {}

VARIABLES
  slots, write_index, read_index, len,
  ppc, message,      \* The producer: where it is in enqueue, and its argument.
  cpc, taken,        \* The consumer: where it is in dequeue, and what it took.
  sent, received     \* What the last enqueue and the last dequeue returned.

producerVars == <<write_index, ppc, message, sent>>
consumerVars == <<read_index, cpc, taken, received>>
vars == <<slots, len, producerVars, consumerVars>>

SlotIndex == 0 .. Capacity - 1

Init ==
  /\ slots = [i \in SlotIndex |-> "None"]
  /\ write_index = 0 /\ read_index = 0 /\ len = 0
  /\ ppc = "idle" /\ message = "None" /\ sent = "nothing"
  /\ cpc = "idle" /\ taken = "None" /\ received = "nothing"

----------------------------------------------------------------------------
(* enqueue.  Variant: the ring takes one message too many. *)
EnqueueChecksTooLate(m) ==
  /\ ppc = "idle"
  /\ \/ len > Capacity /\ sent' = "QueueFull" /\ UNCHANGED <<ppc, message>>
     \/ len <= Capacity /\ ppc' = "write" /\ message' = m /\ UNCHANGED sent
  /\ UNCHANGED <<slots, len, write_index, consumerVars>>

EnqueueChecks(m) ==
  /\ ppc = "idle"
  /\ \/ len >= Capacity /\ sent' = "QueueFull" /\ UNCHANGED <<ppc, message>>
     \/ len < Capacity /\ ppc' = "write" /\ message' = m /\ UNCHANGED sent
  /\ UNCHANGED <<slots, len, write_index, consumerVars>>

(* Variant: the message goes to the slot len counts to, right until the    *)
(* consumer has moved on.                                                  *)
EnqueueWritesAtLen ==
  /\ ppc = "write"
  /\ slots' = [slots EXCEPT ![len % Capacity] = message]
  /\ ppc' = "advance"
  /\ UNCHANGED <<len, write_index, message, sent, consumerVars>>

EnqueueWrites ==
  /\ ppc = "write"
  /\ slots' = [slots EXCEPT ![write_index % Capacity] = message]
  /\ ppc' = "advance"
  /\ UNCHANGED <<len, write_index, message, sent, consumerVars>>

EnqueueAdvances ==
  /\ ppc = "advance"
  /\ write_index' = (write_index + 1) % USIZE
  /\ ppc' = "publish"
  /\ UNCHANGED <<slots, len, message, sent, consumerVars>>

EnqueuePublishes ==
  /\ ppc = "publish"
  /\ len' = (len + 1) % USIZE
  /\ ppc' = "idle" /\ message' = "None" /\ sent' = "Ok"
  /\ UNCHANGED <<slots, write_index, consumerVars>>

----------------------------------------------------------------------------
(* dequeue. *)
DequeueChecks ==
  /\ cpc = "idle"
  /\ \/ len = 0 /\ received' = "QueueEmpty" /\ UNCHANGED cpc
     \/ len # 0 /\ cpc' = "take" /\ UNCHANGED received
  /\ UNCHANGED <<slots, len, read_index, taken, producerVars>>

DequeueTakes ==
  /\ cpc = "take"
  /\ taken' = slots[read_index % Capacity]
  /\ slots' = [slots EXCEPT ![read_index % Capacity] = "None"]
  /\ cpc' = "advance"
  /\ UNCHANGED <<len, read_index, received, producerVars>>

DequeueAdvances ==
  /\ cpc = "advance"
  /\ read_index' = (read_index + 1) % USIZE
  /\ cpc' = "release"
  /\ UNCHANGED <<slots, len, taken, received, producerVars>>

(* Variant: the slot is never given back. *)
DequeueKeepsSlot ==
  /\ cpc = "release"
  /\ received' = IF taken = "None" THEN "QueueEmpty" ELSE taken
  /\ cpc' = "idle" /\ taken' = "None"
  /\ UNCHANGED <<slots, len, read_index, producerVars>>

DequeueReleases ==
  /\ cpc = "release"
  /\ len' = (len - 1) % USIZE
  /\ received' = IF taken = "None" THEN "QueueEmpty" ELSE taken
  /\ cpc' = "idle" /\ taken' = "None"
  /\ UNCHANGED <<slots, read_index, producerVars>>

----------------------------------------------------------------------------
Producer == (\E m \in Message : EnqueueChecks(m)) \/ EnqueueWrites \/ EnqueueAdvances \/ EnqueuePublishes
Consumer == DequeueChecks \/ DequeueTakes \/ DequeueAdvances \/ DequeueReleases

Next == Producer \/ Consumer

Spec == Init /\ [][Next]_vars

(* Two threads that try again when the ring is full, or empty, as those of *)
(* the module's concurrent test do.                                        *)
FairSpec == Spec /\ WF_vars(Producer) /\ WF_vars(Consumer)

----------------------------------------------------------------------------
(* The two SAFETY comments of the code: producer and consumer are never    *)
(* about to access the same slot, so no access to a slot races another.    *)
NoDataRace == ~ (ppc = "write" /\ cpc = "take" /\ write_index % Capacity = read_index % Capacity)

(* The messages the ring holds, oldest first.  The oldest is in the        *)
(* consumer's hands between its take and its release.                      *)
Contents ==
  LET first == IF cpc = "release" THEN read_index - 1 ELSE read_index
  IN  [i \in 1 .. len |->
         IF i = 1 /\ cpc \in {"advance", "release"} THEN taken
         ELSE slots[((first + i - 1) % USIZE) % Capacity]]

F == INSTANCE BoundedFifo WITH queue <- Contents

(* Both operations are atomic as far as anyone can tell: messages come out *)
(* once each and in order, QueueFull and QueueEmpty are only returned when *)
(* they are true, also while the indices wrap.                             *)
ImplementsFifo == F!Spec

(* Neither thread is turned away for ever: a full ring is drained and an   *)
(* empty one filled.                                                       *)
NeitherStuck ==
  /\ sent = "QueueFull" ~> sent = "Ok"
  /\ received = "QueueEmpty" ~> received \in Message
=============================================================================
