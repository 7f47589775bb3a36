---------------------------- MODULE BoundedFifo ----------------------------
(***************************************************************************)
(* What RingBuffer in reference-rs/src/ipc.rs promises its two callers: a  *)
(* first-in first-out queue of at most Capacity messages, on which enqueue *)
(* and dequeue happen in one step each, and fail only when the queue is    *)
(* full, or empty, at that step.                                           *)
(***************************************************************************)
EXTENDS Naturals, Sequences

CONSTANTS Message, Capacity

VARIABLES queue,
          sent,      \* What the last enqueue returned.
          received   \* What the last dequeue returned.

vars == <<queue, sent, received>>

Init == queue = <<>> /\ sent = "nothing" /\ received = "nothing"

Enqueue(m) ==
  /\ Len(queue) < Capacity
  /\ queue' = Append(queue, m)
  /\ sent' = "Ok"
  /\ UNCHANGED received

EnqueueFails ==
  /\ Len(queue) = Capacity
  /\ sent' = "QueueFull"
  /\ UNCHANGED <<queue, received>>

Dequeue ==
  /\ queue # <<>>
  /\ queue' = Tail(queue)
  /\ received' = Head(queue)
  /\ UNCHANGED sent

DequeueFails ==
  /\ queue = <<>>
  /\ received' = "QueueEmpty"
  /\ UNCHANGED <<queue, sent>>

Next == (\E m \in Message : Enqueue(m)) \/ EnqueueFails \/ Dequeue \/ DequeueFails

Spec == Init /\ [][Next]_vars
=============================================================================
