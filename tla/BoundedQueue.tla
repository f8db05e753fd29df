---------------------------- MODULE BoundedQueue ----------------------------
(***************************************************************************)
(* What a FIFO promises: values leave in the order they came, none twice   *)
(* and none lost, never more than Capacity of them at a time.  A value     *)
(* offered to a full queue is not taken, even if another leaves with it.   *)
(***************************************************************************)
EXTENDS Naturals, Sequences

CONSTANTS Value, Capacity

VARIABLE queue

Full  == Len(queue) = Capacity
Empty == queue = <<>>

Put(v)    == ~Full /\ queue' = Append(queue, v)
Get       == ~Empty /\ queue' = Tail(queue)
PutGet(v) == ~Full /\ ~Empty /\ queue' = Append(Tail(queue), v)

QueueInit == queue = <<>>
QueueNext == Get \/ \E v \in Value : Put(v) \/ PutGet(v)
QueueSpec == QueueInit /\ [][QueueNext]_queue
=============================================================================
