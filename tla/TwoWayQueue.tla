---------------------------- MODULE TwoWayQueue ----------------------------
(***************************************************************************)
(* UfoTwoWayQueue (ufo/ufo-two-way-queue.c): the pair of asynchronous      *)
(* queues over which every edge of a task graph recycles its buffers.  The *)
(* producer takes an empty buffer from free, fills it and puts it on full; *)
(* the consumer takes it from full, reads it and puts it back on free.     *)
(*                                                                         *)
(* A pop of an empty GAsyncQueue blocks the calling thread: here the       *)
(* action is not enabled.  The queue itself never limits a push; what      *)
(* bounds an edge is that only `capacity' buffers were ever inserted.      *)
(*                                                                         *)
(* All queues of a run are kept together, indexed by Queue.  The n-th      *)
(* buffer inserted into queue q is the pair <<q, n>>, so a buffer that     *)
(* ends up in a queue it was not inserted into is recognisable.            *)
(***************************************************************************)
EXTENDS Naturals, Sequences

CONSTANTS
    Queue,        (* the two-way queues of the run                           *)
    EndOfStream   (* UFO_END_OF_STREAM, the marker that closes a stream      *)

VARIABLES
    free,         (* producer_queue: buffers the producer may fill           *)
    full,         (* consumer_queue: filled buffers and end markers          *)
    capacity      (* number of buffers inserted so far                       *)

queueVars == <<free, full, capacity>>

InitQueues ==
    /\ free = [q \in Queue |-> <<>>]
    /\ full = [q \in Queue |-> <<>>]
    /\ capacity = [q \in Queue |-> 0]

----------------------------------------------------------------------------
(* Both schedulers that use the queue allocate lazily: a buffer is         *)
(* inserted only while fewer than `limit' exist, and the insertion is      *)
(* immediately followed by a pop.  Grown(q, limit) is what the producer    *)
(* queue holds between the two; its head is the buffer the pop returns.    *)
(*                                                                         *)
(* A definition whose name extends that of the definition below it, here   *)
(* and in the modules to come, is a faulty variant: no specification uses  *)
(* it, and a property that matters has to fail with it.                    *)

GrownByOneTooMany(q, limit) ==
    IF capacity[q] <= limit THEN Append(free[q], <<q, capacity[q] + 1>>) ELSE free[q]

Grown(q, limit) ==
    IF capacity[q] < limit THEN Append(free[q], <<q, capacity[q] + 1>>) ELSE free[q]

ProducerPop(q, limit) ==
    /\ Grown(q, limit) # <<>>
    /\ free' = [free EXCEPT ![q] = Tail(Grown(q, limit))]
    /\ capacity' = [capacity EXCEPT ![q] = IF @ < limit THEN @ + 1 ELSE @]

ProducerPushFront(q, items) ==
    full' = [full EXCEPT ![q] = items \o @]

ProducerPush(q, items) ==
    full' = [full EXCEPT ![q] = @ \o items]

ConsumerPop(q) ==
    /\ full[q] # <<>>
    /\ full' = [full EXCEPT ![q] = Tail(@)]

ConsumerPushTwice(q, b) ==
    free' = [free EXCEPT ![q] = Append(Append(@, b), b)]

ConsumerPush(q, b) ==
    free' = [free EXCEPT ![q] = Append(@, b)]

=============================================================================
