------------------------------- MODULE Group --------------------------------
(***************************************************************************)
(* UfoGroup (ufo/ufo-group.c): the output side of a task.  A group owns    *)
(* one two-way queue per target and distributes the buffers its task       *)
(* produces among them following the send pattern:                         *)
(*                                                                         *)
(*   scatter     each buffer goes to one target, round robin;              *)
(*   broadcast   every target gets each buffer, all but the first a copy;  *)
(*   sequential  a target gets the next NumExpected buffers and an end     *)
(*               marker, then the next target is served.                   *)
(*                                                                         *)
(* Queue <<t, k>> leads from task t to its k-th target.  Allocated buffers *)
(* carry a tag (data) that stands for their contents; sent and got are     *)
(* histories of the tags that entered and left each queue.                 *)
(***************************************************************************)
EXTENDS TwoWayQueue, Integers

CONSTANTS
    Task,         (* the task nodes of the graph                             *)
    Targets,      (* Targets[t]: the successors of t, in group order         *)
    Pattern,      (* Pattern[t]: "scatter", "broadcast" or "sequential"      *)
    NumExpected   (* NumExpected[q]: length of a sequential sub-stream, or -1 *)

VARIABLES
    current,      (* current[t]: the target that is served next              *)
    received,     (* received[t]: n_received of the group of t               *)
    data,         (* data[b]: the tag stored in buffer b                     *)
    sent,         (* sent[q]: history of the producer side of q              *)
    got           (* got[q]: history of the consumer side of q               *)

groupVars == <<current, received, data, sent, got>>

NTargets(t) == Len(Targets[t])

(* pop_or_alloc_buffer: a queue holds up to n_targets + 1 buffers. *)
Limit(t) == NTargets(t) + 1

TaskQueue == UNION {{<<t, k>> : k \in 1..NTargets(t)} : t \in Task}

Buffer == UNION {{<<q, n>> : n \in 1..Limit(q[1])} : q \in Queue}

Patterns == {"scatter", "broadcast", "sequential"}

ASSUME GroupAssumption ==
    /\ Targets \in [Task -> Seq(Task)]
    /\ Queue = TaskQueue
    /\ Pattern \in [Task -> Patterns]
    /\ NumExpected \in [Queue -> Int]
    /\ EndOfStream \notin Nat
    /\ EndOfStream \notin Buffer

InitGroups ==
    /\ InitQueues
    /\ current = [t \in Task |-> 1]
    /\ received = [t \in Task |-> 0]
    /\ data = [b \in Buffer |-> 0]
    /\ sent = [q \in Queue |-> <<>>]
    /\ got = [q \in Queue |-> <<>>]

(* What a reader finds behind a pointer: the tag of a buffer, 0 (the tag   *)
(* of no item) if the pointer was never assigned.                          *)
Value(b) == IF b \in Buffer THEN data[b] ELSE 0

Content(x) == IF x = EndOfStream THEN EndOfStream ELSE Value(x)

----------------------------------------------------------------------------
(* The producer's side *)

(* The queue that ufo_group_pop_output_buffer takes the buffer from. *)
OutQueue(t) ==
    IF Pattern[t] = "broadcast" THEN <<t, 1>> ELSE <<t, current[t]>>

NextTargetStays(t) == current[t]
NextTarget(t) == (current[t] % NTargets(t)) + 1

OutBuffer(t) == Head(Grown(OutQueue(t), Limit(t)))

PopOutput(t) == ProducerPop(OutQueue(t), Limit(t))

PushScatter(t, b) ==
    /\ Pattern[t] = "scatter"
    /\ ProducerPush(<<t, current[t]>>, <<b>>)
    /\ sent' = [sent EXCEPT ![<<t, current[t]>>] = Append(@, Value(b))]
    /\ current' = [current EXCEPT ![t] = NextTarget(t)]
    /\ received' = [received EXCEPT ![t] = @ + 1]
    /\ UNCHANGED <<free, capacity, data, got>>

(* The expected number of buffers closes the sub-stream of this target. *)
CompleteOneLate(t) == NumExpected[<<t, current[t]>>] = received[t]
Complete(t) == NumExpected[<<t, current[t]>>] = received[t] + 1

SubStreamUnclosed(t, x) == <<x>>
SubStream(t, x) == IF Complete(t) THEN <<x, EndOfStream>> ELSE <<x>>

PushSequential(t, b) ==
    LET q == <<t, current[t]>>
    IN  /\ Pattern[t] = "sequential"
        /\ ProducerPush(q, SubStream(t, b))
        /\ sent' = [sent EXCEPT ![q] = @ \o SubStream(t, Value(b))]
        /\ current' = [current EXCEPT ![t] = IF Complete(t) THEN NextTarget(t) ELSE @]
        /\ received' = [received EXCEPT ![t] = IF Complete(t) THEN 0 ELSE @ + 1]
        /\ UNCHANGED <<free, capacity, data, got>>

(* One round of the copying loop of a broadcast: target pos gets a copy of *)
(* b in a buffer of its own.  It blocks, with b in hand, while target pos  *)
(* has returned none.                                                      *)
PushCopyNotCopied(t, pos, b) ==
    LET q == <<t, pos>>
    IN  /\ Pattern[t] = "broadcast"
        /\ ProducerPop(q, Limit(t))
        /\ ProducerPush(q, <<b>>)
        /\ sent' = [sent EXCEPT ![q] = Append(@, Value(b))]
        /\ UNCHANGED <<current, received, data, got>>

PushCopy(t, pos, b) ==
    LET q == <<t, pos>>
        copy == Head(Grown(q, Limit(t)))
    IN  /\ Pattern[t] = "broadcast"
        /\ ProducerPop(q, Limit(t))
        /\ ProducerPush(q, <<copy>>)
        /\ data' = [data EXCEPT ![copy] = Value(b)]
        /\ sent' = [sent EXCEPT ![q] = Append(@, Value(b))]
        /\ UNCHANGED <<current, received, got>>

(* ... and when all copies are out the first target gets b itself. *)
PushOriginal(t, b) ==
    /\ Pattern[t] = "broadcast"
    /\ ProducerPush(<<t, 1>>, <<b>>)
    /\ sent' = [sent EXCEPT ![<<t, 1>>] = Append(@, Value(b))]
    /\ received' = [received EXCEPT ![t] = @ + 1]
    /\ UNCHANGED <<free, capacity, current, data, got>>

(* ufo_group_finish: one end marker for each target.  The pushes cannot    *)
(* block and no other thread pushes to these queues.                       *)
FinishTo(queues) ==
    /\ full' = [q \in Queue |-> IF q \in queues THEN Append(full[q], EndOfStream) ELSE full[q]]
    /\ sent' = [q \in Queue |-> IF q \in queues THEN Append(sent[q], EndOfStream) ELSE sent[q]]
    /\ UNCHANGED <<free, capacity, current, received, got>>

Finish(t) == FinishTo({q \in Queue : q[1] = t})

----------------------------------------------------------------------------
(* The consumer's side *)

InBuffer(q) == Head(full[q])

PopInputBufferReleased(q) ==
    /\ ConsumerPop(q)
    /\ free' = [free EXCEPT ![q] = IF InBuffer(q) = EndOfStream THEN @ ELSE Append(@, InBuffer(q))]
    /\ got' = [got EXCEPT ![q] = Append(@, Content(InBuffer(q)))]
    /\ UNCHANGED <<capacity, current, received, data, sent>>

PopInputBuffer(q) ==
    /\ ConsumerPop(q)
    /\ got' = [got EXCEPT ![q] = Append(@, Content(InBuffer(q)))]
    /\ UNCHANGED <<free, capacity, current, received, data, sent>>

PushInputBuffer(q, b) ==
    /\ ConsumerPush(q, b)
    /\ UNCHANGED <<full, capacity, current, received, data, sent, got>>

=============================================================================
