--------------------------- MODULE FixedScheduler ---------------------------
(***************************************************************************)
(* The fixed scheduler (ufo/ufo-fixed-scheduler.c): one two-way queue per  *)
(* connection of the graph instead of groups.  A task has one loop for its *)
(* mode: generate_loop, process_loop (processors and sinks) or             *)
(* reduce_loop.  A task with several successors generates, or processes,   *)
(* once for each of them.                                                  *)
(*                                                                         *)
(* Threads, tags and histories are those of module Scheduler; the grain is *)
(* coarser.  Only pops can block and only one thread pushes to each side   *)
(* of a queue, so that an action is all the code from a pop, or from the   *)
(* reading of `aborted', to the next one, with the pushes in between.      *)
(***************************************************************************)
EXTENDS TwoWayQueue, FiniteSetsExt, Functions

CONSTANTS
    Task,
    Mode,        (* Mode[t]: "generator", "processor", "sink" or "reductor"  *)
    In,          (* In[t]: the queues that t reads, by port                  *)
    Out,         (* Out[t]: the queues that t writes, in connection order    *)
    MinItems,    (* how often generate of t returns TRUE, at least ...       *)
    MaxItems,    (*   ... and at most                                        *)
    MayFail,     (* tasks whose get_requisition may set an error             *)
    MayStop,     (* tasks whose process may return FALSE                     *)
    MayAbort,    (* whether the run may be aborted                           *)
    NullBuffer   (* what g_new0 leaves in inputs                             *)

VARIABLES
    pc, idx, finished, inputs, out, go, count, aborted, failed,
    data,        (* data[b]: the tag stored in buffer b                      *)
    held, log,   (* histories as in Scheduler: buffers popped and not yet    *)
                 (*   released, tags processed,                              *)
    sent, got    (*   tags that entered and left each queue                  *)

threadVars == <<pc, idx, finished, inputs, out, go, count>>
streams == <<sent, got>>
vars == <<queueVars, threadVars, aborted, failed, data, held, log, streams>>

NInputs(t) == Len(In[t])
NOutputs(t) == Len(Out[t])

(* pop_output_data inserts a buffer while there are fewer. *)
Limit == 2

Buffer == Queue \X (1..Limit)

(* A connection has a queue of its own, with one task at each end.         *)
(* reduce_loop stores all its queues at index 0 of output_queues and works *)
(* with exactly one successor only.                                        *)
ASSUME FixedAssumption ==
    /\ Mode \in [Task -> {"generator", "processor", "sink", "reductor"}]
    /\ In \in [Task -> Seq(Queue)]
    /\ Out \in [Task -> Seq(Queue)]
    /\ \A t \in Task : Mode[t] = "generator" <=> NInputs(t) = 0
    /\ \A t \in Task : Mode[t] = "sink" <=> NOutputs(t) = 0
    /\ \A t \in Task : Mode[t] = "reductor" => NOutputs(t) = 1
    /\ \A t \in Task : IsInjective(In[t]) /\ IsInjective(Out[t])
    /\ \A t, u \in Task : t # u =>
          Range(In[t]) \cap Range(In[u]) = {} /\ Range(Out[t]) \cap Range(Out[u]) = {}
    /\ MinItems \in [Task -> Nat] /\ MaxItems \in [Task -> Nat]
    /\ EndOfStream \notin Nat \cup Buffer
    /\ NullBuffer \notin Buffer

(* get, first, reget and flush are the call sites of pop_input_data. *)
Getting == {"get", "first", "reget", "flush"}

(* Where the loop of t begins. *)
Entry(t) == CASE Mode[t] = "generator" -> "popout"
              [] Mode[t] = "reductor"  -> "first"
              [] OTHER                 -> "get"

(* The threads of the tasks in `running' begin at entry; all other tasks   *)
(* are not part of the graph that is run.                                  *)
InitOf(running, entry) ==
    /\ InitQueues
    /\ pc = [t \in Task |-> IF t \in running THEN entry[t] ELSE "done"]
    /\ idx = [t \in Task |-> 1]
    /\ finished = [t \in Task |-> [i \in 1..NInputs(t) |-> t \notin running]]
    /\ inputs = [t \in Task |-> [i \in 1..NInputs(t) |-> NullBuffer]]
    /\ out = [t \in Task |-> NullBuffer]
    /\ go = [t \in Task |-> TRUE]
    /\ count = [t \in Task |-> 0]
    /\ aborted = FALSE
    /\ failed = {}
    /\ data = [b \in Buffer |-> 0]
    /\ held = [t \in Task |-> {}]
    /\ log = [t \in Task |-> <<>>]
    /\ sent = [q \in Queue |-> <<>>]
    /\ got = [q \in Queue |-> <<>>]

Init == InitOf(Task, [t \in Task |-> Entry(t)])

Value(b) == IF b \in Buffer THEN data[b] ELSE 0
Content(x) == IF x = EndOfStream THEN EndOfStream ELSE Value(x)

GoTo(t, where) ==
    /\ pc' = [pc EXCEPT ![t] = where]
    /\ idx' = [idx EXCEPT ![t] = 1]

----------------------------------------------------------------------------
(* pop_input_data and release_input_data *)

Pending(t) == {i \in idx[t]..NInputs(t) : ~ finished[t][i]}

PopInputClearing(t) ==
    LET i == Min(Pending(t))
        q == In[t][i]
        b == Head(full[q])
    IN  /\ pc[t] \in Getting
        /\ Pending(t) # {}
        /\ ConsumerPop(q)
        /\ got' = [got EXCEPT ![q] = Append(@, Content(b))]
        /\ finished' = [finished EXCEPT ![t][i] = (b = EndOfStream)]
        /\ inputs' = [inputs EXCEPT ![t][i] = IF b = EndOfStream THEN NullBuffer ELSE b]
        /\ held' = [held EXCEPT ![t] = @ \cup ({b} \ {EndOfStream})]
        /\ idx' = [idx EXCEPT ![t] = i + 1]
        /\ UNCHANGED <<free, capacity, pc, out, go, count, aborted, failed, data, log, sent>>

PopInput(t) ==
    LET i == Min(Pending(t))
        q == In[t][i]
        b == Head(full[q])
    IN  /\ pc[t] \in Getting
        /\ Pending(t) # {}
        /\ ConsumerPop(q)
        /\ got' = [got EXCEPT ![q] = Append(@, Content(b))]
        /\ IF b = EndOfStream
             THEN finished' = [finished EXCEPT ![t][i] = TRUE] /\ UNCHANGED <<inputs, held>>
             ELSE /\ inputs' = [inputs EXCEPT ![t][i] = b]
                  /\ held' = [held EXCEPT ![t] = @ \cup {b}]
                  /\ UNCHANGED finished
        /\ idx' = [idx EXCEPT ![t] = i + 1]
        /\ UNCHANGED <<free, capacity, pc, out, go, count, aborted, failed, data, log, sent>>

GotInputs(t, where) ==
    /\ pc[t] = where
    /\ Pending(t) = {}

AllFinished(t) == \A i \in 1..NInputs(t) : finished[t][i]

(* A queue does not take NULL, the pointer of an input that never had an   *)
(* item.                                                                   *)
Released(t) == {In[t][i] : i \in {j \in 1..NInputs(t) : inputs[t][j] # NullBuffer}}

ReleaseInputs(t) ==
    /\ free' = [q \in Queue |->
                   IF q \in Released(t)
                     THEN Append(free[q], inputs[t][CHOOSE i \in 1..NInputs(t) : In[t][i] = q])
                     ELSE free[q]]
    /\ held' = [held EXCEPT ![t] = @ \ Range(inputs[t])]

----------------------------------------------------------------------------
(* pop_output_data, pushes and finish_successors *)

OutQueue(t) == Out[t][idx[t]]

(* A reductor inserts a buffer for its first pop only, not for the pop     *)
(* after a push: its successor has one buffer to take turns with.          *)
Room(t) == IF pc[t] = "popout" THEN Limit ELSE 0

PopOut(t) ==
    /\ pc[t] \in {"popout", "repopout"}
    /\ ProducerPop(OutQueue(t), Room(t))
    /\ out' = [out EXCEPT ![t] = Head(Grown(OutQueue(t), Room(t)))]
    /\ pc' = [pc EXCEPT ![t] = IF @ = "repopout" THEN "regenerate"
                            ELSE CASE Mode[t] = "generator"  -> "generate"
                                   [] Mode[t] = "reductor"   -> "reduce"
                                   [] OTHER                  -> "process"]
    /\ UNCHANGED <<full, idx, finished, inputs, go, count, aborted, failed, data, held,
                   log, streams>>

(* The buffer is filled with an item and pushed. *)
PushItemAhead(t, item) ==
    /\ data' = [data EXCEPT ![out[t]] = item]
    /\ ProducerPushFront(OutQueue(t), <<out[t]>>)
    /\ sent' = [sent EXCEPT ![OutQueue(t)] = Append(@, item)]
    /\ UNCHANGED got

PushItem(t, item) ==
    /\ data' = [data EXCEPT ![out[t]] = item]
    /\ ProducerPush(OutQueue(t), <<out[t]>>)
    /\ sent' = [sent EXCEPT ![OutQueue(t)] = Append(@, item)]
    /\ UNCHANGED got

LastOutputAtOnce(t) == TRUE
LastOutput(t) == idx[t] = NOutputs(t)

NextOutput(t) ==
    /\ pc' = [pc EXCEPT ![t] = "popout"]
    /\ idx' = [idx EXCEPT ![t] = IF LastOutput(t) THEN 1 ELSE @ + 1]

LeaveFirst(t) ==
    /\ full' = [q \in Queue |->
                   IF Out[t] # <<>> /\ q = Out[t][1] THEN Append(full[q], EndOfStream) ELSE full[q]]
    /\ sent' = [q \in Queue |->
                   IF Out[t] # <<>> /\ q = Out[t][1] THEN Append(sent[q], EndOfStream) ELSE sent[q]]
    /\ GoTo(t, "done")
    /\ UNCHANGED got

(* finish_successors *)
Leave(t) ==
    /\ full' = [q \in Queue |->
                   IF q \in Range(Out[t]) THEN Append(full[q], EndOfStream) ELSE full[q]]
    /\ sent' = [q \in Queue |->
                   IF q \in Range(Out[t]) THEN Append(sent[q], EndOfStream) ELSE sent[q]]
    /\ GoTo(t, "done")
    /\ UNCHANGED got

----------------------------------------------------------------------------
(* generate_loop: requisition, buffer and item for one successor at a time *)

(* generate returns FALSE, or TRUE although the run has been aborted: then *)
(* the item is in the buffer, but it is dropped.                           *)
NoMore(t) ==
    \/ /\ count[t] >= MinItems[t]
       /\ UNCHANGED <<count, data>>
    \/ /\ count[t] < MaxItems[t] /\ aborted
       /\ count' = [count EXCEPT ![t] = @ + 1]
       /\ data' = [data EXCEPT ![out[t]] = count[t] + 1]

Generate(t) ==
    /\ pc[t] = "generate"
    /\ \/ /\ count[t] < MaxItems[t] /\ ~ aborted
          /\ count' = [count EXCEPT ![t] = @ + 1]
          /\ PushItem(t, count[t] + 1)
          /\ NextOutput(t)
       \/ NoMore(t) /\ Leave(t)
    /\ UNCHANGED <<free, capacity, finished, inputs, out, go, aborted, failed, held, log>>

FailGenerator(t) ==
    /\ t \in MayFail /\ Mode[t] = "generator" /\ pc[t] = "popout"
    /\ failed' = failed \cup {t}
    /\ Leave(t)
    /\ UNCHANGED <<free, capacity, finished, inputs, out, go, count, aborted, data, held, log>>

----------------------------------------------------------------------------
(* process_loop *)

GetRound(t) ==
    /\ GotInputs(t, "get")
    /\ IF AllFinished(t) \/ aborted
         THEN Leave(t)
         ELSE /\ GoTo(t, IF Mode[t] = "sink" THEN "process" ELSE "popout")
              /\ UNCHANGED <<full, streams>>
    /\ UNCHANGED <<free, capacity, finished, inputs, out, go, count, aborted, failed, data,
                   held, log>>

Consume(t) ==
    log' = [log EXCEPT ![t] = Append(@, [i \in 1..NInputs(t) |-> Value(inputs[t][i])])]

(* process for one successor, or of a sink.  After the last one the inputs *)
(* are released, and also if process returned FALSE, which ends the loop.  *)
ProcessSink(t) ==
    /\ pc[t] = "process" /\ Mode[t] = "sink"
    /\ Consume(t)
    /\ ReleaseInputs(t)
    /\ \/ GoTo(t, "get")
       \/ t \in MayStop /\ GoTo(t, "done")
    /\ UNCHANGED <<full, capacity, finished, inputs, out, go, count, aborted, failed, data,
                   streams>>

AfterOutputReleasing(t) ==
    /\ ReleaseInputs(t)
    /\ IF LastOutput(t) THEN GoTo(t, "get") ELSE NextOutput(t)

AfterOutput(t) ==
    IF LastOutput(t) THEN GoTo(t, "get") /\ ReleaseInputs(t)
                     ELSE NextOutput(t) /\ UNCHANGED <<free, held>>

Process(t) ==
    /\ pc[t] = "process" /\ Mode[t] = "processor"
    /\ Consume(t)
    /\ \/ /\ PushItem(t, Value(inputs[t][1]))
          /\ AfterOutput(t)
       \/ /\ t \in MayStop
          /\ data' = [data EXCEPT ![out[t]] = Value(inputs[t][1])]
          /\ ReleaseInputs(t)
          /\ Leave(t)
    /\ UNCHANGED <<capacity, finished, inputs, out, go, count, aborted, failed>>

(* get_requisition sets an error: the input is drained, in reduce_loop too. *)
Fail(t) ==
    /\ t \in MayFail
    /\ \/ GotInputs(t, "get") /\ ~ aborted
       \/ GotInputs(t, "first")
    /\ ~ AllFinished(t)
    /\ failed' = failed \cup {t}
    /\ GoTo(t, "flush")
    /\ UNCHANGED <<queueVars, finished, inputs, out, go, count, aborted, data, held, log,
                   streams>>

Flush(t) ==
    /\ GotInputs(t, "flush")
    /\ IF AllFinished(t)
         THEN Leave(t) /\ UNCHANGED <<free, held>>
         ELSE ReleaseInputs(t) /\ GoTo(t, "flush") /\ UNCHANGED <<full, streams>>
    /\ UNCHANGED <<capacity, finished, inputs, out, go, count, aborted, failed, data, log>>

----------------------------------------------------------------------------
(* reduce_loop *)

(* A reductor whose stream is empty returns at once, without end markers.  *)
FirstRound(t) ==
    /\ GotInputs(t, "first")
    /\ GoTo(t, IF AllFinished(t) THEN "done" ELSE "popout")
    /\ UNCHANGED <<queueVars, finished, inputs, out, go, count, aborted, failed, data, held,
                   log, streams>>

(* The output buffer is what process works in: there is no item in it then. *)
Accumulate(t) == data' = [data EXCEPT ![out[t]] = 0]

(* process asks for more (go), or wants to generate first. *)
Reduce(t) ==
    /\ pc[t] = "reduce"
    /\ Consume(t)
    /\ Accumulate(t)
    /\ \E r \in BOOLEAN :
          /\ r \/ t \in MayStop
          /\ go' = [go EXCEPT ![t] = r]
    /\ ReleaseInputs(t)
    /\ GoTo(t, "reget")
    /\ UNCHANGED <<full, capacity, finished, inputs, out, count, aborted, failed, streams>>

Reget(t) ==
    /\ GotInputs(t, "reget")
    /\ GoTo(t, IF go[t] /\ ~ AllFinished(t) /\ ~ aborted THEN "reduce" ELSE "regenerate")
    /\ UNCHANGED <<queueVars, finished, inputs, out, go, count, aborted, failed, data, held,
                   log, streams>>

Regenerate(t) ==
    /\ pc[t] = "regenerate"
    /\ \/ /\ count[t] < MaxItems[t] /\ ~ aborted
          /\ count' = [count EXCEPT ![t] = @ + 1]
          /\ PushItem(t, count[t] + 1)
          /\ GoTo(t, "repopout")
       \/ /\ NoMore(t)
          /\ IF AllFinished(t)
               THEN Leave(t)
               ELSE GoTo(t, "reduce") /\ UNCHANGED <<full, streams>>
    /\ UNCHANGED <<free, capacity, finished, inputs, out, go, aborted, failed, held, log>>

----------------------------------------------------------------------------
Run(t) ==
    \/ PopInput(t) \/ PopOut(t) \/ Generate(t) \/ FailGenerator(t) \/ GetRound(t)
    \/ ProcessSink(t) \/ Process(t) \/ Fail(t) \/ Flush(t) \/ FirstRound(t) \/ Reduce(t)
    \/ Reget(t) \/ Regenerate(t)

AllDone == \A t \in Task : pc[t] = "done"

Abort ==
    /\ MayAbort /\ ~ aborted /\ ~ AllDone
    /\ aborted' = TRUE
    /\ UNCHANGED <<queueVars, threadVars, failed, data, held, log, streams>>

Joined == AllDone /\ UNCHANGED vars

Next == Abort \/ Joined \/ \E t \in Task : Run(t)

Spec == Init /\ [][Next]_vars

----------------------------------------------------------------------------
(* Properties *)

(* Nothing is behind the end marker of a history. *)
Items(history) ==
    IF history # <<>> /\ history[Len(history)] = EndOfStream
      THEN SubSeq(history, 1, Len(history) - 1) ELSE history

HoldsOutput(t) ==
    /\ Mode[t] # "sink"
    /\ pc[t] \in {"generate", "process", "reduce", "reget", "regenerate"}

(* A buffer of a stream that is still open waits, is being filled, is in   *)
(* flight or is being read, and is in its queue at most once.              *)
Exclusive ==
    LET filling == {out[t] : t \in {u \in Task : HoldsOutput(u)}}
        reading == UNION {held[t] : t \in Task}
        Flying(q) == Range(full[q]) \ {EndOfStream}
    IN  /\ filling \cap reading = {}
        /\ \A q \in {r \in Queue : EndOfStream \notin Range(got[r])} :
              /\ IsInjective(free[q]) /\ IsInjective(full[q])
              /\ Range(free[q]) \cap Flying(q) = {}
              /\ (Range(free[q]) \cup Flying(q)) \cap (filling \cup reading) = {}

(* A task with several successors that copies its input, as the copy task  *)
(* does, sends all of them the same items: at any time one of them may be  *)
(* one item ahead, and when it has finished its input none is.             *)
SameData ==
    \A t \in Task : Mode[t] = "processor" =>
        \A j \in 2..NOutputs(t) : \A i \in 1..j - 1 :
            LET a == Items(sent[Out[t][i]])
                b == Items(sent[Out[t][j]])
            IN  /\ \A k \in DOMAIN a \cap DOMAIN b : a[k] = b[k]
                /\ Len(b) \in {Len(a), Len(a) - 1}
                /\ pc[t] = "done" /\ AllFinished(t) => Len(a) = Len(b)

(* t has left although more input may come to it. *)
Quit(t) == pc[t] = "done" /\ ~ AllFinished(t)

(* The producer of q may have written to a buffer of q behind its last     *)
(* item: an item that was dropped, since the run was aborted or process    *)
(* returned FALSE, or what a reductor read after it had generated.         *)
WrittenBehind(q) ==
    \/ aborted
    \/ \E p \in Task :
          /\ q \in Range(Out[p])
          /\ Quit(p) \/ (Mode[p] = "reductor" /\ p \in MayStop)

(* The k-th call of process gets the k-th item of every input, or the last *)
(* one of an input that has ended, although its buffer was given back long *)
(* before, unless its producer has written to it since.                    *)
InputsAligned ==
    \A t \in Task : NOutputs(t) <= 1 =>
        \A k \in DOMAIN log[t] : \A i \in 1..NInputs(t) :
            LET items == Items(got[In[t][i]])
            IN  items # <<>> /\ (k <= Len(items) \/ ~ WrittenBehind(In[t][i])) =>
                    log[t][k][i] = items[IF k <= Len(items) THEN k ELSE Len(items)]

(* Every connection is a reliable, ordered stream of at most two items.    *)
Connection(q) == INSTANCE Stream WITH
                     Item <- Nat, End <- EndOfStream, Bound <- Limit,
                     sent <- sent[q], received <- got[q]

StreamSpec ==
    /\ \A q \in Queue : Connection(q)!Init
    /\ [][\A q \in Queue :
            [Connection(q)!Next]_(Connection(q)!streamVars)]_<<sent, got>>

(* t waits for the other side of a queue. *)
Waits(t) ==
    \/ /\ pc[t] \in Getting /\ Pending(t) # {}
       /\ full[In[t][Min(Pending(t))]] = <<>>
    \/ /\ pc[t] \in {"popout", "repopout"}
       /\ Grown(OutQueue(t), Room(t)) = <<>>

(* A generator that fails may have sent an empty stream. *)
GeneratorFailed == \E t \in failed : Mode[t] = "generator"

(* A task that fails keeps the inputs of its round.  From a reductor that  *)
(* is the only buffer.                                                     *)
ReductorStarved ==
    \E t \in Task : Mode[t] = "reductor" /\ pc[t] = "repopout"
        /\ \E u \in failed : Range(inputs[u]) \cap held[u] # {} /\ OutQueue(t) \in Range(In[u])

(* Tasks do not wait for each other for ever unless the run was aborted, a *)
(* generator or the successor of a reductor failed, or some process        *)
(* returned FALSE: with the two buffers of a connection, and the one of a  *)
(* reductor's, a run goes on until all have left, and the end of an empty  *)
(* stream reaches every task, even through a reductor, as it does with the *)
(* other scheduler.                                                        *)
NoHang ==
    (\A t \in Task : pc[t] = "done" \/ Waits(t)) =>
        \/ AllDone \/ aborted \/ GeneratorFailed \/ ReductorStarved
        \/ \E t \in Task : Quit(t)

=============================================================================
