--------------------------- MODULE GroupScheduler ---------------------------
(***************************************************************************)
(* The group scheduler (ufo/ufo-group-scheduler.c).  A group is a task of  *)
(* the graph together with its copies on other GPUs.  One thread serves a  *)
(* group, and has its members take turns, so that a group counts as one    *)
(* task here; it writes one two-way queue and reads those of its parents.  *)
(*                                                                         *)
(* State, tags and histories are those of FixedScheduler, and its          *)
(* properties are meant for these threads too.  There is no abort, and an  *)
(* error of get_requisition is collected but stops nothing.                *)
(***************************************************************************)
EXTENDS FixedScheduler

TG == INSTANCE TaskGraph

(* build_group_graph: the queue of a group is named after its task.  The   *)
(* parents of a group are in the order in which they were connected,       *)
(* whatever inputs they were connected to.                                 *)
GroupQueue(t) == <<t, 1>>

GroupIn(g, t) ==
    [i \in DOMAIN TG!Predecessors(g, t) |-> GroupQueue(TG!Predecessors(g, t)[i])]

GroupOut(g, t) == IF TG!Successors(g, t) = <<>> THEN <<>> ELSE <<GroupQueue(t)>>

IsLeaf(t) == Out[t] = <<>>

(* All loops begin by fetching data from the parents, of which generators  *)
(* have none.                                                              *)
GroupEntry(t) == IF Mode[t] = "generator" THEN "popout" ELSE "get"

----------------------------------------------------------------------------
(* pop_input_data: the first end marker ends the loop at once.  What was   *)
(* popped from earlier inputs in this round is neither processed nor       *)
(* released.                                                               *)

GroupPop(t) ==
    LET i == Min(Pending(t))
        q == In[t][i]
        b == Head(full[q])
    IN  /\ pc[t] \in {"get", "reget"}
        /\ Pending(t) # {}
        /\ full[q] # <<>>
        /\ IF b = EndOfStream
             THEN /\ finished' = [finished EXCEPT ![t][i] = TRUE]
                  /\ UNCHANGED <<inputs, held>>
                  /\ IF pc[t] = "reget" THEN GoTo(t, "regenerate") ELSE GoTo(t, "leave")
             ELSE /\ inputs' = [inputs EXCEPT ![t][i] = b]
                  /\ held' = [held EXCEPT ![t] = @ \cup {b}]
                  /\ idx' = [idx EXCEPT ![t] = i + 1]
                  /\ UNCHANGED <<finished, pc>>
        /\ ConsumerPop(q)
        /\ got' = [got EXCEPT ![q] = Append(@, Content(b))]
        /\ UNCHANGED <<free, capacity, out, go, count, aborted, failed, data, log, sent>>

(* The end marker for the one queue of the group. *)
GroupLeave(t) ==
    /\ pc[t] = "leave"
    /\ Leave(t)
    /\ UNCHANGED <<free, capacity, finished, inputs, out, go, count, aborted, failed, data,
                   held, log>>

(* All inputs are there: get_requisition, and an output unless the group   *)
(* is a leaf.                                                              *)
Working(t) == CASE Mode[t] = "generator" -> "generate"
                [] Mode[t] = "reductor"  -> "reduce"
                [] OTHER                 -> "process"

GroupRound(t) ==
    /\ GotInputs(t, "get")
    /\ GoTo(t, IF IsLeaf(t) THEN Working(t) ELSE "popout")
    /\ UNCHANGED <<queueVars, finished, inputs, out, go, count, aborted, failed, data, held,
                   log, streams>>

GroupPopOut(t) ==
    /\ pc[t] \in {"popout", "repopout"}
    /\ ProducerPop(OutQueue(t), Room(t))
    /\ out' = [out EXCEPT ![t] = Head(Grown(OutQueue(t), Room(t)))]
    /\ pc' = [pc EXCEPT ![t] = IF @ = "repopout" THEN "regenerate" ELSE Working(t)]
    /\ UNCHANGED <<full, idx, finished, inputs, go, count, aborted, failed, data, held,
                   log, streams>>

(* run_generator_or_processor, for all modes but reductors; an output is   *)
(* pushed only if the task stays active, and the inputs are released in    *)
(* any case.                                                               *)
GroupGenerate(t) ==
    /\ pc[t] = "generate"
    /\ \/ /\ count[t] < MaxItems[t]
          /\ count' = [count EXCEPT ![t] = @ + 1]
          /\ PushItem(t, count[t] + 1)
          /\ GoTo(t, GroupEntry(t))
       \/ /\ count[t] >= MinItems[t]
          /\ GoTo(t, "leave")
          /\ UNCHANGED <<count, data, full, streams>>
    /\ UNCHANGED <<free, capacity, finished, inputs, out, go, aborted, failed, held, log>>

GroupProcess(t) ==
    /\ pc[t] = "process" /\ Mode[t] = "processor"
    /\ Consume(t)
    /\ ReleaseInputs(t)
    /\ \/ /\ ~ IsLeaf(t)
          /\ PushItem(t, Value(inputs[t][1]))
          /\ GoTo(t, "get")
       \/ /\ t \in MayStop
          /\ GoTo(t, "leave")
          /\ UNCHANGED <<data, full, streams>>
    /\ UNCHANGED <<capacity, finished, inputs, out, go, count, aborted, failed>>

(* There is no case for a sink: it is taken for a task that has finished,  *)
(* with the first data it gets.                                            *)
GroupSink(t) ==
    /\ pc[t] = "process" /\ Mode[t] = "sink"
    /\ ReleaseInputs(t)
    /\ GoTo(t, "leave")
    /\ UNCHANGED <<full, capacity, finished, inputs, out, go, count, aborted, failed, data, log,
                   streams>>

(* A reductor reads until its input ends, whatever process returns.        *)
GroupReduce(t) ==
    /\ \/ pc[t] = "reduce"
       \/ GotInputs(t, "reget")
    /\ Consume(t)
    /\ Accumulate(t)
    /\ ReleaseInputs(t)
    /\ GoTo(t, "reget")
    /\ UNCHANGED <<full, capacity, finished, inputs, out, go, count, aborted, failed, streams>>

GroupRegenerate(t) ==
    /\ pc[t] = "regenerate"
    /\ \/ /\ count[t] < MaxItems[t]
          /\ count' = [count EXCEPT ![t] = @ + 1]
          /\ PushItem(t, count[t] + 1)
          /\ GoTo(t, "repopout")
       \/ /\ count[t] >= MinItems[t]
          /\ GoTo(t, "leave")
          /\ UNCHANGED <<count, data, full, streams>>
    /\ UNCHANGED <<free, capacity, finished, inputs, out, go, aborted, failed, held, log>>

(* run_group *)
GroupRun(t) ==
    \/ GroupPop(t) \/ GroupLeave(t) \/ GroupRound(t) \/ GroupPopOut(t) \/ GroupGenerate(t)
    \/ GroupProcess(t) \/ GroupSink(t) \/ GroupReduce(t) \/ GroupRegenerate(t)

GroupNext == \E t \in Task : GroupRun(t)

=============================================================================
