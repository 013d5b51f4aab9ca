----------------------------- MODULE Scheduler ------------------------------
(***************************************************************************)
(* The default scheduler (ufo/ufo-scheduler.c): ufo_scheduler_run starts   *)
(* one thread per task and every thread executes run_task.  The threads    *)
(* share nothing but the groups on the edges of the graph and the flag     *)
(* that ufo_scheduler_abort sets.                                          *)
(*                                                                         *)
(* A thread is a program counter pc[t] and the locals of run_task.  Every  *)
(* step that can block, and every access to a queue, is an action.  What   *)
(* the tasks' own functions do is left open: generate may stop after any   *)
(* number of items between MinItems and MaxItems, get_requisition may fail *)
(* for the tasks in MayFail, and process of the tasks in MayStop may       *)
(* return FALSE.                                                           *)
(***************************************************************************)
EXTENDS Group, FiniteSets, Functions

CONSTANTS
    Mode,        (* Mode[t]: "generator", "processor", "sink" or "reductor"  *)
    InQueues,    (* InQueues[t][i]: the in_groups list of input i of t       *)
    MinItems,    (* MinItems[t], MaxItems[t]: how often generate of t        *)
    MaxItems,    (*   returns TRUE                                           *)
    MayFail,     (* tasks whose get_requisition may set an error             *)
    MayStop,     (* tasks whose process may return FALSE                     *)
    MayAbort,    (* whether ufo_scheduler_abort may be called during the run *)
    NoBuffer     (* a pointer variable that was never assigned               *)

VARIABLES
    pc,          (* where in run_task the thread of t is                     *)
    idx,         (* loop counter of get_inputs, release_inputs, broadcast    *)
    finished,    (* finished[t][i]: input i has delivered its end marker     *)
    inputs,      (* inputs[t][i]: the last buffer popped from input i        *)
    cur,         (* cur[t][i]: position of input i in its in_groups list     *)
    out,         (* out[t]: the output buffer                                *)
    go,          (* go[t]: what process returned to the reductor's loop      *)
    count,       (* count[t]: how often generate of t returned TRUE          *)
    aborted,     (* priv->aborted                                            *)
    failed,      (* the tasks whose get_requisition has set an error         *)
    stopped,     (* stopped[t]: emissions of inputs_stopped by t             *)
    held,        (* held[t]: buffers t popped as input and has not released  *)
    log          (* log[t]: history of the tags t processed, one per input   *)

threadVars == <<pc, idx, finished, inputs, cur, out, go, count>>
ghostVars == <<stopped, held, log>>
vars == <<queueVars, groupVars, threadVars, aborted, failed, ghostVars>>

NInputs(t) == Len(InQueues[t])

(* ufo_task_node_get_current_in_group *)
InQueue(t, i) == InQueues[t][i][cur[t][i]]

Modes == {"generator", "processor", "sink", "reductor"}

(* What setup_tasks, setup_groups and correct_connections establish before *)
(* the threads are started.  Generators are the tasks without inputs, and  *)
(* ufo_task_graph_is_alright has the leaves of the graph be sinks.         *)
ASSUME SchedulerAssumption ==
    /\ Mode \in [Task -> Modes]
    /\ InQueues \in [Task -> Seq(Seq(Queue))]
    /\ \A t \in Task : Mode[t] = "generator" <=> NInputs(t) = 0
    /\ \A t \in Task : \A i \in 1..NInputs(t) : InQueues[t][i] # <<>>
    /\ \A t \in Task : Mode[t] # "sink" => NTargets(t) > 0
    /\ MinItems \in [Task -> Nat]
    /\ MaxItems \in [Task -> Nat]
    /\ NoBuffer # EndOfStream
    /\ NoBuffer \notin Buffer

(* An input is fed by groups that have its task as a target, and no queue  *)
(* is read in two places.                                                  *)
Place == UNION {UNION {{<<t, i, p>> : p \in DOMAIN InQueues[t][i]}
                         : i \in 1..NInputs(t)} : t \in Task}

ASSUME WiringAssumption ==
    /\ \A x \in Place :
          LET q == InQueues[x[1]][x[2]][x[3]] IN Targets[q[1]][q[2]] = x[1]
    /\ \A x, y \in Place :
          InQueues[x[1]][x[2]][x[3]] = InQueues[y[1]][y[2]][y[3]] => x = y

(* get, reget and flush are the three call sites of get_inputs. *)
Getting == {"get", "reget", "flush"}
Releasing == {"release", "rerelease", "flushrelease"}

PCs == Getting \cup Releasing \cup
       {"popout", "work", "push", "reduce", "regenerate", "repush", "repopout", "done"}

(* The tasks in `running' make up the graph of the run.  All others count  *)
(* as having left already; this lets one model hold several graphs.        *)
InitOf(running) ==
    /\ InitGroups
    /\ pc = [t \in Task |-> IF t \in running THEN "get" ELSE "done"]
    /\ idx = [t \in Task |-> 1]
    /\ finished = [t \in Task |-> [i \in 1..NInputs(t) |-> t \notin running]]
    /\ inputs = [t \in Task |-> [i \in 1..NInputs(t) |-> NoBuffer]]
    /\ cur = [t \in Task |-> [i \in 1..NInputs(t) |-> 1]]
    /\ out = [t \in Task |-> NoBuffer]
    /\ go = [t \in Task |-> TRUE]
    /\ count = [t \in Task |-> 0]
    /\ aborted = FALSE
    /\ failed = {}
    /\ stopped = [t \in Task |-> 0]
    /\ held = [t \in Task |-> {}]
    /\ log = [t \in Task |-> <<>>]

Init == InitOf(Task)

----------------------------------------------------------------------------
(* get_inputs: one buffer from each input that has not finished yet, each  *)
(* pop blocking.  idx[t] > NInputs(t) when the loop is over.               *)

(* The end marker leaves inputs[i] as it is. *)
NewInputCleared(old, popped) == IF popped = EndOfStream THEN NoBuffer ELSE popped
NewInput(old, popped) == IF popped = EndOfStream THEN old ELSE popped

PopInput(t) ==
    LET i == idx[t]
        q == InQueue(t, i)
        b == InBuffer(q)
    IN  /\ pc[t] \in Getting
        /\ i <= NInputs(t)
        /\ ~ finished[t][i]
        /\ PopInputBuffer(q)
        /\ IF b = EndOfStream
             THEN /\ finished' = [finished EXCEPT ![t][i] = TRUE]
                  /\ UNCHANGED held
             ELSE /\ held' = [held EXCEPT ![t] = @ \cup {b}]
                  /\ UNCHANGED finished
        /\ inputs' = [inputs EXCEPT ![t][i] = NewInput(@, b)]
        /\ idx' = [idx EXCEPT ![t] = i + 1]
        /\ UNCHANGED <<pc, cur, out, go, count, aborted, failed, stopped, log>>

SkipInput(t) ==
    /\ pc[t] \in Getting
    /\ idx[t] <= NInputs(t)
    /\ finished[t][idx[t]]
    /\ idx' = [idx EXCEPT ![t] = @ + 1]
    /\ UNCHANGED <<queueVars, groupVars, pc, finished, inputs, cur, out, go, count,
                   aborted, failed, ghostVars>>

GotInputs(t, where) ==
    /\ pc[t] = where
    /\ idx[t] > NInputs(t)

(* get_inputs returns FALSE when this holds. *)
AllFinished(t) ==
    /\ NInputs(t) > 0
    /\ \A i \in 1..NInputs(t) : finished[t][i]

(* What the threads and the run end with: end markers to every target. *)
Leave(t) ==
    /\ Finish(t)
    /\ pc' = [pc EXCEPT ![t] = "done"]
    /\ UNCHANGED <<idx, finished, inputs, cur, out, go>>

----------------------------------------------------------------------------
(* The head of the main loop *)

(* No more input, or aborted.  Buffers popped in this round stay held. *)
Stop(t) ==
    /\ GotInputs(t, "get")
    /\ AllFinished(t) \/ aborted
    /\ stopped' = [stopped EXCEPT ![t] = @ + 1]
    /\ Leave(t)
    /\ UNCHANGED <<count, aborted, failed, data, held, log>>

Proceed(t) ==
    /\ GotInputs(t, "get")
    /\ ~ AllFinished(t)
    /\ ~ aborted
    /\ pc' = [pc EXCEPT ![t] = IF Mode[t] = "sink" THEN "work" ELSE "popout"]
    /\ UNCHANGED <<queueVars, groupVars, idx, finished, inputs, cur, out, go, count,
                   aborted, failed, ghostVars>>

(* get_requisition sets an error: the loop is left with the inputs of this *)
(* round still held, and all but generators drain what is to come.         *)
Fail(t) ==
    /\ t \in MayFail
    /\ GotInputs(t, "get")
    /\ ~ AllFinished(t)
    /\ ~ aborted
    /\ failed' = failed \cup {t}
    /\ IF Mode[t] = "generator"
         THEN Leave(t) /\ UNCHANGED data
         ELSE /\ pc' = [pc EXCEPT ![t] = "flush"]
              /\ idx' = [idx EXCEPT ![t] = 1]
              /\ UNCHANGED <<queueVars, groupVars, finished, inputs, cur, out, go>>
    /\ UNCHANGED <<count, aborted, ghostVars>>

PopOut(t) ==
    /\ pc[t] \in {"popout", "repopout"}
    /\ PopOutput(t)
    /\ out' = [out EXCEPT ![t] = OutBuffer(t)]
    /\ pc' = [pc EXCEPT ![t] = CASE pc[t] = "repopout"   -> "regenerate"
                                 [] pc[t] = "popout"     ->
                                       IF Mode[t] = "reductor" THEN "reduce" ELSE "work"]
    /\ UNCHANGED <<full, groupVars, idx, finished, inputs, cur, go, count,
                   aborted, failed, ghostVars>>

----------------------------------------------------------------------------
(* The work of the four modes *)

MayGenerate(t) == count[t] < MaxItems[t]
MayEnd(t) == count[t] >= MinItems[t]

(* idx[t] counts the copies of a broadcast; target 1 comes last. *)
FirstCopy == 2

(* A generator's output is tagged with the number of the item, ... *)
Produce(t) ==
    /\ data' = [data EXCEPT ![out[t]] = count[t] + 1]
    /\ count' = [count EXCEPT ![t] = @ + 1]
    /\ idx' = [idx EXCEPT ![t] = FirstCopy]
    /\ UNCHANGED <<queueVars, current, received, sent, got, finished, inputs, cur,
                   out, go, aborted, failed, ghostVars>>

Generate(t) ==
    /\ Mode[t] = "generator"
    /\ pc[t] = "work"
    /\ \/ /\ MayGenerate(t)
          /\ pc' = [pc EXCEPT ![t] = "push"]
          /\ Produce(t)
       \/ /\ MayEnd(t)
          /\ Leave(t)
          /\ UNCHANGED <<count, aborted, failed, data, ghostVars>>

(* ... a processor's with the tag of its first input, which is dropped     *)
(* when process returns FALSE.                                             *)

Consume(t) ==
    log' = [log EXCEPT ![t] = Append(@, [i \in 1..NInputs(t) |-> Value(inputs[t][i])])]

Process(t) ==
    /\ Mode[t] \in {"processor", "sink"}
    /\ pc[t] = "work"
    /\ Consume(t)
    /\ data' = IF Mode[t] = "sink" THEN data
               ELSE [data EXCEPT ![out[t]] = Value(inputs[t][1])]
    /\ \/ /\ pc' = [pc EXCEPT ![t] = IF Mode[t] = "sink" THEN "release" ELSE "push"]
          /\ idx' = [idx EXCEPT ![t] = IF Mode[t] = "sink" THEN 1 ELSE FirstCopy]
          /\ UNCHANGED <<queueVars, current, received, sent, got, finished, inputs, cur,
                         out, go>>
       \/ /\ t \in MayStop
          /\ Leave(t)
    /\ UNCHANGED <<count, aborted, failed, stopped, held>>

(* The output buffer is what the process of a reductor works in: there is  *)
(* no item in it then.                                                     *)
Accumulate(t) == data' = [data EXCEPT ![out[t]] = 0]

(* The inner loop of a reductor: process, release the inputs, get the next *)
(* ones, and again while process returned TRUE and there were any.         *)
Reduce(t) ==
    /\ pc[t] = "reduce"
    /\ Consume(t)
    /\ Accumulate(t)
    /\ \E r \in BOOLEAN :
          /\ r \/ t \in MayStop
          /\ go' = [go EXCEPT ![t] = r]
    /\ pc' = [pc EXCEPT ![t] = "rerelease"]
    /\ idx' = [idx EXCEPT ![t] = 1]
    /\ UNCHANGED <<queueVars, current, received, sent, got, finished, inputs, cur, out,
                   count, aborted, failed, stopped, held>>

RegetOnlyOnce(t) ==
    /\ GotInputs(t, "reget")
    /\ stopped' = [stopped EXCEPT ![t] = IF AllFinished(t) THEN @ + 1 ELSE @]
    /\ pc' = [pc EXCEPT ![t] = "regenerate"]
    /\ UNCHANGED <<queueVars, groupVars, idx, finished, inputs, cur, out, go, count,
                   aborted, failed, held, log>>

Reget(t) ==
    /\ GotInputs(t, "reget")
    /\ stopped' = [stopped EXCEPT ![t] = IF AllFinished(t) THEN @ + 1 ELSE @]
    /\ pc' = [pc EXCEPT ![t] = IF go[t] /\ ~ AllFinished(t) /\ ~ aborted
                                 THEN "reduce" ELSE "regenerate"]
    /\ UNCHANGED <<queueVars, groupVars, idx, finished, inputs, cur, out, go, count,
                   aborted, failed, held, log>>

(* generate returns FALSE, or TRUE although the run has been aborted: then *)
(* the item is in the buffer, but it is dropped.                           *)
NoMore(t) ==
    \/ /\ MayEnd(t)
       /\ UNCHANGED <<count, data>>
    \/ /\ MayGenerate(t)
       /\ aborted
       /\ count' = [count EXCEPT ![t] = @ + 1]
       /\ data' = [data EXCEPT ![out[t]] = count[t] + 1]

(* The generating loop. *)
Regenerate(t) ==
    /\ pc[t] = "regenerate"
    /\ \/ /\ MayGenerate(t)
          /\ ~ aborted
          /\ pc' = [pc EXCEPT ![t] = "repush"]
          /\ Produce(t)
       \/ /\ NoMore(t)
          /\ ~ AllFinished(t)
          /\ pc' = [pc EXCEPT ![t] = "reduce"]
          /\ UNCHANGED <<queueVars, current, received, sent, got, idx, finished, inputs, cur,
                         out, go, aborted, failed, ghostVars>>
       \/ /\ NoMore(t)
          /\ AllFinished(t)
          /\ Leave(t)
          /\ UNCHANGED <<aborted, failed, ghostVars>>

----------------------------------------------------------------------------
(* Handing on the output and giving back the inputs *)

AfterPush(t) ==
    CASE pc[t] = "repush" -> "repopout"
      [] pc[t] = "push"   -> IF NInputs(t) = 0 THEN "get" ELSE "release"

Push(t) ==
    /\ pc[t] \in {"push", "repush"}
    /\ \/ PushScatter(t, out[t])
       \/ PushSequential(t, out[t])
       \/ idx[t] > NTargets(t) /\ PushOriginal(t, out[t])
    /\ pc' = [pc EXCEPT ![t] = AfterPush(t)]
    /\ idx' = [idx EXCEPT ![t] = 1]
    /\ UNCHANGED <<finished, inputs, cur, out, go, count, aborted, failed, ghostVars>>

BroadcastCopy(t) ==
    /\ pc[t] \in {"push", "repush"}
    /\ idx[t] <= NTargets(t)
    /\ PushCopy(t, idx[t], out[t])
    /\ idx' = [idx EXCEPT ![t] = @ + 1]
    /\ UNCHANGED <<pc, finished, inputs, cur, out, go, count, aborted, failed, ghostVars>>

(* release_inputs: input idx[t] goes back to the group it is read from     *)
(* now, and the next group of that input is selected.  The array keeps     *)
(* the pointer, so a finished input is given back again in every round.    *)
NextGroupStays(t, i) == cur[t][i]
NextGroup(t, i) == (cur[t][i] % Len(InQueues[t][i])) + 1

AfterRelease(t) ==
    CASE pc[t] = "release"      -> "get"
      [] pc[t] = "rerelease"    -> "reget"
      [] pc[t] = "flushrelease" -> "flush"

ReleaseInput(t) ==
    LET i == idx[t] IN
    /\ pc[t] \in Releasing
    /\ PushInputBuffer(InQueue(t, i), inputs[t][i])
    /\ held' = [held EXCEPT ![t] = @ \ {inputs[t][i]}]
    /\ cur' = [cur EXCEPT ![t][i] = NextGroup(t, i)]
    /\ IF i = NInputs(t)
         THEN /\ pc' = [pc EXCEPT ![t] = AfterRelease(t)]
              /\ idx' = [idx EXCEPT ![t] = 1]
         ELSE /\ idx' = [idx EXCEPT ![t] = i + 1]
              /\ UNCHANGED pc
    /\ UNCHANGED <<finished, inputs, out, go, count, aborted, failed, stopped, log>>

(* After an error: while (get_inputs) release_inputs, then the end markers. *)
FlushUnfinished(t) ==
    /\ GotInputs(t, "flush")
    /\ pc' = [pc EXCEPT ![t] = IF AllFinished(t) THEN "done" ELSE "flushrelease"]
    /\ idx' = [idx EXCEPT ![t] = 1]
    /\ UNCHANGED <<queueVars, groupVars, finished, inputs, cur, out, go, count, aborted,
                   failed, ghostVars>>

Flush(t) ==
    /\ GotInputs(t, "flush")
    /\ IF AllFinished(t)
         THEN Leave(t) /\ UNCHANGED data
         ELSE /\ pc' = [pc EXCEPT ![t] = "flushrelease"]
              /\ idx' = [idx EXCEPT ![t] = 1]
              /\ UNCHANGED <<queueVars, groupVars, finished, inputs, cur, out, go>>
    /\ UNCHANGED <<count, aborted, failed, ghostVars>>

----------------------------------------------------------------------------
Run(t) ==
    \/ PopInput(t) \/ SkipInput(t) \/ Stop(t) \/ Proceed(t) \/ Fail(t)
    \/ PopOut(t) \/ Generate(t) \/ Process(t) \/ Reduce(t) \/ Reget(t)
    \/ Regenerate(t) \/ Push(t) \/ BroadcastCopy(t) \/ ReleaseInput(t) \/ Flush(t)

AllDone == \A t \in Task : pc[t] = "done"

(* ufo_scheduler_abort, from another thread, while the run lasts. *)
Abort ==
    /\ MayAbort
    /\ ~ aborted
    /\ ~ AllDone
    /\ aborted' = TRUE
    /\ UNCHANGED <<queueVars, groupVars, threadVars, failed, ghostVars>>

(* All threads are joined. *)
Joined == AllDone /\ UNCHANGED vars

Next == Abort \/ Joined \/ \E t \in Task : Run(t)

Spec == Init /\ [][Next]_vars

(* Every thread is run by the operating system, and the functions of the   *)
(* tasks return; a blocked pop returns once there is something to pop.     *)
FairSpec == Spec /\ \A t \in Task : WF_vars(Run(t))

----------------------------------------------------------------------------
(* Properties *)

Pointer == Buffer \cup {NoBuffer}
Tag == Nat \cup {EndOfStream}

QueuesOK ==
    /\ free \in [Queue -> Seq(Pointer)]
    /\ full \in [Queue -> Seq(Pointer \cup {EndOfStream})]
    /\ capacity \in [Queue -> Nat]
    /\ \A q \in Queue : capacity[q] <= Limit(q[1])

GroupsOK ==
    /\ current \in [Task -> Nat \ {0}]
    /\ received \in [Task -> Nat]
    /\ data \in [Buffer -> Nat]
    /\ sent \in [Queue -> Seq(Tag)]
    /\ got \in [Queue -> Seq(Tag)]

InputsOK ==
    /\ DOMAIN finished = Task
    /\ DOMAIN inputs = Task
    /\ DOMAIN cur = Task
    /\ \A t \in Task :
          /\ finished[t] \in [1..NInputs(t) -> BOOLEAN]
          /\ inputs[t] \in [1..NInputs(t) -> Pointer]
          /\ cur[t] \in [1..NInputs(t) -> Nat \ {0}]
          /\ \A i \in 1..NInputs(t) : cur[t][i] <= Len(InQueues[t][i])

ThreadsOK ==
    /\ pc \in [Task -> PCs]
    /\ idx \in [Task -> Nat \ {0}]
    /\ out \in [Task -> Pointer]
    /\ go \in [Task -> BOOLEAN]
    /\ count \in [Task -> Nat]
    /\ aborted \in BOOLEAN
    /\ failed \subseteq Task

GhostsOK ==
    /\ stopped \in [Task -> Nat]
    /\ held \in [Task -> SUBSET Pointer]
    /\ log \in [Task -> Seq(Seq(Nat))]

TypeOK == QueuesOK /\ GroupsOK /\ InputsOK /\ ThreadsOK /\ GhostsOK

(* t holds its output buffer: popped from its group, not yet pushed. *)
HoldsOutput(t) ==
    /\ Mode[t] # "sink"
    /\ pc[t] \in {"work", "push", "reduce", "rerelease", "reget", "regenerate", "repush"}

Idle(q) == Range(free[q])
InFlight(q) == Range(full[q]) \ {EndOfStream}
BeingFilled == {out[t] : t \in {u \in Task : HoldsOutput(u)}}
BeingRead == UNION {held[t] : t \in Task}

(* Input i of t ended while other inputs of t go on: from then on          *)
(* release_inputs gives the last buffer of that input back in every round, *)
(* to all the queues of that input in turn.                                *)
Outlived(t, i) == finished[t][i] /\ NInputs(t) > 1

Open(q) ==
    LET t == Targets[q[1]][q[2]] IN
    \A i \in 1..NInputs(t) : Outlived(t, i) => q \notin Range(InQueues[t][i])

(* A buffer is never in two places at once: a buffer of an open stream     *)
(* waits to be filled, is being filled, is in flight or is being read, and *)
(* no queue holds it twice.  This is what lets the threads write and read  *)
(* buffers without any lock (pop_or_alloc_buffer, push_output_buffer).  It    *)
(* is about open streams only: a queue of an outlived input is given the   *)
(* same buffer many times.                                                 *)
Exclusive ==
    LET filling == BeingFilled
        reading == BeingRead
    IN  /\ filling \cap reading = {}
        /\ \A q \in {r \in Queue : Open(r)} :
              /\ IsInjective(free[q])
              /\ \A i, j \in DOMAIN full[q] :
                    full[q][i] = full[q][j] /\ full[q][i] # EndOfStream => i = j
              /\ Idle(q) \cap InFlight(q) = {}
              /\ (Idle(q) \cup InFlight(q)) \cap (filling \cup reading) = {}

(* t has popped a buffer from input i in this round and not released it. *)
Reading(t, i) ==
    /\ ~ finished[t][i]
    /\ CASE pc[t] \in Getting   -> i < idx[t]
         [] pc[t] \in Releasing -> i >= idx[t]
         [] pc[t] = "done"      -> FALSE
         [] OTHER               -> TRUE

(* What a task reads in its input buffer is what was in it when it was     *)
(* popped: nobody refills or copies into a buffer before it was released.  *)
InputsIntact ==
    \A t \in Task : \A i \in 1..NInputs(t) :
        Reading(t, i) =>
            LET g == got[InQueue(t, i)] IN
            /\ inputs[t][i] \in held[t]
            /\ g # <<>>
            /\ Value(inputs[t][i]) = g[Len(g)]

(* The items a reader got: it pops nothing behind an end marker. *)
Items(history) ==
    IF history # <<>> /\ history[Len(history)] = EndOfStream
      THEN SubSeq(history, 1, Len(history) - 1) ELSE history

(* All targets of t have a number of items they expect: after the last one *)
(* the first is served again, behind its end marker.                       *)
Wraps(t) ==
    /\ Pattern[t] = "sequential"
    /\ \A k \in 1..NTargets(t) : NumExpected[<<t, k>>] > 0

(* t has left run_task although more input may come to it.                 *)
Quit(t) == pc[t] = "done" /\ NInputs(t) > 0 /\ ~ AllFinished(t)

(* The producer of q may have written to a buffer of q behind its last     *)
(* item: an item that was dropped, since the run was aborted or process    *)
(* returned FALSE, or what a reductor read after it had generated.         *)
WrittenBehind(q) ==
    \/ aborted
    \/ Quit(q[1])
    \/ Mode[q[1]] = "reductor" /\ q[1] \in MayStop

(* A task with several inputs processes them item by item: its k-th call   *)
(* gets the k-th item of every input, and of an input that has ended the   *)
(* last one.  The buffer of that last item was given back long before;     *)
(* unless its producer has written to it since, it still has the item.     *)
InputsAligned ==
    \A t \in Task : \A k \in DOMAIN log[t] : \A i \in 1..NInputs(t) :
        Len(InQueues[t][i]) = 1 =>
            LET q == InQueues[t][i][1]
                items == Items(got[q])
            IN  \/ items = <<>>
                \/ Wraps(q[1])
                \/ k > Len(items) /\ WrittenBehind(q)
                \/ log[t][k][i] = items[IF k <= Len(items) THEN k ELSE Len(items)]

(* Every edge is a reliable, ordered, bounded stream (module Stream), but  *)
(* for one that its reader has left before the end, since another queue of *)
(* the same input had ended, and those behind a group that starts over.    *)
Edge(q) == INSTANCE Stream WITH
               Item <- Nat, End <- EndOfStream, Bound <- Limit(q[1]),
               sent <- sent[q], received <- got[q]

CutOff(q) == ~ Open(q) /\ EndOfStream \notin Range(got[q])

Streams == {q \in Queue : ~ Wraps(q[1])}

StreamSpec ==
    /\ \A q \in Streams : Edge(q)!Init
    /\ [][\A q \in Streams : [Edge(q)!Next]_(Edge(q)!streamVars) \/ CutOff(q)]_<<sent, got>>

(* A run that nobody aborts, and in which no process returns FALSE, comes  *)
(* to an end: every thread leaves run_task and ufo_scheduler_run returns,  *)
(* also when get_requisition of some tasks has failed.                     *)
Termination == <>(aborted \/ AllDone \/ \E t \in Task : Quit(t))

(* t waits for the other side of a queue. *)
Waits(t) ==
    \/ /\ pc[t] \in Getting /\ ~ GotInputs(t, pc[t]) /\ ~ finished[t][idx[t]]
       /\ full[InQueue(t, idx[t])] = <<>>
    \/ pc[t] \in {"popout", "repopout"} /\ Grown(OutQueue(t), Limit(t)) = <<>>
    \/ /\ pc[t] \in {"push", "repush"} /\ Pattern[t] = "broadcast" /\ idx[t] <= NTargets(t)
       /\ Grown(<<t, idx[t]>>, Limit(t)) = <<>>

(* Under the same conditions the tasks never all wait for each other: not  *)
(* a broadcast for a branch that waits for the other branch, nor a reader  *)
(* of several groups for one that has ended, nor a drained task for the    *)
(* buffer that a failed one kept.                                          *)
NoHang ==
    (\A t \in Task : pc[t] = "done" \/ Waits(t)) =>
        aborted \/ AllDone \/ \E t \in Task : Quit(t)

(* When it has ended no item is left in a queue: all that was produced was *)
(* consumed, or drained by the flush of a task that failed.                *)
NothingLeft ==
    AllDone /\ (\A t \in Task : ~ Quit(t)) => \A q \in Queue : InFlight(q) = {}

(* ufo_scheduler_abort stops the run: every thread leaves its loop, also   *)
(* the ones that wait for a buffer at that time.                           *)
AbortStops == aborted ~> AllDone

(* A task that has left its loop was told that no more input comes: the    *)
(* inputs_stopped signal is what unblocks those who wait for its output.   *)
NotifiesStop ==
    \A t \in Task : pc[t] = "done" /\ Mode[t] # "generator" => stopped[t] > 0

(* A reductor whose process asks for more until the end of its input sends *)
(* nothing on before it has read all of it, an abort in between included.  *)
ReductorReadsAll ==
    \A q \in Queue :
        /\ Mode[q[1]] = "reductor"
        /\ q[1] \notin MayStop
        /\ Range(sent[q]) \cap Nat # {}
        => AllFinished(q[1])

=============================================================================
