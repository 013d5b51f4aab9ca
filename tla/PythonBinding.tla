--------------------------- MODULE PythonBinding ----------------------------
(***************************************************************************)
(* An application around a run of the default scheduler: arrays go in      *)
(* through input tasks, results come out of an output task.  Four kinds of *)
(* threads take part:                                                      *)
(*                                                                         *)
(*   main     iterates over the results, as Task.items in                  *)
(*            python/ufo/__init__.py does ("items": a handler of           *)
(*            `processed' queues copies of the results), or takes them     *)
(*            from the output task itself, as docs/manual/devel.rst        *)
(*            describes it ("loop": until get_output_buffer returns NULL)  *)
(*   feeder   input_data, started when a task is called with iterables     *)
(*   runner   run_scheduler, which calls ufo_scheduler_run                 *)
(*   tasks    the threads of module Scheduler                              *)
(***************************************************************************)
EXTENDS Scheduler

CONSTANTS
    Feeds,       (* the input tasks, in the order of the arguments          *)
    OutTask,     (* the output task                                         *)
    Copy,        (* the buffer that it owns                                 *)
    PoisonPill,
    MaxLength,   (* arrays per iterable, at most (a bound for TLC)          *)
    Consumers,   (* which of "items", "loop" main may be                    *)
    Earlier,     (* whether the Environment has seen a run before           *)
    KeptBy       (* who keeps the arrays alive: "caller", "iterable" (until *)
                 (*   the feeder drops it), "loop" (until the next array)   *)

VARIABLES
    fed, spent, input,                    (* of the input tasks             *)
    ready, returned, copies, content,     (* of the output task             *)
    consumer,    (* what main is                                            *)
    main,        (* where main, ...                                         *)
    feeder,      (*   the feeder ...                                        *)
    runner,      (*   and the runner are                                    *)
    done,        (* env.done                                                *)
    started,     (* env.started                                             *)
    connected,   (* input tasks connected in env.graph                      *)
    length,      (* how many arrays each iterable has                       *)
    item,        (* how many of them have been released to all input tasks  *)
    turn,        (* the input task whose turn it is                         *)
    filled,      (* filled[t]: number of the array in the buffer of t, or 0 *)
    results,     (* the queue of results                                    *)
    yielded      (* what main has got                                       *)

InTask == Range(Feeds)

INSTANCE InputTask
INSTANCE OutputTask

inputTaskVars == <<fed, spent, input>>
outputTaskVars == <<ready, returned, copies, content>>
ioVars == <<inputTaskVars, outputTaskVars>>
feederVars == <<feeder, connected, item, turn, filled>>
mainVars == <<main, started, yielded>>
runnerVars == <<runner, done>>
appVars == <<consumer, length, feederVars, mainVars, runnerVars, results>>
pyVars == <<vars, ioVars, appVars>>

(* input_data makes a new input task for each of its arguments.            *)
ASSUME PythonAssumption ==
    /\ Feeds \in Seq(Task) /\ Feeds # <<>> /\ IsInjective(Feeds)
    /\ \A t \in InTask : Mode[t] = "generator"
    /\ OutTask \in Task /\ Mode[OutTask] = "sink" /\ NInputs(OutTask) = 1
    /\ (InTask \cup {OutTask}) \cap (MayFail \cup MayStop) = {}
    /\ PoisonPill \notin Task \cup {Copy, NoBuffer}
    /\ MaxLength \in Nat /\ Earlier \in BOOLEAN
    /\ Consumers \subseteq {"items", "loop"}
    /\ KeptBy \in {"caller", "iterable", "loop"}

(* done and started are set once and never cleared together: an earlier    *)
(* run leaves both TRUE.                                                   *)
PyInit ==
    /\ Init
    /\ InitInputTasks
    /\ InitOutputTask
    /\ consumer \in Consumers
    /\ main = "iterate"
    /\ feeder = "connect"
    /\ runner = "idle"
    /\ done = Earlier
    /\ started = Earlier
    /\ connected = {}
    /\ length \in 0..MaxLength
    /\ item = 0
    /\ turn = 1
    /\ filled = [t \in InTask |-> 0]
    /\ results = <<>>
    /\ yielded = <<>>

----------------------------------------------------------------------------
(* The feeder: input_data *)

notFeeder == <<vars, consumer, length, mainVars, runnerVars, results>>

Turn == Feeds[turn]
LastTurn == turn = Len(Feeds)
NextTurn == turn' = IF LastTurn THEN 1 ELSE turn + 1

FeederConnects ==
    /\ feeder = "connect"
    /\ connected' = connected \cup {Turn}
    /\ NextTurn
    /\ feeder' = IF LastTurn THEN "wait" ELSE "connect"
    /\ UNCHANGED <<item, filled, ioVars, notFeeder>>

FeederWaits ==
    /\ feeder = "wait"
    /\ started
    /\ feeder' = "next"
    /\ UNCHANGED <<connected, item, turn, filled, ioVars, notFeeder>>

(* The head of the loop over zip: the arrays of the last round are dropped. *)
FeederNext ==
    /\ feeder = "next"
    /\ feeder' = IF item < length THEN "get" ELSE "stop"
    /\ filled' = IF item < length /\ KeptBy = "loop" THEN [t \in InTask |-> 0] ELSE filled
    /\ UNCHANGED <<connected, item, turn, ioVars, notFeeder>>

(* A new buffer for the first array, later the one that came back.         *)
FeederGets ==
    /\ feeder = "get"
    /\ IF item = 0 THEN UNCHANGED inputTaskVars ELSE GetInputBuffer(Turn)
    /\ feeder' = "release"
    /\ filled' = [filled EXCEPT ![Turn] = item + 1]
    /\ UNCHANGED <<connected, item, turn, outputTaskVars, notFeeder>>

FeederReleases ==
    /\ feeder = "release"
    /\ ReleaseInputBuffer(Turn, Turn)
    /\ NextTurn
    /\ item' = IF LastTurn THEN item + 1 ELSE item
    /\ feeder' = IF LastTurn THEN "next" ELSE "get"
    /\ UNCHANGED <<connected, filled, outputTaskVars, notFeeder>>

FeederStops ==
    /\ feeder = "stop"
    /\ StopInput(Turn)
    /\ NextTurn
    /\ feeder' = IF LastTurn THEN "leave" ELSE "stop"
    /\ UNCHANGED <<connected, item, filled, outputTaskVars, notFeeder>>

(* The thread lets go of its arguments. *)
FeederLeaves ==
    /\ feeder = "leave"
    /\ feeder' = "end"
    /\ filled' = IF KeptBy = "caller" THEN filled ELSE [t \in InTask |-> 0]
    /\ UNCHANGED <<connected, item, turn, ioVars, notFeeder>>

Feeder ==
    \/ FeederConnects \/ FeederWaits \/ FeederNext \/ FeederGets
    \/ FeederReleases \/ FeederStops \/ FeederLeaves

----------------------------------------------------------------------------
(* The runner: run_scheduler *)

notRunner == <<vars, ioVars, consumer, length, item, turn, filled, started, yielded, results>>

RunnerClearsDone ==
    /\ runner = "start"
    /\ done' = FALSE
    /\ runner' = "run"
    /\ UNCHANGED <<connected, feeder, main, notRunner>>

(* The graph is what it is now.  A task with an input that nobody is       *)
(* connected to gets by the setup, and its thread dies of an assertion in  *)
(* ufo_task_node_get_current_in_group: the application is gone.            *)
RunnerRuns ==
    /\ runner = "run"
    /\ IF connected = InTask
         THEN runner' = "running" /\ UNCHANGED <<feeder, main>>
         ELSE runner' = "broken" /\ feeder' = "broken" /\ main' = "broken"
    /\ UNCHANGED <<done, connected, notRunner>>

(* run raises an exception if there was an error. *)
RunnerReturns ==
    /\ runner = "running"
    /\ AllDone
    /\ runner' = IF failed = {} THEN "returned" ELSE "end"
    /\ UNCHANGED <<done, connected, feeder, main, notRunner>>

RunnerSetsDone ==
    /\ runner = "returned"
    /\ done' = TRUE
    /\ runner' = "reset"
    /\ UNCHANGED <<connected, feeder, main, notRunner>>

RunnerResets ==
    /\ runner = "reset"
    /\ connected' = {}
    /\ runner' = "end"
    /\ UNCHANGED <<done, feeder, main, notRunner>>

Runner ==
    \/ RunnerClearsDone \/ RunnerRuns \/ RunnerReturns \/ RunnerSetsDone
    \/ RunnerResets

----------------------------------------------------------------------------
(* The main thread *)

notMain == <<vars, inputTaskVars, consumer, length, feederVars>>

(* Task.run, called by items after the output task was connected. *)
MainRuns ==
    /\ main = "iterate"
    /\ runner' = "start"
    /\ main' = "started"
    /\ UNCHANGED <<started, done, results, yielded, outputTaskVars, notMain>>

MainSetsStarted ==
    /\ main = "started"
    /\ started' = TRUE
    /\ main' = IF consumer = "items" THEN "poll" ELSE "take"
    /\ UNCHANGED <<runnerVars, results, yielded, outputTaskVars, notMain>>

(* while not done or not results.empty(): yield results.get(True, 0.01);   *)
(* nothing but the time changes when that ends with queue.Empty.           *)
MainYields ==
    /\ main = "poll"
    /\ results # <<>>
    /\ yielded' = Append(yielded, Head(results))
    /\ results' = Tail(results)
    /\ UNCHANGED <<main, started, runnerVars, outputTaskVars, notMain>>

MainPolls ==
    /\ main = "poll"
    /\ results = <<>>
    /\ main' = IF done THEN "join" ELSE "poll"
    /\ UNCHANGED <<started, yielded, runnerVars, results, outputTaskVars, notMain>>

MainTakes ==
    /\ main = "take"
    /\ GetOutputBuffer
    /\ main' = IF Head(ready) = PoisonPill THEN "join" ELSE "give"
    /\ UNCHANGED <<started, yielded, runnerVars, results, notMain>>

MainGivesBack ==
    /\ main = "give"
    /\ yielded' = Append(yielded, content)
    /\ ReleaseOutputBuffer
    /\ main' = "take"
    /\ UNCHANGED <<started, runnerVars, results, notMain>>

MainJoins ==
    /\ main = "join"
    /\ runner = "end"
    /\ main' = "end"
    /\ UNCHANGED <<started, yielded, runnerVars, results, outputTaskVars, notMain>>

Main ==
    \/ MainRuns \/ MainSetsStarted \/ MainYields \/ MainPolls \/ MainTakes
    \/ MainGivesBack \/ MainJoins

----------------------------------------------------------------------------
(* The threads of the run *)

(* get_requisition takes the next array, or blocks; generate copies it. *)
RunInput(t) ==
    /\ \/ Proceed(t) /\ GetRequisition(t)
       \/ Generate(t) /\ (IF pc'[t] = "push" THEN Spend(t) ELSE Exhausted(t))
       \/ (PopOut(t) \/ Push(t) \/ BroadcastCopy(t)) /\ UNCHANGED inputTaskVars
    /\ UNCHANGED <<outputTaskVars, results>>

(* The handler of `processed' runs in the thread of the output task,       *)
(* between process and release_inputs.                                     *)
HandlerPending == consumer = "items" /\ ready # <<>>

ProcessedHandler ==
    /\ HandlerPending
    /\ pc[OutTask] = "release"
    /\ PassOn
    /\ results' = Append(results, content)
    /\ UNCHANGED vars

RunOutput ==
    /\ \/ ProcessedHandler
       \/ /\ Process(OutTask)
          /\ ProcessOutput(Value(inputs[OutTask][1]))
          /\ UNCHANGED results
       \/ Stop(OutTask) /\ InputsStopped /\ UNCHANGED results
       \/ /\ ~ HandlerPending
          /\ PopInput(OutTask) \/ SkipInput(OutTask) \/ Proceed(OutTask)
             \/ ReleaseInput(OutTask)
          /\ UNCHANGED <<outputTaskVars, results>>
    /\ UNCHANGED inputTaskVars

RunThread(t) ==
    /\ runner = "running"
    /\ CASE t \in InTask -> RunInput(t)
         [] t = OutTask  -> RunOutput
         [] OTHER        -> Run(t) /\ UNCHANGED <<ioVars, results>>
    /\ UNCHANGED <<consumer, length, feederVars, mainVars, runnerVars>>

----------------------------------------------------------------------------
Broken == runner = "broken"

Ended ==
    /\ (main = "end" /\ feeder = "end") \/ Broken
    /\ UNCHANGED pyVars

PyNext == Feeder \/ Runner \/ Main \/ (\E t \in Task : RunThread(t)) \/ Ended

(* All threads are run; a pop or a sleeping loop goes on when it can. *)
PySpec ==
    /\ PyInit
    /\ [][PyNext]_pyVars
    /\ WF_pyVars(Feeder)
    /\ WF_pyVars(Runner)
    /\ WF_pyVars(Main)
    /\ \A t \in Task : WF_pyVars(RunThread(t))

----------------------------------------------------------------------------
(* Properties *)

(* What the application gets are the results in their order, and when the  *)
(* iteration is over all of them, unless the run has failed.               *)
Delivered ==
    /\ yielded = [k \in 1..Len(yielded) |-> k]
    /\ main = "end" /\ failed = {} => Len(yielded) = length

(* What an input task is about to copy is the array that is next, complete *)
(* and still there: the feeder does not refill the buffer, and nobody      *)
(* frees the array, between get_requisition and generate.                  *)
FedIntact ==
    \A t \in InTask :
        pc[t] \in {"popout", "work"} /\ input[t] # PoisonPill => filled[t] = count[t] + 1

(* The iteration comes to an end.  A main that takes the buffers itself is *)
(* woken also if a task has failed; items, which waits for env.done, is    *)
(* not, since run_scheduler does not set it when run raises.               *)
IterationEnds == <>(main = "end" \/ Broken \/ (consumer = "items" /\ failed # {}))

=============================================================================
