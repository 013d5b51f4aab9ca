---------------------------- MODULE PythonProofs ----------------------------
(***************************************************************************)
(* Theorems about an application around a run of the default scheduler     *)
(* (module PythonBinding).  The application drives the scheduler as module *)
(* Scheduler describes it, so that all theorems about that hold; what a    *)
(* feeder hands in is what its input task copies; and what main gets is    *)
(* what the output task was called with.                                   *)
(***************************************************************************)
EXTENDS PythonBinding, SchedulerRunProofs

Order == 1..Len(Feeds)

(* The graph has not run yet, and will not when the feeder was too slow. *)
NotRunning == runner \in {"idle", "start", "run", "broken"}

Before ==
    NotRunning =>
        /\ \A t \in Task : pc[t] = "get"
        /\ log[OutTask] = <<>> /\ ready = <<>> /\ results = <<>> /\ yielded = <<>>
        /\ main # "give"

RunnerInv ==
    /\ aborted = FALSE
    /\ main = "iterate" => runner = "idle"
    /\ runner = "broken" <=> feeder = "broken"
    /\ runner = "broken" <=> main = "broken"
    /\ runner \in {"returned", "reset"} => AllDone
    /\ ~ Earlier /\ done => AllDone
    /\ Before

----------------------------------------------------------------------------
(* The feeder and the input tasks *)

(* Arrays that were released to the k-th input task. *)
Released(k) == IF feeder \in {"get", "release"} /\ k < turn THEN item + 1 ELSE item

(* The feeder has the buffer of the k-th input task. *)
Filling(k) == feeder = "release" /\ turn = k

(* The k-th input task was told to stop. *)
Told(k) == feeder \in {"leave", "end"} \/ (feeder = "stop" /\ k < turn)

InHand(t) == pc[t] \in {"popout", "work"} /\ input[t] # PoisonPill

Underway(t) == t \in Range(fed[t]) \/ InHand(t)

FeederInv ==
    /\ turn \in Order /\ length \in Nat /\ item \in 0..length
    /\ feeder \in {"connect", "wait"} => item = 0
    /\ feeder \in {"wait", "next", "leave", "end"} => turn = 1
    /\ feeder \in {"get", "release"} => item < length
    /\ feeder \in {"stop", "leave", "end"} => item = length

(* The buffer of the k-th input task t is in its queue for the task, being *)
(* copied, in its queue for the feeder, or with the feeder.                *)
Fed(k, t) ==
    /\ fed[t] \in {<<>>, <<t>>, <<PoisonPill>>, <<t, PoisonPill>>}
    /\ spent[t] \in {<<>>, <<t>>}
    /\ PoisonPill \in Range(fed[t]) => Told(k)
    /\ InHand(t) => input[t] = t /\ t \notin Range(fed[t])
    /\ pc[t] \in {"popout", "work"} /\ input[t] = PoisonPill => Told(k) /\ fed[t] = <<>>
    /\ pc[t] = "done" => Told(k) /\ ~ Underway(t)
    /\ count[t] = IF Underway(t) THEN Released(k) - 1 ELSE Released(k)
    /\ Underway(t) => spent[t] = <<>> /\ ~ Filling(k)
    /\ spent[t] # <<>> => count[t] > 0 /\ ~ Filling(k)

InputTasksOK ==
    DOMAIN fed = InTask /\ DOMAIN spent = InTask /\ DOMAIN input = InTask /\ DOMAIN filled = InTask

FeedInv ==
    /\ InputTasksOK
    /\ runner # "broken" => FeederInv /\ \A k \in Order : Fed(k, Feeds[k])

(* The last array that the feeder took up is still in the buffer.          *)
FilledInv ==
    runner # "broken" =>
        \A k \in Order :
            filled[Feeds[k]] = IF Filling(k) THEN Released(k) + 1 ELSE Released(k)

----------------------------------------------------------------------------
(* The output task and main *)

(* What the application is about to get, in the copy of the output task. *)
Fresh == IF Copy \in Range(ready) \/ main = "give" THEN <<content>> ELSE <<>>

Firsts(calls) == [k \in 1..Len(calls) |-> calls[k][1]]

CopyInv ==
    /\ ready \in {<<>>, <<Copy>>, <<PoisonPill>>, <<Copy, PoisonPill>>}
    /\ returned \in {<<>>, <<Copy>>}
    /\ copies \in {0, 1}
    /\ Copy \in Range(ready) \/ main = "give" => returned = <<>> /\ copies = 1
    /\ main = "give" => Copy \notin Range(ready)
    /\ copies = 0 => returned = <<>>
    /\ PoisonPill \in Range(ready) => pc[OutTask] = "done"

ConsumerInv ==
    /\ consumer \in {"items", "loop"}
    /\ main \in {"take", "give"} => consumer = "loop"
    /\ main = "poll" => consumer = "items"
    /\ consumer = "loop" => results = <<>>
    /\ consumer = "items" /\ Copy \in Range(ready) => pc[OutTask] = "release"

HandInv ==
    /\ CopyInv
    /\ ConsumerInv
    /\ yielded \in Seq(Nat) /\ results \in Seq(Nat) /\ content \in Nat
    /\ Firsts(log[OutTask]) \in Seq(Nat)
    /\ InTransit(Firsts(log[OutTask]), yielded, results \o Fresh)
    /\ ~ Earlier /\ main \in {"join", "end"} =>
          pc[OutTask] = "done" /\ results = <<>> /\ Copy \notin Range(ready)

----------------------------------------------------------------------------
(* The items on the way *)

(* N are the connections on the way from the input tasks to the output     *)
(* task, one for each input of each processor on that way.  The ones in S  *)
(* do not end early: no task that may fail is above them.  A processor     *)
(* that joins several inputs has only such.                                *)
Delivering(N, S) ==
    /\ Alone(OutTask, 1) /\ Sole(OutTask, 1) \in N
    /\ \A q \in N :
          /\ NTargets(q[1]) = 1
          /\ \E t \in Task : \E i \in 1..NInputs(t) : Alone(t, i) /\ q = Sole(t, i)
          /\ \/ q[1] \in InTask
             \/ /\ Mode[q[1]] = "processor" /\ q[1] \notin MayStop
                /\ \A i \in 1..NInputs(q[1]) :
                      /\ Alone(q[1], i) /\ Sole(q[1], i) \in N
                      /\ NInputs(q[1]) > 1 => Sole(q[1], i) \in S
    /\ \A q \in S :
          q[1] \notin MayFail /\ \A i \in 1..NInputs(q[1]) : Sole(q[1], i) \in S

Rounds(t) == IF t \in InTask THEN count[t] ELSE Len(log[t])

(* Nothing has made t end early. *)
Whole(S, t) == failed = {} \/ (t \notin MayFail /\ \A i \in 1..NInputs(t) : Sole(t, i) \in S)

(* The calls of process of a task on the way. *)
Numbered(S, t) ==
    /\ Rounds(t) <= length
    /\ \A k \in 1..Len(log[t]) : log[t][k][1] = k
    /\ pc[t] = "done" /\ Whole(S, t) => Rounds(t) = length
    /\ t \notin MayFail \/ failed = {} => pc[t] \notin {"flush", "flushrelease"}

(* What a producer on the way has sent to its one target. *)
Sends(q, t, n) ==
    /\ \A k \in 1..Len(sent[q]) : k <= n => sent[q][k] = k
    /\ CASE pc[t] = "done" -> Len(sent[q]) = n + 1 /\ sent[q][n + 1] = EndOfStream
         [] pc[t] = "push" -> Len(sent[q]) + 1 = n /\ Value(out[t]) = n
         [] OTHER          -> Len(sent[q]) = n

WayInv(N, S) ==
    runner # "broken" =>
        /\ Numbered(S, OutTask)
        /\ \A q \in N : Numbered(S, q[1]) /\ Copying(q[1]) /\ Sends(q, q[1], Rounds(q[1]))

----------------------------------------------------------------------------
(* The threads of the run                                                  *)

LEMMA FeedFacts ==
    /\ Len(Feeds) \in Nat \ {0} /\ Order \subseteq Nat
    /\ \A k \in Order : Feeds[k] \in InTask
    /\ \A t \in InTask : \E k \in Order : t = Feeds[k]
    /\ \A j, k \in Order : Feeds[j] = Feeds[k] => j = k
    /\ InTask \subseteq Task /\ OutTask \in Task /\ OutTask \notin InTask
    /\ \A t \in InTask : Mode[t] = "generator" /\ NInputs(t) = 0
  <1>1. /\ Feeds \in Seq(Task) /\ Feeds # <<>> /\ IsInjective(Feeds)
        /\ Len(Feeds) \in Nat /\ DOMAIN Feeds = Order
    BY PythonAssumption, LenProperties DEF Order
  <1>2. Len(Feeds) # 0
    BY <1>1, EmptySeq
  <1>3. InTask = {Feeds[k] : k \in Order}
    BY <1>1 DEF InTask, Range
  <1>4. \A j, k \in Order : Feeds[j] = Feeds[k] => j = k
    BY <1>1 DEF IsInjective
  <1>5. \A k \in Order : Feeds[k] \in Task
    BY <1>1 DEF Order
  <1>6. \A t \in InTask : Mode[t] = "generator"
    BY PythonAssumption
  <1>7. InTask \subseteq Task /\ OutTask \notin InTask
    BY <1>3, <1>5, <1>6, PythonAssumption
  <1>8. \A t \in InTask : NInputs(t) = 0
    BY <1>6, <1>7, SchedulerAssumption
  <1>9. Order \subseteq Nat
    BY DEF Order
  <1> QED BY <1>1, <1>2, <1>3, <1>4, <1>6, <1>7, <1>8, <1>9, PythonAssumption

(* What the thread of an input task, of the output task and of another     *)
(* task does.                                                              *)
LEMMA ThreadFacts ==
    ASSUME NEW t \in Task, RunThread(t)
    PROVE  /\ runner = "running"
           /\ UNCHANGED <<consumer, length, feederVars, mainVars, runnerVars>>
           /\ t \in InTask => RunInput(t)
           /\ t = OutTask => RunOutput
           /\ t \notin InTask /\ t # OutTask => Run(t) /\ UNCHANGED <<ioVars, results>>
  <1>1. OutTask \notin InTask
    BY FeedFacts
  <1> QED BY <1>1 DEF RunThread

LEMMA ThreadRuns ==
    ASSUME NEW t \in Task, RunThread(t)
    PROVE  Run(t) \/ (t = OutTask /\ ProcessedHandler /\ UNCHANGED vars)
  <1>1. CASE t \in InTask
    BY <1>1, ThreadFacts DEF RunInput, Run
  <1>2. CASE t = OutTask
    BY <1>2, ThreadFacts DEF RunOutput, Run, ProcessedHandler
  <1>3. CASE t \notin InTask /\ t # OutTask
    BY <1>3, ThreadFacts
  <1> QED BY <1>1, <1>2, <1>3

(* Nothing but a thread of the run touches the state of the scheduler.     *)
LEMMA OthersKeepOff ==
    ASSUME [PyNext]_pyVars
    PROVE  UNCHANGED vars \/ \E t \in Task : RunThread(t)
  <1>1. CASE Feeder
    BY <1>1 DEF Feeder, FeederConnects, FeederWaits, FeederNext, FeederGets, FeederReleases,
                FeederStops, FeederLeaves, notFeeder
  <1>2. CASE Runner
    BY <1>2 DEF Runner, RunnerClearsDone, RunnerRuns, RunnerReturns, RunnerSetsDone, RunnerResets,
                notRunner
  <1>3. CASE Main
    BY <1>3 DEF Main, MainRuns, MainSetsStarted, MainYields, MainPolls, MainTakes, MainGivesBack,
                MainJoins, notMain
  <1>4. CASE Ended \/ UNCHANGED pyVars
    BY <1>4 DEF Ended, pyVars
  <1> QED BY <1>1, <1>2, <1>3, <1>4 DEF PyNext

(* Whatever the application does, its graph runs as the scheduler runs a   *)
(* graph: every theorem about module Scheduler holds for it.               *)
THEOREM PyRefines == PySpec => Spec
  <1>1. PyInit => Init
    BY DEF PyInit
  <1>2. [PyNext]_pyVars => [Next]_vars
    <2> SUFFICES ASSUME [PyNext]_pyVars PROVE [Next]_vars
      OBVIOUS
    <2>1. UNCHANGED vars \/ \E t \in Task : Run(t)
      BY OthersKeepOff, ThreadRuns
    <2> QED BY <2>1 DEF Next
  <1> QED BY <1>1, <1>2, PTL DEF PySpec, Spec

(* A thread that has left takes no step. *)
LEMMA DoneStays ==
    ASSUME NEW t \in Task, RunThread(t)
    PROVE  pc[t] # "done"
  <1>1. CASE Run(t)
    BY <1>1 DEF Run, PopInput, SkipInput, Stop, Proceed, Fail, PopOut, Generate, Process, Reduce,
                Reget, Regenerate, Push, BroadcastCopy, ReleaseInput, Flush, GotInputs, Getting,
                Releasing
  <1>2. CASE t = OutTask /\ ProcessedHandler
    BY <1>2 DEF ProcessedHandler
  <1> QED BY <1>1, <1>2, ThreadRuns

LEMMA RunnerInit == PyInit => RunnerInv
  BY FeedFacts DEF PyInit, Init, InitOf, InitOutputTask, RunnerInv, Before

LEMMA RunnerNext ==
    ASSUME TypeInv, RunnerInv, [PyNext]_pyVars
    PROVE  RunnerInv'
  <1>1. CASE Feeder
    <2>1. /\ UNCHANGED <<vars, main, done, runner, outputTaskVars, results, yielded>>
          /\ feeder # "broken" /\ feeder' # "broken"
      BY <1>1 DEF Feeder, FeederConnects, FeederWaits, FeederNext, FeederGets, FeederReleases,
                  FeederStops, FeederLeaves, notFeeder, mainVars, runnerVars, ioVars
    <2> QED BY <2>1 DEF RunnerInv, Before, NotRunning, AllDone, vars, threadVars, ghostVars,
                        outputTaskVars
  <1>2. CASE Runner
    <2>1. UNCHANGED <<vars, outputTaskVars, results, yielded>>
      BY <1>2 DEF Runner, RunnerClearsDone, RunnerRuns, RunnerReturns, RunnerSetsDone,
                  RunnerResets, notRunner, ioVars
    <2>2. UNCHANGED <<pc, log, aborted, ready>>
      BY <2>1 DEF vars, threadVars, ghostVars, outputTaskVars
    <2>3. AllDone' <=> AllDone
      BY <2>2 DEF AllDone
    <2> QED BY <1>2, <2>1, <2>2, <2>3 DEF Runner, RunnerClearsDone, RunnerRuns, RunnerReturns,
               RunnerSetsDone, RunnerResets, RunnerInv, Before, NotRunning
  <1>3. CASE Main
    <2>1. UNCHANGED <<vars, feeder, done>>
      BY <1>3 DEF Main, MainRuns, MainSetsStarted, MainYields, MainPolls, MainTakes, MainGivesBack,
                  MainJoins, notMain, feederVars, runnerVars
    <2>2. UNCHANGED <<pc, log, aborted>>
      BY <2>1 DEF vars, threadVars, ghostVars
    <2>3. AllDone' <=> AllDone
      BY <2>2 DEF AllDone
    <2>4. CASE MainRuns
      BY <2>1, <2>2, <2>3, <2>4 DEF MainRuns, RunnerInv, Before, NotRunning, outputTaskVars
    <2>5. CASE MainSetsStarted \/ MainPolls \/ MainJoins
      BY <2>1, <2>2, <2>3, <2>5 DEF MainSetsStarted, MainPolls, MainJoins, RunnerInv, Before,
         NotRunning, outputTaskVars, runnerVars
    <2>6. CASE MainYields \/ MainTakes \/ MainGivesBack
      BY <2>1, <2>2, <2>3, <2>6 DEF MainYields, MainTakes, GetOutputBuffer, MainGivesBack,
         RunnerInv, Before, NotRunning, runnerVars
    <2> QED BY <1>3, <2>4, <2>5, <2>6 DEF Main
  <1>4. ASSUME NEW t \in Task, RunThread(t) PROVE RunnerInv'
    <2>1. runner = "running" /\ UNCHANGED <<runner, done, main, feeder>>
      BY <1>4, ThreadFacts DEF feederVars, mainVars, runnerVars
    <2>2. UNCHANGED aborted
      BY <1>4, ThreadRuns, OwnStep DEF vars
    <2>3. ~ AllDone
      BY <1>4, DoneStays DEF AllDone
    <2> QED BY <2>1, <2>2, <2>3 DEF RunnerInv, Before, NotRunning
  <1>5. CASE Ended \/ UNCHANGED pyVars
    <2>1. UNCHANGED <<vars, main, done, runner, feeder, outputTaskVars, results, yielded>>
      BY <1>5 DEF Ended, pyVars, appVars, mainVars, runnerVars, feederVars, ioVars
    <2> QED BY <2>1 DEF RunnerInv, Before, NotRunning, AllDone, vars, threadVars, ghostVars,
                        outputTaskVars
  <1> QED BY <1>1, <1>2, <1>3, <1>4, <1>5 DEF PyNext

----------------------------------------------------------------------------
(* What is handed in                                                       *)

LEMMA ShortSeqs ==
    /\ Range(<<>>) = {}
    /\ \A a : /\ Range(<<a>>) = {a} /\ Head(<<a>>) = a /\ Tail(<<a>>) = <<>>
              /\ Append(<<>>, a) = <<a>> /\ <<a>> # <<>>
    /\ \A a, b : /\ Range(<<a, b>>) = {a, b} /\ Head(<<a, b>>) = a /\ Tail(<<a, b>>) = <<b>>
                 /\ Append(<<a>>, b) = <<a, b>> /\ <<a, b>> # <<>>
  <1>1. Range(<<>>) = {}
    BY EmptyRange
  <1>2. ASSUME NEW a
        PROVE  /\ Range(<<a>>) = {a} /\ Head(<<a>>) = a /\ Tail(<<a>>) = <<>>
               /\ Append(<<>>, a) = <<a>> /\ <<a>> # <<>>
    <2>1. Range(<<a>>) = {a}
      BY DEF Range
    <2> QED BY <2>1
  <1>3. ASSUME NEW a, NEW b
        PROVE  /\ Range(<<a, b>>) = {a, b} /\ Head(<<a, b>>) = a /\ Tail(<<a, b>>) = <<b>>
               /\ Append(<<a>>, b) = <<a, b>> /\ <<a, b>> # <<>>
    <2>1. Range(<<a, b>>) = {a, b}
      BY DEF Range
    <2>2. Head(<<a, b>>) = a /\ <<a, b>> # <<>>
      OBVIOUS
    <2>3. Tail(<<a, b>>) = <<b>>
      OBVIOUS
    <2>4. Append(<<a>>, b) = <<a, b>>
      <3>1. <<a>> \in Seq({a, b}) /\ <<a, b>> \in Seq({a, b})
        OBVIOUS
      <3>2. /\ Append(<<a>>, b) \in Seq({a, b}) /\ Len(Append(<<a>>, b)) = Len(<<a>>) + 1
            /\ \A i \in 1..Len(<<a>>) : Append(<<a>>, b)[i] = <<a>>[i]
            /\ Append(<<a>>, b)[Len(<<a>>) + 1] = b
        BY <3>1, AppendProperties
      <3>3. PICK s : s = Append(<<a>>, b)
        OBVIOUS
      <3>4. s \in Seq({a, b}) /\ Len(s) = 2 /\ s[1] = a /\ s[2] = b
        BY <3>2, <3>3
      <3>5. s = <<a, b>>
        BY <3>1, <3>4, SeqEqual
      <3> QED BY <3>3, <3>5
    <2> QED BY <2>1, <2>2, <2>3, <2>4
  <1> QED BY <1>1, <1>2, <1>3

(* What the feeder's own steps leave alone. *)
LEMMA FeederFrame ==
    ASSUME Feeder
    PROVE  UNCHANGED <<pc, count, input, log, results, yielded, main, runner, length, consumer>>
           /\ UNCHANGED <<vars, outputTaskVars>>
  BY DEF Feeder, FeederConnects, FeederWaits, FeederNext, FeederGets, GetInputBuffer,
         FeederReleases, ReleaseInputBuffer, FeederStops, StopInput, FeederLeaves, notFeeder,
         mainVars, runnerVars, ioVars, inputTaskVars, vars, threadVars, ghostVars

LEMMA FedKeeps ==
    ASSUME NEW k, NEW t, Fed(k, t),
           pc'[t] = pc[t], count'[t] = count[t], input'[t] = input[t], fed'[t] = fed[t],
           spent'[t] = spent[t], Released(k)' = Released(k), Told(k) => Told(k)',
           Filling(k)' => Filling(k)
    PROVE  Fed(k, t)'
  BY DEF Fed, InHand, Underway

LEMMA FeedInit == PyInit => FeedInv /\ FilledInv
  <1> SUFFICES ASSUME PyInit PROVE FeedInv /\ FilledInv
    OBVIOUS
  <1>1. /\ item = 0 /\ turn = 1 /\ feeder = "connect" /\ runner = "idle" /\ length \in 0..MaxLength
        /\ fed = [t \in InTask |-> <<>>] /\ spent = [t \in InTask |-> <<>>]
        /\ input = [t \in InTask |-> NoBuffer] /\ filled = [t \in InTask |-> 0]
        /\ pc = [t \in Task |-> "get"] /\ count = [t \in Task |-> 0]
    BY DEF PyInit, Init, InitOf, InitInputTasks
  <1>2. InputTasksOK
    BY <1>1 DEF InputTasksOK
  <1>3. FeederInv
    BY <1>1, FeedFacts, PythonAssumption DEF FeederInv, Order
  <1>4. \A k \in Order : Released(k) = 0 /\ ~ Filling(k)
    BY <1>1 DEF Released, Filling
  <1>5. ASSUME NEW k \in Order PROVE Fed(k, Feeds[k]) /\ filled[Feeds[k]] = 0
    <2>1. Feeds[k] \in InTask /\ Feeds[k] \in Task
      BY FeedFacts
    <2>2. ~ Underway(Feeds[k]) /\ ~ InHand(Feeds[k])
      BY <1>1, <2>1, ShortSeqs DEF Underway, InHand
    <2> QED BY <1>1, <1>4, <2>1, <2>2, ShortSeqs DEF Fed
  <1> QED BY <1>1, <1>2, <1>3, <1>4, <1>5 DEF FeedInv, FilledInv

(* The feeder turns to the next input task, or starts over. *)
LEMMA NextTurnFacts ==
    ASSUME turn \in Order, NextTurn
    PROVE  /\ turn' \in Order
           /\ LastTurn => turn' = 1 /\ \A k \in Order : k < turn \/ k = turn
           /\ ~ LastTurn => turn' = turn + 1 /\ \A k \in Order : k < turn' <=> k < turn \/ k = turn
  BY FeedFacts DEF NextTurn, LastTurn, Order

LEMMA FeederInvNext ==
    ASSUME FeederInv, Feeder
    PROVE  FeederInv'
  <1>0. UNCHANGED length /\ length \in Nat /\ item \in Nat /\ turn \in Order /\ 1 \in Order
    BY FeederFrame, FeedFacts DEF FeederInv, Order
  <1>1. CASE FeederConnects
    BY <1>0, <1>1, NextTurnFacts DEF FeederConnects, FeederInv
  <1>2. CASE FeederWaits \/ FeederNext \/ FeederLeaves
    BY <1>0, <1>2 DEF FeederWaits, FeederNext, FeederLeaves, FeederInv
  <1>3. CASE FeederGets
    BY <1>0, <1>3 DEF FeederGets, FeederInv
  <1>4. CASE FeederReleases
    BY <1>0, <1>4, NextTurnFacts DEF FeederReleases, FeederInv
  <1>5. CASE FeederStops
    BY <1>0, <1>5, NextTurnFacts DEF FeederStops, FeederInv
  <1> QED BY <1>1, <1>2, <1>3, <1>4, <1>5 DEF Feeder

(* How many arrays an input task was given, after a step of the feeder. *)
LEMMA ReleasedNext ==
    ASSUME FeederInv, Feeder, NEW k \in Order
    PROVE  /\ Released(k) \in Nat
           /\ IF FeederReleases /\ k = turn
                THEN Released(k)' = Released(k) + 1 ELSE Released(k)' = Released(k)
           /\ Told(k) => Told(k)'
           /\ Told(k)' => Told(k) \/ (FeederStops /\ k = turn)
           /\ Filling(k)' => FeederGets /\ k = turn
           /\ FeederGets /\ k = turn => Filling(k)' /\ Released(k) = item
           /\ FeederReleases /\ k = turn => Filling(k) /\ ~ Told(k)
           /\ FeederStops /\ k = turn => ~ Told(k)
           /\ Filling(k) => FeederReleases /\ k = turn
  <1>0. /\ turn \in Order /\ item \in Nat /\ Order \subseteq Nat
        /\ feeder \in {"wait", "next", "leave", "end"} => turn = 1
        /\ \A j \in Order : ~ j < 1
    BY FeedFacts DEF FeederInv, Order
  <1>1. CASE FeederConnects \/ FeederWaits \/ FeederLeaves
    BY <1>0, <1>1, FeedFacts DEF FeederConnects, FeederWaits, FeederLeaves, FeederInv, Released,
       Filling, Told, FeederGets, FeederReleases, FeederStops
  <1>2. CASE FeederNext
    BY <1>0, <1>2, FeedFacts DEF FeederNext, Released, Filling, Told, FeederGets, FeederReleases,
       FeederStops
  <1>3. CASE FeederGets
    BY <1>0, <1>3, FeedFacts DEF FeederGets, Released, Filling, Told, FeederReleases, FeederStops
  <1>4. CASE FeederReleases
    <2>1. NextTurn /\ feeder = "release" /\ item' = (IF LastTurn THEN item + 1 ELSE item)
          /\ feeder' = (IF LastTurn THEN "next" ELSE "get") /\ k \in Nat /\ turn \in Nat
      BY <1>0, <1>4 DEF FeederReleases
    <2>2. ~ FeederGets /\ ~ FeederStops
      BY <2>1 DEF FeederGets, FeederStops
    <2>3. CASE LastTurn
      BY <1>0, <1>4, <2>1, <2>2, <2>3, NextTurnFacts DEF Released, Filling, Told
    <2>4. CASE ~ LastTurn
      BY <1>0, <1>4, <2>1, <2>2, <2>4, NextTurnFacts DEF Released, Filling, Told
    <2> QED BY <2>3, <2>4
  <1>5. CASE FeederStops
    <2>1. NextTurn /\ feeder = "stop" /\ item' = item
          /\ feeder' = (IF LastTurn THEN "leave" ELSE "stop") /\ k \in Nat /\ turn \in Nat
      BY <1>0, <1>5 DEF FeederStops
    <2>2. ~ FeederGets /\ ~ FeederReleases
      BY <2>1 DEF FeederGets, FeederReleases
    <2> QED BY <1>0, <1>5, <2>1, <2>2, NextTurnFacts DEF Released, Filling, Told
  <1> QED BY <1>1, <1>2, <1>3, <1>4, <1>5 DEF Feeder

(* What the feeder does to the queues of the k-th input task. *)
LEMMA FeederQueues ==
    ASSUME InputTasksOK, FeederInv, Feeder, NEW k \in Order, NEW t, t = Feeds[k]
    PROVE  /\ DOMAIN fed' = InTask /\ DOMAIN spent' = InTask /\ DOMAIN input' = InTask
           /\ fed'[t] = IF FeederReleases /\ k = turn THEN Append(fed[t], t)
                        ELSE IF FeederStops /\ k = turn THEN Append(fed[t], PoisonPill)
                        ELSE fed[t]
           /\ IF FeederGets /\ k = turn /\ item # 0
                THEN spent[t] # <<>> /\ spent'[t] = Tail(spent[t])
                ELSE spent'[t] = spent[t]
  <1>0. turn \in Order /\ t \in InTask /\ Turn \in InTask /\ (Turn = t <=> k = turn)
    BY FeedFacts DEF FeederInv, Turn
  <1>1. CASE FeederConnects \/ FeederWaits \/ FeederNext \/ FeederLeaves
    <2>1. UNCHANGED <<fed, spent, input>>
      BY <1>1 DEF FeederConnects, FeederWaits, FeederNext, FeederLeaves, ioVars, inputTaskVars
    <2>2. ~ FeederGets /\ ~ FeederReleases /\ ~ FeederStops
      BY <1>1 DEF FeederConnects, FeederWaits, FeederNext, FeederLeaves, FeederGets,
                  FeederReleases, FeederStops
    <2> QED BY <2>1, <2>2 DEF InputTasksOK
  <1>2. CASE FeederGets
    <2>1. ~ FeederReleases /\ ~ FeederStops
      BY <1>2 DEF FeederGets, FeederReleases, FeederStops
    <2>2. CASE item = 0
      <3>1. UNCHANGED <<fed, spent, input>>
        BY <1>2, <2>2 DEF FeederGets, inputTaskVars
      <3> QED BY <2>1, <2>2, <3>1 DEF InputTasksOK
    <2>3. CASE item # 0
      <3>1. GetInputBuffer(Turn)
        BY <1>2, <2>3 DEF FeederGets
      <3> QED BY <1>0, <1>2, <2>1, <2>3, <3>1 DEF GetInputBuffer, InputTasksOK
    <2> QED BY <2>2, <2>3
  <1>3. CASE FeederReleases
    <2>1. ~ FeederGets /\ ~ FeederStops /\ ReleaseInputBuffer(Turn, Turn)
      BY <1>3 DEF FeederGets, FeederReleases, FeederStops
    <2> QED BY <1>0, <1>3, <2>1 DEF ReleaseInputBuffer, InputTasksOK
  <1>4. CASE FeederStops
    <2>1. ~ FeederGets /\ ~ FeederReleases /\ ReleaseInputBuffer(Turn, PoisonPill)
      BY <1>4 DEF FeederGets, FeederReleases, FeederStops, StopInput
    <2> QED BY <1>0, <1>4, <2>1 DEF ReleaseInputBuffer, InputTasksOK
  <1> QED BY <1>1, <1>2, <1>3, <1>4 DEF Feeder

LEMMA FeederFeeds ==
    ASSUME TypeInv, InputTasksOK, FeederInv, Feeder, NEW k \in Order, NEW t, t = Feeds[k], Fed(k, t)
    PROVE  Fed(k, t)'
  <1>0. t \in Task /\ t # PoisonPill /\ count[t] \in Nat /\ Released(k) \in Nat
    BY FeedFacts, ReleasedNext, PythonAssumption DEF TypeInv, TypeOK, ThreadsOK
  <1>1. pc'[t] = pc[t] /\ count'[t] = count[t] /\ input'[t] = input[t]
    BY FeederFrame
  <1>2. InHand(t)' <=> InHand(t)
    BY <1>1 DEF InHand
  <1>3. CASE FeederGets /\ k = turn
    <2>1. fed'[t] = fed[t] /\ Released(k)' = Released(k) /\ Released(k) = item /\ ~ Filling(k)
          /\ (Told(k) => Told(k)')
      <3>1. ~ FeederReleases /\ ~ FeederStops
        BY <1>3 DEF FeederGets, FeederReleases, FeederStops
      <3> QED BY <1>3, <3>1, FeederQueues, ReleasedNext
    <2>2. ~ Underway(t) /\ spent'[t] = <<>>
      <3>1. CASE item = 0
        BY <1>0, <1>3, <2>1, <3>1, FeederQueues DEF Fed
      <3>2. CASE item # 0
        <4>1. spent[t] # <<>> /\ spent'[t] = Tail(spent[t])
          BY <1>3, <3>2, FeederQueues
        <4>2. spent[t] = <<t>> /\ ~ Underway(t)
          BY <4>1 DEF Fed
        <4>3. Tail(<<t>>) = <<>>
          BY ShortSeqs
        <4> QED BY <4>1, <4>2, <4>3
      <3> QED BY <3>1, <3>2
    <2>3. ~ Underway(t)'
      BY <1>2, <2>1, <2>2 DEF Underway
    <2> QED BY <1>1, <1>2, <2>1, <2>2, <2>3 DEF Fed
  <1>4. CASE FeederReleases /\ k = turn
    <2>1. /\ Released(k)' = Released(k) + 1 /\ Filling(k) /\ ~ Told(k) /\ ~ Filling(k)'
          /\ ~ FeederGets /\ ~ FeederStops
      <3>1. ~ FeederGets /\ ~ FeederStops
        BY <1>4 DEF FeederGets, FeederReleases, FeederStops
      <3> QED BY <1>4, <3>1, ReleasedNext
    <2>2. ~ Underway(t) /\ spent[t] = <<>> /\ fed[t] = <<>>
      BY <2>1, ShortSeqs DEF Fed, Underway
    <2>3. fed'[t] = <<t>> /\ spent'[t] = <<>>
      BY <1>4, <2>1, <2>2, FeederQueues, ShortSeqs
    <2>4. Underway(t)' /\ ~ InHand(t)' /\ pc[t] # "done"
          /\ ~ (pc[t] \in {"popout", "work"} /\ input[t] = PoisonPill)
      BY <1>2, <2>1, <2>2, <2>3, ShortSeqs DEF Underway, Fed
    <2>5. PoisonPill \notin Range(fed'[t])
      BY <1>0, <2>3, ShortSeqs
    <2>6. count'[t] = Released(k)' - 1
      BY <1>0, <1>1, <2>1, <2>2 DEF Fed
    <2> QED BY <1>1, <2>1, <2>3, <2>4, <2>5, <2>6 DEF Fed
  <1>5. CASE FeederStops /\ k = turn
    <2>1. /\ Released(k)' = Released(k) /\ Told(k)' /\ ~ Told(k) /\ ~ Filling(k)' /\ ~ Filling(k)
          /\ ~ FeederGets /\ ~ FeederReleases
      <3>1. ~ FeederGets /\ ~ FeederReleases
        BY <1>5 DEF FeederGets, FeederReleases, FeederStops
      <3>2. Told(k)'
        BY <1>5, NextTurnFacts, FeedFacts DEF FeederStops, FeederInv, Told, Order
      <3> QED BY <1>5, <3>1, <3>2, ReleasedNext
    <2>2. /\ spent'[t] = spent[t] /\ fed'[t] = Append(fed[t], PoisonPill)
          /\ fed[t] \in {<<>>, <<t>>} /\ pc[t] # "done"
          /\ ~ (pc[t] \in {"popout", "work"} /\ input[t] = PoisonPill)
      <3>1. spent'[t] = spent[t] /\ fed'[t] = Append(fed[t], PoisonPill)
        BY <1>5, <2>1, FeederQueues
      <3>2. PoisonPill \notin Range(fed[t]) /\ pc[t] # "done"
            /\ ~ (pc[t] \in {"popout", "work"} /\ input[t] = PoisonPill)
        BY <2>1 DEF Fed
      <3>3. PoisonPill \in Range(<<PoisonPill>>) /\ PoisonPill \in Range(<<t, PoisonPill>>)
        BY ShortSeqs
      <3>4. fed[t] \in {<<>>, <<t>>}
        BY <3>2, <3>3 DEF Fed
      <3> QED BY <3>1, <3>2, <3>4
    <2>3. /\ fed'[t] \in {<<PoisonPill>>, <<t, PoisonPill>>}
          /\ t \in Range(fed'[t]) <=> t \in Range(fed[t])
      <3>1. CASE fed[t] = <<>>
        <4>1. fed'[t] = <<PoisonPill>> /\ Range(fed[t]) = {} /\ Range(fed'[t]) = {PoisonPill}
          BY <2>2, <3>1, ShortSeqs
        <4> QED BY <1>0, <4>1
      <3>2. CASE fed[t] = <<t>>
        <4>1. fed'[t] = Append(<<t>>, PoisonPill)
          BY <2>2, <3>2
        <4>2. Append(<<t>>, PoisonPill) = <<t, PoisonPill>>
          BY ShortSeqs
        <4>3. Range(fed[t]) = {t} /\ Range(<<t, PoisonPill>>) = {t, PoisonPill}
          BY <3>2, ShortSeqs
        <4> QED BY <4>1, <4>2, <4>3
      <3> QED BY <2>2, <3>1, <3>2
    <2>4. Underway(t)' <=> Underway(t)
      BY <1>2, <2>3 DEF Underway
    <2> QED BY <1>1, <1>2, <2>1, <2>2, <2>3, <2>4 DEF Fed
  <1>6. CASE ~ (k = turn /\ (FeederGets \/ FeederReleases \/ FeederStops))
    BY <1>1, <1>6, FeederQueues, ReleasedNext, FedKeeps
  <1> QED BY <1>3, <1>4, <1>5, <1>6

(* A caller that keeps its arrays: the feeder takes one up at a time. *)
LEMMA FeederFills ==
    ASSUME KeptBy = "caller", InputTasksOK, FeederInv, Feeder, NEW k \in Order, NEW t, t = Feeds[k],
           filled[t] = IF Filling(k) THEN Released(k) + 1 ELSE Released(k)
    PROVE  filled'[t] = IF Filling(k)' THEN Released(k)' + 1 ELSE Released(k)'
  <1>0. turn \in Order /\ t \in InTask /\ Turn \in InTask /\ (Turn = t <=> k = turn)
    BY FeedFacts DEF FeederInv, Turn
  <1>1. CASE FeederGets
    <2>1. filled' = [filled EXCEPT ![Turn] = item + 1] /\ ~ FeederReleases
      BY <1>1 DEF FeederGets, FeederReleases
    <2>2. filled'[t] = IF k = turn THEN item + 1 ELSE filled[t]
      BY <1>0, <2>1 DEF InputTasksOK
    <2> QED BY <1>1, <2>1, <2>2, ReleasedNext
  <1>2. CASE ~ FeederGets
    <2>1. UNCHANGED filled
      BY <1>2 DEF Feeder, FeederConnects, FeederWaits, FeederNext, FeederReleases, FeederStops,
                  FeederLeaves
    <2>2. ~ Filling(k)' /\ (Filling(k) <=> FeederReleases /\ k = turn)
      BY <1>2, ReleasedNext
    <2>3. Released(k) \in Nat
      BY ReleasedNext
    <2> QED BY <2>1, <2>2, <2>3, ReleasedNext
  <1> QED BY <1>1, <1>2

(* The steps of the thread of an input task. *)
LEMMA InputSteps ==
    ASSUME TypeInv, NEW t \in InTask, RunThread(t)
    PROVE  /\ \/ /\ pc[t] = "get" /\ pc'[t] = "popout" /\ GetRequisition(t)
                 /\ count'[t] = count[t]
              \/ /\ pc[t] = "popout" /\ pc'[t] = "work" /\ UNCHANGED inputTaskVars
                 /\ count'[t] = count[t]
              \/ /\ pc[t] = "work" /\ pc'[t] = "push" /\ Spend(t)
                 /\ count'[t] = count[t] + 1
              \/ /\ pc[t] = "work" /\ pc'[t] = "done" /\ Exhausted(t)
                 /\ count'[t] = count[t]
              \/ /\ pc[t] = "push" /\ pc'[t] \in {"get", "push"} /\ UNCHANGED inputTaskVars
                 /\ count'[t] = count[t]
           /\ \A u \in Task \ {t} : pc'[u] = pc[u] /\ count'[u] = count[u]
           /\ UNCHANGED <<outputTaskVars, results, log>>
  <1>0. /\ t \in Task /\ Mode[t] = "generator" /\ NInputs(t) = 0 /\ RunInput(t)
        /\ pc \in [Task -> PCs] /\ count \in [Task -> Nat] /\ Position(t)
    BY FeedFacts, ThreadFacts DEF TypeInv, TypeOK, ThreadsOK, Positions
  <1>1. CASE Proceed(t) /\ GetRequisition(t)
    BY <1>0, <1>1 DEF Proceed, GotInputs, RunInput, ghostVars
  <1>2. CASE Generate(t) /\ (IF pc'[t] = "push" THEN Spend(t) ELSE Exhausted(t))
    <2>1. CASE pc' = [pc EXCEPT ![t] = "push"] /\ Produce(t)
      BY <1>0, <1>2, <2>1 DEF Produce, Generate, RunInput, ghostVars
    <2>2. CASE Leave(t) /\ UNCHANGED <<count, ghostVars>>
      BY <1>0, <1>2, <2>2 DEF Leave, Generate, RunInput, ghostVars
    <2> QED BY <1>2, <2>1, <2>2 DEF Generate
  <1>3. CASE PopOut(t) /\ UNCHANGED inputTaskVars
    BY <1>0, <1>3 DEF PopOut, Position, Reducing, RunInput, ghostVars
  <1>4. CASE Push(t) /\ UNCHANGED inputTaskVars
    BY <1>0, <1>4 DEF Push, AfterPush, Position, Reducing, RunInput, ghostVars
  <1>5. CASE BroadcastCopy(t) /\ UNCHANGED inputTaskVars
    BY <1>0, <1>5 DEF BroadcastCopy, Position, Reducing, RunInput, ghostVars
  <1> QED BY <1>0, <1>1, <1>2, <1>3, <1>4, <1>5 DEF RunInput

LEMMA InputThreadFeeds ==
    ASSUME TypeInv, InputTasksOK, FeederInv, NEW k \in Order, NEW t, t = Feeds[k], Fed(k, t),
           RunThread(t)
    PROVE  Fed(k, t)'
  <1>0. /\ t \in InTask /\ t \in Task /\ t # PoisonPill /\ count[t] \in Nat
        /\ Released(k)' = Released(k) /\ (Told(k)' <=> Told(k)) /\ (Filling(k)' <=> Filling(k))
    <2>1. t \in InTask /\ t \in Task
      BY FeedFacts
    <2>2. UNCHANGED <<feeder, item, turn>>
      BY <2>1, ThreadFacts DEF feederVars
    <2> QED BY <2>1, <2>2, PythonAssumption DEF TypeInv, TypeOK, ThreadsOK, Released, Told, Filling
  <1>1. Released(k) \in Nat
    BY DEF Released, FeederInv
  <1>2. CASE /\ pc[t] = "get" /\ pc'[t] = "popout" /\ GetRequisition(t) /\ count'[t] = count[t]
    <2>1. /\ fed[t] # <<>> /\ input'[t] = Head(fed[t]) /\ fed'[t] = Tail(fed[t])
          /\ spent' = spent /\ ~ InHand(t)
      BY <1>0, <1>2 DEF GetRequisition, InputTasksOK, InHand
    <2>2. CASE fed[t] = <<t>> \/ fed[t] = <<t, PoisonPill>>
      <3>1. /\ Head(fed[t]) = t /\ Tail(fed[t]) \in {<<>>, <<PoisonPill>>}
            /\ t \in Range(fed[t]) /\ t \notin Range(Tail(fed[t]))
            /\ PoisonPill \in Range(Tail(fed[t])) => PoisonPill \in Range(fed[t])
        <4>1. CASE fed[t] = <<t>>
          <5>1. Head(<<t>>) = t /\ Tail(<<t>>) = <<>> /\ Range(<<t>>) = {t} /\ Range(<<>>) = {}
            BY ShortSeqs
          <5> QED BY <4>1, <5>1
        <4>2. CASE fed[t] = <<t, PoisonPill>>
          <5>1. /\ Head(<<t, PoisonPill>>) = t /\ Tail(<<t, PoisonPill>>) = <<PoisonPill>>
                /\ Range(<<t, PoisonPill>>) = {t, PoisonPill}
                /\ Range(<<PoisonPill>>) = {PoisonPill}
            BY ShortSeqs
          <5> QED BY <1>0, <4>2, <5>1
        <4> QED BY <2>2, <4>1, <4>2
      <3>2. Underway(t) /\ Underway(t)' /\ InHand(t)'
        BY <1>0, <1>2, <2>1, <3>1 DEF Underway, InHand
      <3> QED BY <1>0, <1>2, <2>1, <3>1, <3>2 DEF Fed
    <2>3. CASE fed[t] = <<PoisonPill>>
      <3>1. /\ Head(fed[t]) = PoisonPill /\ Tail(fed[t]) = <<>>
            /\ Range(fed[t]) = {PoisonPill} /\ Range(Tail(fed[t])) = {}
        BY <2>3, ShortSeqs
      <3>2. ~ Underway(t) /\ ~ Underway(t)' /\ ~ InHand(t)'
        BY <1>0, <1>2, <2>1, <3>1 DEF Underway, InHand
      <3> QED BY <1>0, <1>2, <2>1, <3>1, <3>2 DEF Fed
    <2> QED BY <2>1, <2>2, <2>3 DEF Fed
  <1>3. CASE /\ pc[t] = "popout" /\ pc'[t] = "work" /\ UNCHANGED inputTaskVars
             /\ count'[t] = count[t]
    <2>1. (InHand(t)' <=> InHand(t)) /\ UNCHANGED <<fed, spent, input>>
      BY <1>3 DEF InHand, inputTaskVars
    <2>2. Underway(t)' <=> Underway(t)
      BY <2>1 DEF Underway
    <2> QED BY <1>0, <1>3, <2>1, <2>2 DEF Fed
  <1>4. CASE /\ pc[t] = "work" /\ pc'[t] = "push" /\ Spend(t) /\ count'[t] = count[t] + 1
    <2>1. /\ input[t] # PoisonPill /\ spent'[t] = Append(spent[t], input[t])
          /\ UNCHANGED <<fed, input>>
      BY <1>0, <1>4 DEF Spend, InputTasksOK
    <2>2. InHand(t) /\ Underway(t) /\ input[t] = t /\ spent[t] = <<>> /\ t \notin Range(fed[t])
      BY <1>4, <2>1 DEF InHand, Underway, Fed
    <2>3. spent'[t] = <<t>> /\ spent'[t] # <<>>
      BY <2>1, <2>2, ShortSeqs
    <2>4. ~ InHand(t)' /\ ~ Underway(t)'
      BY <1>4, <2>1, <2>2 DEF InHand, Underway
    <2> QED BY <1>0, <1>1, <1>4, <2>1, <2>2, <2>3, <2>4 DEF Fed
  <1>5. CASE /\ pc[t] = "work" /\ pc'[t] = "done" /\ Exhausted(t) /\ count'[t] = count[t]
    <2>1. input[t] = PoisonPill /\ UNCHANGED <<fed, spent, input>>
      BY <1>5 DEF Exhausted
    <2>2. fed[t] = <<>> /\ Told(k) /\ Range(<<>>) = {}
      BY <1>5, <2>1, ShortSeqs DEF Fed
    <2>3. ~ InHand(t) /\ ~ InHand(t)' /\ ~ Underway(t) /\ ~ Underway(t)'
      BY <1>5, <2>1, <2>2 DEF InHand, Underway
    <2> QED BY <1>0, <1>5, <2>1, <2>2, <2>3 DEF Fed
  <1>6. CASE /\ pc[t] = "push" /\ pc'[t] \in {"get", "push"} /\ UNCHANGED inputTaskVars
             /\ count'[t] = count[t]
    <2>1. ~ InHand(t)' /\ ~ InHand(t) /\ UNCHANGED <<fed, spent, input>>
      BY <1>6 DEF InHand, inputTaskVars
    <2>2. Underway(t)' <=> Underway(t)
      BY <2>1 DEF Underway
    <2> QED BY <1>0, <1>6, <2>1, <2>2 DEF Fed
  <1> QED BY <1>0, <1>2, <1>3, <1>4, <1>5, <1>6, InputSteps

LEMMA CountStays ==
    ASSUME TypeInv, NEW u \in Task, Run(u), NEW t \in Task \ {u}
    PROVE  count'[t] = count[t]
  <1>1. \E n : count' = count \/ count' = [count EXCEPT ![u] = n]
    BY Zenon DEF Run, PopInput, SkipInput, Stop, Proceed, Fail, PopOut, Generate, Produce, Process,
         Reduce, Reget, Regenerate, NoMore, Push, BroadcastCopy, ReleaseInput, Flush
  <1>2. count \in [Task -> Nat]
    BY DEF TypeInv, TypeOK, ThreadsOK
  <1> QED BY <1>1, <1>2

(* What a thread does to another input task than its own: nothing. *)
LEMMA OtherInputs ==
    ASSUME TypeInv, InputTasksOK, NEW u \in Task, RunThread(u)
    PROVE  /\ InputTasksOK'
           /\ UNCHANGED <<feederVars, length, runner>>
           /\ \A t \in InTask \ {u} :
                 /\ fed'[t] = fed[t] /\ spent'[t] = spent[t] /\ input'[t] = input[t]
                 /\ pc'[t] = pc[t] /\ count'[t] = count[t]
  <1>1. UNCHANGED <<feederVars, length, runner, filled>>
    BY ThreadFacts DEF feederVars, runnerVars
  <1>2. CASE u \in InTask
    <2>1. \A t \in InTask \ {u} : pc'[t] = pc[t] /\ count'[t] = count[t]
      BY <1>2, InputSteps, FeedFacts
    <2>2. GetRequisition(u) \/ Spend(u) \/ Exhausted(u) \/ UNCHANGED inputTaskVars
      BY <1>2, InputSteps
    <2>3. /\ InputTasksOK'
          /\ \A t \in InTask \ {u} :
                fed'[t] = fed[t] /\ spent'[t] = spent[t] /\ input'[t] = input[t]
      BY <1>1, <2>2 DEF GetRequisition, Spend, Exhausted, inputTaskVars, InputTasksOK
    <2> QED BY <1>1, <2>1, <2>3
  <1>3. CASE u \notin InTask
    <2>1. UNCHANGED <<fed, spent, input>>
      BY <1>3, ThreadFacts DEF RunOutput, ioVars, inputTaskVars
    <2>2. \A t \in Task \ {u} : pc'[t] = pc[t] /\ count'[t] = count[t]
      <3>1. CASE Run(u)
        BY <3>1, OwnStep, CountStays
      <3>2. CASE UNCHANGED vars
        BY <3>2 DEF vars, threadVars
      <3> QED BY <3>1, <3>2, ThreadRuns
    <2> QED BY <1>1, <1>3, <2>1, <2>2, FeedFacts DEF InputTasksOK
  <1> QED BY <1>2, <1>3

(* Steps that leave the feeder and the input tasks alone. *)
LEMMA FeedStays ==
    ASSUME FeedInv, runner # "broken", UNCHANGED <<pc, count, inputTaskVars, feederVars, length>>
    PROVE  /\ FeedInv'
           /\ FilledInv => FilledInv'
  <1>1. /\ UNCHANGED <<fed, spent, input, feeder, item, turn, filled>>
        /\ \A k \in Order : /\ Released(k)' = Released(k) /\ (Filling(k)' <=> Filling(k))
                            /\ (Told(k) => Told(k)')
    BY DEF inputTaskVars, feederVars, Released, Filling, Told
  <1>2. InputTasksOK' /\ FeederInv'
    BY <1>1 DEF FeedInv, InputTasksOK, FeederInv
  <1>3. \A k \in Order : Fed(k, Feeds[k])'
    BY <1>1, FedKeeps DEF FeedInv
  <1> QED BY <1>1, <1>2, <1>3 DEF FeedInv, FilledInv

(* The feeder and the input tasks, and what is filled in if the caller     *)
(* keeps the arrays.                                                       *)
LEMMA FeedNext ==
    ASSUME TypeInv, RunnerInv, RunnerInv', FeedInv, [PyNext]_pyVars
    PROVE  FeedInv' /\ (KeptBy = "caller" /\ FilledInv => FilledInv')
  <1>1. CASE runner # "broken"
    <2>0. InputTasksOK /\ FeederInv /\ \A k \in Order : Fed(k, Feeds[k])
      BY <1>1 DEF FeedInv
    <2>1. CASE Feeder
      <3>1. FeederInv' /\ \A k \in Order : Fed(k, Feeds[k])'
        BY <2>0, <2>1, FeederInvNext, FeederFeeds
      <3>2. InputTasksOK'
        <4>1. DOMAIN fed' = InTask /\ DOMAIN spent' = InTask /\ DOMAIN input' = InTask
          BY <2>0, <2>1, FeederQueues, FeedFacts DEF FeederInv
        <4>2. DOMAIN filled' = InTask
          BY <2>0, <2>1 DEF Feeder, FeederConnects, FeederWaits, FeederNext, FeederGets,
             FeederReleases, FeederStops, FeederLeaves, InputTasksOK
        <4> QED BY <4>1, <4>2 DEF InputTasksOK
      <3>3. ASSUME KeptBy = "caller", FilledInv PROVE FilledInv'
        <4>1. \A k \in Order :
                 filled[Feeds[k]] = IF Filling(k) THEN Released(k) + 1 ELSE Released(k)
          BY <1>1, <3>3 DEF FilledInv
        <4>2. \A k \in Order :
                 filled'[Feeds[k]] = IF Filling(k)' THEN Released(k)' + 1 ELSE Released(k)'
          BY <2>0, <2>1, <3>3, <4>1, FeederFills
        <4> QED BY <4>2 DEF FilledInv
      <3> QED BY <3>1, <3>2, <3>3 DEF FeedInv
    <2>2. CASE Runner
      <3>1. UNCHANGED <<vars, ioVars, length, item, turn, filled>>
        BY <2>2 DEF Runner, RunnerClearsDone, RunnerRuns, RunnerReturns, RunnerSetsDone,
                    RunnerResets, notRunner
      <3>2. CASE UNCHANGED feeder
        <4>1. UNCHANGED <<pc, count, fed, spent, input, feeder, item, turn, filled>>
          BY <3>1, <3>2 DEF vars, threadVars, ioVars, inputTaskVars
        <4>2. \A k \in Order : /\ Released(k)' = Released(k) /\ (Filling(k)' <=> Filling(k))
                               /\ (Told(k) => Told(k)')
          BY <4>1 DEF Released, Filling, Told
        <4>3. \A k \in Order : Fed(k, Feeds[k])'
          BY <2>0, <4>1, <4>2, FedKeeps
        <4> QED BY <1>1, <2>0, <3>1, <4>1, <4>2, <4>3 DEF FeedInv, FeederInv, InputTasksOK, FilledInv
      <3>3. CASE runner' = "broken"
        BY <2>0, <3>1, <3>3 DEF FeedInv, FilledInv, InputTasksOK, ioVars, inputTaskVars
      <3> QED BY <2>2, <3>2, <3>3 DEF Runner, RunnerClearsDone, RunnerRuns, RunnerReturns,
                 RunnerSetsDone, RunnerResets
    <2>3. CASE Main
      <3>1. UNCHANGED <<vars, inputTaskVars, feederVars, length>>
        BY <2>3 DEF Main, MainRuns, MainSetsStarted, MainYields, MainPolls, MainTakes,
                    MainGivesBack, MainJoins, notMain
      <3> QED BY <1>1, <3>1, FeedStays DEF vars, threadVars
    <2>4. ASSUME NEW u \in Task, RunThread(u)
          PROVE  FeedInv' /\ (FilledInv => FilledInv')
      <3>1. /\ InputTasksOK' /\ UNCHANGED <<feeder, item, turn, filled, length, runner>>
            /\ \A t \in InTask \ {u} :
                 /\ fed'[t] = fed[t] /\ spent'[t] = spent[t] /\ input'[t] = input[t]
                 /\ pc'[t] = pc[t] /\ count'[t] = count[t]
        BY <2>0, <2>4, OtherInputs DEF feederVars
      <3>2. \A k \in Order : /\ Released(k)' = Released(k) /\ (Filling(k)' <=> Filling(k))
                             /\ (Told(k) => Told(k)')
        BY <3>1 DEF Released, Filling, Told
      <3>3. ASSUME NEW k \in Order PROVE Fed(k, Feeds[k])'
        <4>1. CASE Feeds[k] = u
          BY <2>0, <2>4, <4>1, InputThreadFeeds
        <4>2. CASE Feeds[k] # u
          BY <2>0, <3>1, <3>2, <4>2, FeedFacts, FedKeeps
        <4> QED BY <4>1, <4>2
      <3> QED BY <2>0, <3>1, <3>2, <3>3 DEF FeedInv, FeederInv, FilledInv
    <2>5. CASE Ended \/ UNCHANGED pyVars
      <3>1. UNCHANGED <<vars, inputTaskVars, feederVars, length>>
        BY <2>5 DEF Ended, pyVars, appVars, ioVars
      <3> QED BY <1>1, <3>1, FeedStays DEF vars, threadVars
    <2> QED BY <2>1, <2>2, <2>3, <2>4, <2>5 DEF PyNext
  <1>2. CASE runner = "broken"
    <2>1. feeder = "broken" /\ main = "broken"
      BY <1>2 DEF RunnerInv
    <2>2. ~ Feeder
      BY <2>1 DEF Feeder, FeederConnects, FeederWaits, FeederNext, FeederGets, FeederReleases,
                  FeederStops, FeederLeaves
    <2>3. ~ Runner
      BY <1>2 DEF Runner, RunnerClearsDone, RunnerRuns, RunnerReturns, RunnerSetsDone, RunnerResets
    <2>4. ~ Main
      BY <2>1 DEF Main, MainRuns, MainSetsStarted, MainYields, MainPolls, MainTakes, MainGivesBack,
                  MainJoins
    <2>5. \A u \in Task : ~ RunThread(u)
      BY <1>2 DEF RunThread
    <2>6. UNCHANGED <<runner, fed, spent, input, filled>>
      BY <2>2, <2>3, <2>4, <2>5 DEF PyNext, Ended, pyVars, appVars, runnerVars, feederVars, ioVars,
                                    inputTaskVars
    <2> QED BY <1>2, <2>6 DEF FeedInv, FilledInv, InputTasksOK
  <1> QED BY <1>1, <1>2

LEMMA AlwaysFed == PySpec => [](TypeInv /\ RunnerInv /\ FeedInv)
  <1>1. Spec => []TypeInv
    BY InitType, NextType, PTL DEF Spec
  <1>2. TypeInv /\ RunnerInv /\ [PyNext]_pyVars => RunnerInv'
    BY RunnerNext
  <1>3. TypeInv /\ RunnerInv /\ RunnerInv' /\ FeedInv /\ [PyNext]_pyVars => FeedInv'
    BY FeedNext
  <1> QED BY <1>1, <1>2, <1>3, PyRefines, RunnerInit, FeedInit, PTL DEF PySpec

(* As long as the caller keeps the arrays, an input task copies the array  *)
(* that is next: the feeder does not take up another one for its buffer    *)
(* before the thread of the task has given it back (input_data,            *)
(* ufo_input_task_get_requisition and _generate).                          *)
THEOREM FedIntactCorrect ==
    ASSUME KeptBy = "caller"
    PROVE  PySpec => []FedIntact
  <1>1. TypeInv /\ RunnerInv /\ RunnerInv' /\ FeedInv /\ FilledInv /\ [PyNext]_pyVars => FilledInv'
    BY FeedNext
  <1>2. TypeInv /\ RunnerInv /\ FeedInv /\ FilledInv => FedIntact
    <2> SUFFICES ASSUME TypeInv, RunnerInv, FeedInv, FilledInv, NEW t \in InTask,
                        pc[t] \in {"popout", "work"}, input[t] # PoisonPill
                 PROVE  filled[t] = count[t] + 1
      BY DEF FedIntact
    <2>1. PICK k \in Order : t = Feeds[k]
      BY FeedFacts
    <2>2. runner # "broken"
      BY FeedFacts DEF RunnerInv, Before, NotRunning
    <2>3. Fed(k, t) /\ FeederInv /\ InHand(t)
      BY <2>1, <2>2 DEF FeedInv, InHand
    <2>4. ~ Filling(k) /\ count[t] = Released(k) - 1 /\ Released(k) \in Nat
      BY <2>3 DEF Fed, Underway, Released, FeederInv
    <2>5. filled[t] = Released(k)
      BY <2>1, <2>2, <2>4 DEF FilledInv
    <2> QED BY <2>4, <2>5
  <1> QED BY <1>1, <1>2, AlwaysFed, FeedInit, PTL DEF PySpec

----------------------------------------------------------------------------
(* What is handed out                                                      *)

(* The steps of the thread of the output task. *)
LEMMA OutSteps ==
    ASSUME TypeInv, RunThread(OutTask)
    PROVE  /\ \/ /\ ProcessedHandler /\ UNCHANGED <<pc, log>>
              \/ /\ pc[OutTask] = "work" /\ pc'[OutTask] = "release"
                 /\ log'[OutTask] = Append(log[OutTask],
                                           [i \in 1..1 |-> Value(inputs[OutTask][i])])
                 /\ ProcessOutput(Value(inputs[OutTask][1])) /\ UNCHANGED results
              \/ /\ pc[OutTask] = "get" /\ pc'[OutTask] = "done" /\ UNCHANGED log
                 /\ InputsStopped /\ UNCHANGED results
              \/ /\ pc[OutTask] # "done" /\ ~ HandlerPending /\ UNCHANGED log
                 /\ UNCHANGED <<outputTaskVars, results>>
           /\ UNCHANGED inputTaskVars
  <1>0. /\ RunOutput /\ OutTask \in Task /\ OutTask \notin MayStop
        /\ Mode[OutTask] = "sink" /\ NInputs(OutTask) = 1
        /\ pc \in [Task -> PCs] /\ log \in [Task -> Seq(Seq(Nat))] /\ pc[OutTask] # "done"
    BY FeedFacts, ThreadFacts, PythonAssumption, DoneStays DEF TypeInv, TypeOK, ThreadsOK, GhostsOK
  <1>1. CASE ProcessedHandler
    BY <1>0, <1>1 DEF ProcessedHandler, RunOutput, vars, threadVars, ghostVars
  <1>2. CASE Process(OutTask) /\ ProcessOutput(Value(inputs[OutTask][1])) /\ UNCHANGED results
    <2>1. pc[OutTask] = "work" /\ pc'[OutTask] = "release" /\ Consume(OutTask)
      BY <1>0, <1>2 DEF Process
    <2>2. log'[OutTask] = Append(log[OutTask], [i \in 1..1 |-> Value(inputs[OutTask][i])])
      BY <1>0, <2>1 DEF Consume
    <2> QED BY <1>0, <1>2, <2>1, <2>2 DEF RunOutput
  <1>3. CASE Stop(OutTask) /\ InputsStopped /\ UNCHANGED results
    BY <1>0, <1>3 DEF Stop, GotInputs, Leave, RunOutput
  <1>4. CASE /\ ~ HandlerPending
             /\ PopInput(OutTask) \/ SkipInput(OutTask) \/ Proceed(OutTask)
                \/ ReleaseInput(OutTask)
             /\ UNCHANGED <<outputTaskVars, results>>
    BY <1>0, <1>4 DEF PopInput, SkipInput, Proceed, ReleaseInput, RunOutput, ghostVars
  <1> QED BY <1>0, <1>1, <1>2, <1>3, <1>4 DEF RunOutput

(* Another thread leaves the output task alone. *)
LEMMA OtherOutputs ==
    ASSUME TypeInv, NEW u \in Task \ {OutTask}, RunThread(u)
    PROVE  /\ UNCHANGED <<outputTaskVars, results>>
           /\ pc'[OutTask] = pc[OutTask] /\ log'[OutTask] = log[OutTask]
  <1>1. UNCHANGED <<outputTaskVars, results>>
    <2>1. CASE u \in InTask
      BY <2>1, InputSteps
    <2>2. CASE u \notin InTask
      BY <2>2, ThreadFacts DEF ioVars
    <2> QED BY <2>1, <2>2
  <1>2. Run(u) /\ OutTask \in Task
    BY ThreadRuns, FeedFacts
  <1> QED BY <1>1, <1>2, OwnLocals

LEMMA FirstsAppend ==
    ASSUME NEW calls \in Seq(Seq(Nat)), Firsts(calls) \in Seq(Nat), NEW c \in Seq(Nat), c[1] \in Nat
    PROVE  Firsts(Append(calls, c)) = Append(Firsts(calls), c[1])
  <1>1. PICK n \in Nat : n = Len(calls)
    OBVIOUS
  <1>2. PICK a : a = Append(calls, c)
    OBVIOUS
  <1>3. Len(a) = n + 1 /\ a[n + 1] = c /\ \A i \in 1..n : a[i] = calls[i]
    BY <1>1, <1>2, AppendProperties
  <1>4. PICK f : f = Firsts(calls)
    OBVIOUS
  <1>5. f \in Seq(Nat) /\ Len(f) = n /\ \A i \in 1..n : f[i] = calls[i][1]
    BY <1>1, <1>4 DEF Firsts
  <1>6. PICK b : b = Append(f, c[1])
    OBVIOUS
  <1>7. b \in Seq(Nat) /\ Len(b) = n + 1 /\ b[n + 1] = c[1] /\ \A i \in 1..n : b[i] = f[i]
    BY <1>5, <1>6, AppendProperties
  <1>8. \A i \in 1..n + 1 : b[i] = a[i][1]
    <2>1. \A i \in 1..n + 1 : i \in 1..n \/ i = n + 1
      OBVIOUS
    <2> QED BY <1>3, <1>5, <1>7, <2>1
  <1>9. b = [i \in 1..n + 1 |-> b[i]]
    BY <1>7, LenProperties
  <1>10. Firsts(a) = b
    BY <1>3, <1>8, <1>9 DEF Firsts
  <1> QED BY <1>2, <1>4, <1>6, <1>10

(* The head of what is coming, when results are there. *)
LEMMA ComingTail ==
    ASSUME NEW S, NEW r \in Seq(S), r # <<>>, NEW f \in Seq(S)
    PROVE  /\ r \o f \in Seq(S) /\ r \o f # <<>>
           /\ Head(r \o f) = Head(r) /\ Tail(r \o f) = Tail(r) \o f
  <1>0. Len(r) \in Nat /\ Len(r) # 0
    BY EmptySeq
  <1>1. PICK m \in Nat, n \in Nat : m = Len(r) /\ n = Len(f)
    OBVIOUS
  <1>2. PICK l \in Nat : m = l + 1
    <2>1. m \in Nat /\ m # 0
      BY <1>0, <1>1
    <2>2. m - 1 \in Nat /\ m = (m - 1) + 1
      BY <2>1
    <2> QED BY <2>2
  <1>3. PICK c : c = r \o f
    OBVIOUS
  <1>4. /\ c \in Seq(S) /\ Len(c) = m + n
        /\ \A i \in 1..m + n : c[i] = IF i <= m THEN r[i] ELSE f[i - m]
    BY <1>1, <1>3, ConcatProperties
  <1>5. c # <<>> /\ Head(c) = c[1] /\ Head(r) = r[1] /\ 1 \in 1..m + n /\ 1 <= m
    BY <1>1, <1>2, <1>4, EmptySeq
  <1>6. PICK d : d = Tail(c)
    OBVIOUS
  <1>7. d \in Seq(S) /\ Len(d) = l + n /\ \A i \in 1..l + n : d[i] = c[i + 1]
    <2>1. d \in Seq(S) /\ Len(d) = Len(c) - 1 /\ \A i \in 1..Len(d) : d[i] = c[i + 1]
      BY <1>4, <1>5, <1>6, HeadTailProperties
    <2>2. Len(d) = l + n
      BY <1>2, <1>4, <2>1
    <2> QED BY <2>1, <2>2
  <1>8. PICK t : t = Tail(r)
    OBVIOUS
  <1>9. t \in Seq(S) /\ Len(t) = l /\ \A i \in 1..l : t[i] = r[i + 1]
    <2>1. t \in Seq(S) /\ Len(t) = Len(r) - 1 /\ \A i \in 1..Len(t) : t[i] = r[i + 1]
      BY <1>8, HeadTailProperties
    <2>2. Len(t) = l
      <3>1. m - 1 = l
        BY <1>2
      <3>2. Len(t) = m - 1
        <4>1. Len(t) = Len(r) - 1
          BY <2>1
        <4> QED BY <1>1, <4>1
      <3> QED BY <3>1, <3>2
    <2> QED BY <2>1, <2>2
  <1>10. PICK e : e = t \o f
    OBVIOUS
  <1>11. /\ e \in Seq(S) /\ Len(e) = l + n
         /\ \A i \in 1..l + n : e[i] = IF i <= l THEN t[i] ELSE f[i - l]
    BY <1>1, <1>9, <1>10, ConcatProperties
  <1>12. ASSUME NEW i \in 1..l + n PROVE d[i] = e[i]
    <2>1. i \in 1..l + n /\ i + 1 \in 1..m + n
      BY <1>2
    <2>2. CASE i <= l
      <3>1. i \in 1..l /\ i + 1 <= m
        BY <1>2, <2>2
      <3> QED BY <1>4, <1>7, <1>9, <1>11, <2>1, <2>2, <3>1
    <2>3. CASE ~ i <= l
      <3>1. ~ i + 1 <= m /\ i + 1 - m = i - l
        BY <1>2, <2>3
      <3>2. d[i] = c[i + 1]
        BY <1>7
      <3>3. c[i + 1] = f[i + 1 - m]
        BY <1>4, <2>1, <3>1
      <3>4. e[i] = f[i - l]
        BY <1>11, <2>1, <2>3
      <3> QED BY <3>1, <3>2, <3>3, <3>4
    <2> QED BY <2>2, <2>3
  <1>13. d = e
    <2>1. Len(d) = Len(e) /\ \A i \in 1..Len(d) : d[i] = e[i]
      BY <1>2, <1>7, <1>11, <1>12
    <2> QED BY <1>7, <1>11, <2>1, SeqEqual
  <1> QED BY <1>3, <1>4, <1>5, <1>6, <1>8, <1>10, <1>13

(* Main has all that it will get. *)
HandedAll == pc[OutTask] = "done" /\ results = <<>> /\ Copy \notin Range(ready)

(* Steps in which nothing is handed on. *)
LEMMA HandStays ==
    ASSUME HandInv, UNCHANGED <<outputTaskVars, consumer, results, yielded>>,
           log'[OutTask] = log[OutTask], pc'[OutTask] = pc[OutTask],
           \/ main' = main
           \/ /\ main # "give" /\ main' # "give"
              /\ main' = "take" => consumer = "loop"
              /\ main' = "poll" => consumer = "items"
              /\ ~ Earlier /\ main' \in {"join", "end"} => main \in {"join", "end"} \/ HandedAll
    PROVE  HandInv'
  <1>1. UNCHANGED <<ready, returned, copies, content>>
    BY DEF outputTaskVars
  <1>2. Fresh' = Fresh
    BY <1>1 DEF Fresh
  <1>3. CopyInv' /\ ConsumerInv'
    BY <1>1 DEF HandInv, CopyInv, ConsumerInv
  <1>4. (~ Earlier /\ main \in {"join", "end"} => HandedAll)'
    BY <1>1 DEF HandInv, HandedAll
  <1>5. /\ Firsts(log[OutTask])' = Firsts(log[OutTask])
        /\ (results \o Fresh)' = results \o Fresh
    BY <1>2
  <1> QED BY <1>1, <1>3, <1>4, <1>5 DEF HandInv, HandedAll

LEMMA FreshFacts ==
    ASSUME HandInv
    PROVE  /\ Fresh \in {<<>>, <<content>>} /\ Fresh \in Seq(Nat)
           /\ Copy \in Range(ready) \/ main = "give" => Fresh = <<content>>
           /\ Copy \notin Range(ready) /\ main # "give" => Fresh = <<>>
           /\ ready # <<>> /\ Head(ready) = PoisonPill =>
                 ready = <<PoisonPill>> /\ Tail(ready) = <<>> /\ Copy \notin Range(ready)
           /\ ready # <<>> /\ Head(ready) # PoisonPill =>
                 /\ Copy \in Range(ready) /\ Tail(ready) \in {<<>>, <<PoisonPill>>}
                 /\ Copy \notin Range(Tail(ready))
                 /\ PoisonPill \in Range(Tail(ready)) => PoisonPill \in Range(ready)
           /\ Range(<<>>) = {}
  <1>1. Copy # PoisonPill
    BY PythonAssumption
  <1>2. content \in Nat /\ ready \in {<<>>, <<Copy>>, <<PoisonPill>>, <<Copy, PoisonPill>>}
    BY DEF HandInv, CopyInv
  <1>3. Fresh \in {<<>>, <<content>>} /\ Fresh \in Seq(Nat)
    BY <1>2 DEF Fresh
  <1>4. ASSUME ready = <<Copy, PoisonPill>>
        PROVE  /\ Head(ready) = Copy /\ Tail(ready) = <<PoisonPill>>
               /\ Range(ready) = {Copy, PoisonPill} /\ Range(Tail(ready)) = {PoisonPill}
    <2>1. /\ Head(<<Copy, PoisonPill>>) = Copy /\ Tail(<<Copy, PoisonPill>>) = <<PoisonPill>>
          /\ Range(<<Copy, PoisonPill>>) = {Copy, PoisonPill}
          /\ Range(<<PoisonPill>>) = {PoisonPill}
      BY ShortSeqs
    <2> QED BY <1>4, <2>1
  <1>5. ASSUME NEW x \in {Copy, PoisonPill}, ready = <<x>>
        PROVE  Head(ready) = x /\ Tail(ready) = <<>> /\ Range(ready) = {x}
    <2>1. Head(<<x>>) = x /\ Tail(<<x>>) = <<>> /\ Range(<<x>>) = {x}
      BY ShortSeqs
    <2> QED BY <1>5, <2>1
  <1>6. Range(<<>>) = {}
    BY ShortSeqs
  <1>7. Copy \in Range(ready) \/ main = "give" => Fresh = <<content>>
    BY DEF Fresh
  <1>8. Copy \notin Range(ready) /\ main # "give" => Fresh = <<>>
    BY DEF Fresh
  <1>9. CASE ready = <<>>
    BY <1>3, <1>6, <1>7, <1>8, <1>9
  <1>10. CASE ready = <<Copy>>
    BY <1>1, <1>3, <1>5, <1>6, <1>7, <1>8, <1>10
  <1>11. CASE ready = <<PoisonPill>>
    BY <1>1, <1>3, <1>5, <1>6, <1>7, <1>8, <1>11
  <1>12. CASE ready = <<Copy, PoisonPill>>
    BY <1>1, <1>3, <1>4, <1>6, <1>7, <1>8, <1>12
  <1> QED BY <1>2, <1>9, <1>10, <1>11, <1>12

(* Main iterates over the results ...                                      *)
LEMMA YieldHands ==
    ASSUME HandInv, MainYields
    PROVE  HandInv'
  <1>1. /\ results # <<>> /\ yielded' = Append(yielded, Head(results)) /\ results' = Tail(results)
        /\ UNCHANGED <<main, ready, returned, copies, content, consumer, pc, log>>
        /\ main = "poll"
    BY DEF MainYields, notMain, outputTaskVars, vars, threadVars, ghostVars
  <1>2. Fresh' = Fresh /\ Fresh \in Seq(Nat)
    BY <1>1, FreshFacts DEF Fresh
  <1>3. results \in Seq(Nat) /\ yielded \in Seq(Nat) /\ Firsts(log[OutTask]) \in Seq(Nat)
    BY DEF HandInv
  <1>4. /\ Head(results) \in Nat /\ Tail(results) \in Seq(Nat)
        /\ Append(yielded, Head(results)) \in Seq(Nat)
    BY <1>1, <1>3, HeadTailProperties, AppendProperties
  <1>5. InTransit(Firsts(log[OutTask]), Append(yielded, Head(results)), Tail(results) \o Fresh)
    <2>1. /\ results \o Fresh \in Seq(Nat) /\ results \o Fresh # <<>>
          /\ Head(results \o Fresh) = Head(results)
          /\ Tail(results \o Fresh) = Tail(results) \o Fresh
      BY <1>1, <1>2, <1>3, ComingTail
    <2>2. InTransit(Firsts(log[OutTask]), yielded, results \o Fresh)
      BY DEF HandInv
    <2>3. InTransit(Firsts(log[OutTask]), Append(yielded, Head(results \o Fresh)),
                    Tail(results \o Fresh))
      BY <1>3, <2>1, <2>2, TransitPop
    <2> QED BY <2>1, <2>3
  <1>6. InTransit(Firsts(log[OutTask]), yielded, results \o Fresh)'
    BY <1>1, <1>2, <1>5
  <1>7. CopyInv' /\ ConsumerInv' /\ consumer = "items"
    BY <1>1 DEF HandInv, CopyInv, ConsumerInv
  <1> QED BY <1>1, <1>3, <1>4, <1>6, <1>7 DEF HandInv

(* ... or takes the copy, and gives it back when it has read it.           *)
LEMMA TakeHands ==
    ASSUME HandInv, MainTakes
    PROVE  HandInv'
  <1>1. /\ ready # <<>> /\ ready' = Tail(ready) /\ main = "take"
        /\ main' = IF Head(ready) = PoisonPill THEN "join" ELSE "give"
        /\ UNCHANGED <<yielded, results, returned, copies, content, consumer, pc, log>>
    BY DEF MainTakes, GetOutputBuffer, notMain, vars, threadVars, ghostVars
  <1>2. CASE Head(ready) = PoisonPill
    <2>1. /\ ready' = <<>> /\ main' = "join" /\ Copy \notin Range(ready)
          /\ PoisonPill \in Range(ready)
      <3>1. ready = <<PoisonPill>> /\ Tail(ready) = <<>> /\ Copy \notin Range(ready)
        BY <1>1, <1>2, FreshFacts
      <3>2. PoisonPill \in Range(<<PoisonPill>>)
        BY ShortSeqs
      <3> QED BY <1>1, <1>2, <3>1, <3>2
    <2>2. Fresh' = <<>> /\ Fresh = <<>> /\ Copy \notin Range(ready')
      BY <1>1, <2>1, FreshFacts DEF Fresh
    <2>3. CopyInv'
      BY <1>1, <2>1, <2>2, FreshFacts DEF HandInv, CopyInv
    <2>4. ConsumerInv' /\ results = <<>> /\ pc[OutTask] = "done"
      BY <1>1, <2>1, <2>2 DEF HandInv, CopyInv, ConsumerInv
    <2> QED BY <1>1, <2>1, <2>2, <2>3, <2>4 DEF HandInv
  <1>3. CASE Head(ready) # PoisonPill
    <2>1. /\ Copy \in Range(ready) /\ ready' \in {<<>>, <<PoisonPill>>}
          /\ Copy \notin Range(ready') /\ main' = "give"
          /\ PoisonPill \in Range(ready') => PoisonPill \in Range(ready)
      BY <1>1, <1>3, FreshFacts
    <2>2. Fresh' = <<content>> /\ Fresh = <<content>>
      BY <1>1, <2>1, FreshFacts DEF Fresh
    <2>3. CopyInv'
      BY <1>1, <2>1 DEF HandInv, CopyInv
    <2>4. ConsumerInv'
      BY <1>1, <2>1 DEF HandInv, ConsumerInv
    <2> QED BY <1>1, <2>1, <2>2, <2>3, <2>4 DEF HandInv
  <1> QED BY <1>2, <1>3

LEMMA GiveBackHands ==
    ASSUME HandInv, MainGivesBack
    PROVE  HandInv'
  <1>1. /\ main = "give" /\ main' = "take" /\ yielded' = Append(yielded, content)
        /\ returned' = Append(returned, Copy)
        /\ UNCHANGED <<results, ready, copies, content, consumer, pc, log>>
    BY DEF MainGivesBack, ReleaseOutputBuffer, notMain, vars, threadVars, ghostVars
  <1>2. /\ Copy \notin Range(ready) /\ returned = <<>> /\ copies = 1 /\ consumer = "loop"
        /\ results = <<>> /\ content \in Nat /\ yielded \in Seq(Nat)
        /\ Firsts(log[OutTask]) \in Seq(Nat)
    BY <1>1 DEF HandInv, CopyInv, ConsumerInv
  <1>3. returned' = <<Copy>> /\ yielded' \in Seq(Nat)
    BY <1>1, <1>2, ShortSeqs, AppendProperties
  <1>4. Fresh = <<content>> /\ Fresh' = <<>>
    BY <1>1, <1>2 DEF Fresh
  <1>5. InTransit(Firsts(log[OutTask]), Append(yielded, content), <<>>)
    <2>1. <<>> \o <<content>> = <<content>> /\ <<content>> \in Seq(Nat)
      BY <1>2, ConcatEmptySeq
    <2>2. InTransit(Firsts(log[OutTask]), yielded, <<content>>)
      BY <1>2, <1>4, <2>1 DEF HandInv
    <2>3. Head(<<content>>) = content /\ Tail(<<content>>) = <<>> /\ <<content>> # <<>>
      BY ShortSeqs
    <2>4. InTransit(Firsts(log[OutTask]), Append(yielded, Head(<<content>>)), Tail(<<content>>))
      BY <1>2, <2>1, <2>2, <2>3, TransitPop
    <2> QED BY <2>3, <2>4
  <1>6. (results \o Fresh)' = <<>>
    <2>1. <<>> \o <<>> = <<>>
      OBVIOUS
    <2> QED BY <1>1, <1>2, <1>4, <2>1
  <1>7. CopyInv' /\ ConsumerInv'
    BY <1>1, <1>2, <1>3 DEF HandInv, CopyInv, ConsumerInv
  <1> QED BY <1>1, <1>2, <1>3, <1>5, <1>6, <1>7 DEF HandInv

(* The output task copies an item ...                                      *)
LEMMA ProcessHands ==
    ASSUME TypeInv, HandInv, OutTask \in Task, NEW v \in Nat,
           pc[OutTask] = "work", pc'[OutTask] = "release", log[OutTask] \in Seq(Seq(Nat)),
           log'[OutTask] = Append(log[OutTask], [i \in 1..1 |-> v]), ProcessOutput(v),
           UNCHANGED <<main, consumer, results, yielded>>
    PROVE  HandInv'
  <1>1. /\ copies' = 1 /\ content' = v /\ ready' = Append(ready, Copy)
        /\ copies = 0 => returned' = returned
        /\ copies # 0 => returned # <<>> /\ returned' = Tail(returned)
    BY DEF ProcessOutput
  <1>2. /\ CopyInv /\ ConsumerInv
        /\ InTransit(Firsts(log[OutTask]), yielded, results \o Fresh)
        /\ yielded \in Seq(Nat) /\ results \in Seq(Nat) /\ Firsts(log[OutTask]) \in Seq(Nat)
        /\ ~ (~ Earlier /\ main \in {"join", "end"})
    BY DEF HandInv
  <1>3. Copy \notin Range(ready) /\ main # "give" /\ returned' = <<>>
    <2>1. CASE copies = 0
      BY <1>1, <1>2, <2>1 DEF CopyInv
    <2>2. CASE copies # 0
      <3>1. returned = <<Copy>> /\ Tail(<<Copy>>) = <<>>
        BY <1>1, <1>2, <2>2, ShortSeqs DEF CopyInv
      <3>2. returned # <<>>
        BY <1>1, <2>2
      <3> QED BY <1>1, <1>2, <2>2, <3>1, <3>2 DEF CopyInv
    <2> QED BY <2>1, <2>2
  <1>4. PoisonPill \notin Range(ready)
    BY <1>2 DEF CopyInv
  <1>5. ready = <<>>
    <2>1. /\ Range(<<Copy>>) = {Copy} /\ Range(<<PoisonPill>>) = {PoisonPill}
      BY ShortSeqs
    <2>2. Range(<<Copy, PoisonPill>>) = {Copy, PoisonPill}
      BY ShortSeqs
    <2> QED BY <1>2, <1>3, <1>4, <2>1, <2>2 DEF CopyInv
  <1>6. ready' = <<Copy>> /\ Range(ready') = {Copy}
    <2>1. Append(<<>>, Copy) = <<Copy>> /\ Range(<<Copy>>) = {Copy}
      BY ShortSeqs
    <2> QED BY <1>1, <1>5, <2>1
  <1>7. Fresh = <<>> /\ Fresh' = <<v>>
    BY <1>1, <1>3, <1>6 DEF Fresh
  <1>8. (results \o Fresh) = results /\ (results \o Fresh)' = Append(results, v)
    <2>1. results \o <<>> = results /\ results \o <<v>> = Append(results, v)
      BY <1>2, ConcatEmptySeq, AppendIsConcat
    <2> QED BY <1>7, <2>1
  <1>9. /\ Firsts(log'[OutTask]) = Append(Firsts(log[OutTask]), v)
        /\ Append(Firsts(log[OutTask]), v) \in Seq(Nat)
    <2>1. PICK c : c = [i \in 1..1 |-> v]
      OBVIOUS
    <2>2. c \in Seq(Nat) /\ c[1] = v
      BY <2>1
    <2>3. Firsts(Append(log[OutTask], c)) = Append(Firsts(log[OutTask]), c[1])
      BY <1>2, <2>2, FirstsAppend
    <2>4. Append(Firsts(log[OutTask]), v) \in Seq(Nat)
      BY <1>2, AppendProperties
    <2> QED BY <2>1, <2>2, <2>3, <2>4
  <1>10. InTransit(Append(Firsts(log[OutTask]), v), yielded, Append(results, v))
    BY <1>2, <1>8, TransitAppend
  <1>11. InTransit(Firsts(log[OutTask]), yielded, results \o Fresh)'
    BY <1>8, <1>9, <1>10
  <1>12. CopyInv'
    BY <1>1, <1>3, <1>6, PythonAssumption DEF CopyInv
  <1>13. ConsumerInv'
    BY <1>2 DEF ConsumerInv
  <1> QED BY <1>1, <1>2, <1>9, <1>11, <1>12, <1>13 DEF HandInv

(* ... the handler passes it on ...                                        *)
LEMMA HandlerHands ==
    ASSUME HandInv, ProcessedHandler, UNCHANGED <<main, consumer, yielded, pc, log>>
    PROVE  HandInv'
  <1>1. /\ consumer = "items" /\ ready # <<>> /\ ready' = Tail(ready)
        /\ pc[OutTask] = "release" /\ returned' = Append(returned, Copy)
        /\ results' = Append(results, content) /\ UNCHANGED <<copies, content>>
    BY DEF ProcessedHandler, HandlerPending, PassOn
  <1>2. /\ CopyInv /\ ConsumerInv /\ content \in Nat
        /\ InTransit(Firsts(log[OutTask]), yielded, results \o Fresh)
        /\ yielded \in Seq(Nat) /\ results \in Seq(Nat) /\ Firsts(log[OutTask]) \in Seq(Nat)
        /\ ~ (~ Earlier /\ main \in {"join", "end"})
    BY <1>1 DEF HandInv
  <1>3. PoisonPill \notin Range(ready) /\ main # "give" /\ main # "take"
    BY <1>1, <1>2 DEF CopyInv, ConsumerInv
  <1>4. ready' = <<>> /\ Copy \in Range(ready) /\ Copy \notin Range(ready')
    <2>1. CASE Head(ready) = PoisonPill
      <3>1. ready = <<PoisonPill>>
        BY <1>1, <2>1, FreshFacts
      <3>2. Range(<<PoisonPill>>) = {PoisonPill}
        BY ShortSeqs
      <3> QED BY <1>3, <3>1, <3>2
    <2>2. CASE Head(ready) # PoisonPill
      <3>1. /\ Copy \in Range(ready) /\ Tail(ready) \in {<<>>, <<PoisonPill>>}
            /\ Copy \notin Range(Tail(ready))
            /\ PoisonPill \in Range(Tail(ready)) => PoisonPill \in Range(ready)
        BY <1>1, <2>2, FreshFacts
      <3>2. Range(<<PoisonPill>>) = {PoisonPill}
        BY ShortSeqs
      <3> QED BY <1>1, <1>3, <3>1, <3>2
    <2> QED BY <2>1, <2>2
  <1>5. Fresh = <<content>> /\ Fresh' = <<>>
    BY <1>1, <1>3, <1>4 DEF Fresh
  <1>6. results' \in Seq(Nat) /\ (results \o Fresh)' = results \o Fresh
    <2>1. /\ Append(results, content) \in Seq(Nat)
          /\ results \o <<content>> = Append(results, content)
      BY <1>2, AppendProperties, AppendIsConcat
    <2>2. Append(results, content) \o <<>> = Append(results, content)
      BY <2>1, ConcatEmptySeq
    <2> QED BY <1>1, <1>5, <2>1, <2>2
  <1>7. returned' = <<Copy>> /\ copies' = 1
    <2>1. Append(<<>>, Copy) = <<Copy>>
      BY ShortSeqs
    <2> QED BY <1>1, <1>2, <1>4, <2>1 DEF CopyInv
  <1>8. CopyInv'
    BY <1>3, <1>4, <1>7, FreshFacts DEF CopyInv
  <1>9. ConsumerInv'
    BY <1>1, <1>2, <1>3, <1>4 DEF ConsumerInv
  <1> QED BY <1>1, <1>2, <1>6, <1>8, <1>9 DEF HandInv

(* ... and the end is announced.                                           *)
LEMMA StoppedHands ==
    ASSUME HandInv, InputsStopped, pc[OutTask] = "get", pc'[OutTask] = "done",
           log'[OutTask] = log[OutTask], UNCHANGED <<main, consumer, results, yielded>>
    PROVE  HandInv'
  <1>1. ready' = Append(ready, PoisonPill) /\ UNCHANGED <<returned, copies, content>>
    BY DEF InputsStopped
  <1>2. /\ CopyInv /\ ConsumerInv
        /\ ~ (~ Earlier /\ main \in {"join", "end"})
    BY DEF HandInv
  <1>3. PoisonPill \notin Range(ready) /\ (consumer = "items" => Copy \notin Range(ready))
    BY <1>2 DEF CopyInv, ConsumerInv
  <1>4. /\ ready' \in {<<PoisonPill>>, <<Copy, PoisonPill>>}
        /\ Copy \in Range(ready') <=> Copy \in Range(ready)
    <2>0. Copy # PoisonPill
      BY PythonAssumption
    <2>1. Append(<<>>, PoisonPill) = <<PoisonPill>> /\ Range(<<PoisonPill>>) = {PoisonPill}
      BY ShortSeqs
    <2>2. /\ Append(<<Copy>>, PoisonPill) = <<Copy, PoisonPill>>
          /\ Range(<<Copy, PoisonPill>>) = {Copy, PoisonPill}
      BY ShortSeqs
    <2>3. Range(<<Copy>>) = {Copy} /\ Range(<<>>) = {}
      BY ShortSeqs
    <2>4. CASE ready = <<>>
      BY <1>1, <2>0, <2>1, <2>3, <2>4
    <2>5. CASE ready = <<Copy>>
      BY <1>1, <2>0, <2>2, <2>3, <2>5
    <2> QED BY <1>2, <1>3, <2>1, <2>2, <2>4, <2>5 DEF CopyInv
  <1>5. Fresh' = Fresh
    BY <1>1, <1>4 DEF Fresh
  <1>6. (results \o Fresh)' = results \o Fresh
    BY <1>5
  <1>7. CopyInv'
    BY <1>1, <1>2, <1>4 DEF CopyInv
  <1>8. ConsumerInv'
    BY <1>2, <1>3, <1>4 DEF ConsumerInv
  <1> QED BY <1>1, <1>2, <1>6, <1>7, <1>8 DEF HandInv

(* Steps of the output task in which the application is not called, and    *)
(* waits for nothing.                                                      *)
LEMMA HandKeeps ==
    ASSUME HandInv, UNCHANGED <<outputTaskVars, consumer, results, yielded, main>>,
           log'[OutTask] = log[OutTask], pc[OutTask] # "done", ~ HandlerPending
    PROVE  HandInv'
  <1>1. UNCHANGED <<ready, returned, copies, content>>
    BY DEF outputTaskVars
  <1>2. Fresh' = Fresh
    BY <1>1 DEF Fresh
  <1>3. Range(<<>>) = {}
    BY ShortSeqs
  <1>4. CopyInv'
    BY <1>1 DEF HandInv, CopyInv
  <1>5. ConsumerInv'
    BY <1>1, <1>3 DEF HandInv, ConsumerInv, HandlerPending
  <1>6. ~ (~ Earlier /\ main \in {"join", "end"})
    BY DEF HandInv
  <1>7. (results \o Fresh)' = results \o Fresh
    BY <1>2
  <1> QED BY <1>1, <1>4, <1>5, <1>6, <1>7 DEF HandInv

LEMMA HandInit == PyInit => HandInv
  <1> SUFFICES ASSUME PyInit PROVE HandInv
    OBVIOUS
  <1>1. /\ ready = <<>> /\ returned = <<>> /\ copies = 0 /\ content = 0 /\ results = <<>>
        /\ yielded = <<>> /\ main = "iterate" /\ log[OutTask] = <<>>
        /\ consumer \in {"items", "loop"}
    BY FeedFacts, PythonAssumption DEF PyInit, Init, InitOf, InitOutputTask
  <1>2. Range(<<>>) = {}
    BY ShortSeqs
  <1>3. CopyInv /\ ConsumerInv /\ Fresh = <<>>
    BY <1>1, <1>2 DEF CopyInv, ConsumerInv, Fresh
  <1>4. Firsts(<<>>) = <<>> /\ <<>> \o <<>> = <<>> /\ <<>> \in Seq(Nat) /\ Len(<<>>) = 0
    BY DEF Firsts
  <1>5. InTransit(<<>>, <<>>, <<>>)
    BY <1>4 DEF InTransit
  <1> QED BY <1>1, <1>3, <1>4, <1>5 DEF HandInv

LEMMA HandNext ==
    ASSUME TypeInv, RunnerInv, HandInv, [PyNext]_pyVars
    PROVE  HandInv'
  <1>1. CASE Feeder
    <2>1. UNCHANGED <<outputTaskVars, consumer, results, yielded, main, pc, log>>
      BY <1>1 DEF Feeder, FeederConnects, FeederWaits, FeederNext, FeederGets, FeederReleases,
                  FeederStops, FeederLeaves, notFeeder, mainVars, ioVars, vars, threadVars,
                  ghostVars
    <2> QED BY <2>1, HandStays
  <1>2. CASE Runner
    <2>1. /\ UNCHANGED <<outputTaskVars, consumer, results, yielded, pc, log>>
          /\ main' = main \/ (main' = "broken" /\ runner = "run")
      BY <1>2 DEF Runner, RunnerClearsDone, RunnerRuns, RunnerReturns, RunnerSetsDone,
                  RunnerResets, notRunner, ioVars, vars, threadVars, ghostVars
    <2>2. runner = "run" => main # "give"
      BY DEF RunnerInv, Before, NotRunning
    <2> QED BY <2>1, <2>2, HandStays
  <1>3. CASE Main
    <2>1. UNCHANGED <<pc, log, consumer>>
      BY <1>3 DEF Main, MainRuns, MainSetsStarted, MainYields, MainPolls, MainTakes, MainGivesBack,
                  MainJoins, notMain, vars, threadVars, ghostVars
    <2>2. CASE MainRuns \/ MainSetsStarted \/ MainJoins
      <3>1. UNCHANGED <<outputTaskVars, results, yielded>>
        BY <2>2 DEF MainRuns, MainSetsStarted, MainJoins
      <3>2. consumer \in {"items", "loop"}
        BY DEF HandInv, ConsumerInv
      <3>3. /\ main # "give" /\ main' # "give"
            /\ main' = "take" => consumer = "loop"
            /\ main' = "poll" => consumer = "items"
            /\ main' \in {"join", "end"} => main \in {"join", "end"}
        BY <2>2, <3>2 DEF MainRuns, MainSetsStarted, MainJoins
      <3> QED BY <2>1, <3>1, <3>3, HandStays
    <2>3. CASE MainPolls
      <3>1. /\ UNCHANGED <<outputTaskVars, results, yielded>> /\ main = "poll" /\ results = <<>>
            /\ main' = IF done THEN "join" ELSE "poll"
        BY <2>3 DEF MainPolls
      <3>2. consumer = "items"
        BY <3>1 DEF HandInv, ConsumerInv
      <3>3. ~ Earlier /\ done => HandedAll
        <4>1. ~ Earlier /\ done => pc[OutTask] = "done"
          BY FeedFacts DEF RunnerInv, AllDone
        <4> QED BY <3>1, <3>2, <4>1 DEF HandInv, ConsumerInv, HandedAll
      <3> QED BY <2>1, <3>1, <3>2, <3>3, HandStays
    <2> QED BY <1>3, <2>2, <2>3, YieldHands, TakeHands, GiveBackHands DEF Main
  <1>4. ASSUME NEW t \in Task, RunThread(t) PROVE HandInv'
    <2>1. UNCHANGED <<consumer, main, yielded>>
      BY <1>4, ThreadFacts DEF mainVars
    <2>2. CASE t # OutTask
      <3>1. /\ UNCHANGED <<outputTaskVars, results>>
            /\ pc'[OutTask] = pc[OutTask] /\ log'[OutTask] = log[OutTask]
        BY <1>4, <2>2, OtherOutputs
      <3> QED BY <2>1, <3>1, HandStays
    <2>3. CASE t = OutTask
      <3>0. RunThread(OutTask) /\ OutTask \in Task /\ log[OutTask] \in Seq(Seq(Nat))
        BY <1>4, <2>3, FeedFacts DEF TypeInv, TypeOK, GhostsOK
      <3>1. CASE ProcessedHandler /\ UNCHANGED <<pc, log>>
        BY <2>1, <3>1, HandlerHands
      <3>2. CASE /\ pc[OutTask] = "work" /\ pc'[OutTask] = "release"
                 /\ log'[OutTask] = Append(log[OutTask],
                                           [i \in 1..1 |-> Value(inputs[OutTask][i])])
                 /\ ProcessOutput(Value(inputs[OutTask][1])) /\ UNCHANGED results
        <4>1. PICK v : v = Value(inputs[OutTask][1])
          OBVIOUS
        <4>2. v \in Nat
          BY <4>1 DEF Value, TypeInv, TypeOK, GroupsOK
        <4>3. [i \in 1..1 |-> Value(inputs[OutTask][i])] = [i \in 1..1 |-> v]
          <5>1. \A i \in 1..1 : i = 1
            OBVIOUS
          <5> QED BY <4>1, <5>1
        <4> QED BY <2>1, <3>0, <3>2, <4>1, <4>2, <4>3, ProcessHands
      <3>3. CASE /\ pc[OutTask] = "get" /\ pc'[OutTask] = "done" /\ UNCHANGED log
                 /\ InputsStopped /\ UNCHANGED results
        BY <2>1, <3>3, StoppedHands
      <3>4. CASE /\ pc[OutTask] # "done" /\ ~ HandlerPending /\ UNCHANGED log
                 /\ UNCHANGED <<outputTaskVars, results>>
        BY <2>1, <3>0, <3>4, HandKeeps
      <3> QED BY <3>0, <3>1, <3>2, <3>3, <3>4, OutSteps
    <2> QED BY <2>2, <2>3
  <1>5. CASE Ended \/ UNCHANGED pyVars
    <2>1. UNCHANGED <<outputTaskVars, consumer, results, yielded, main, pc, log>>
      BY <1>5 DEF Ended, pyVars, appVars, mainVars, ioVars, vars, threadVars, ghostVars
    <2> QED BY <2>1, HandStays
  <1> QED BY <1>1, <1>2, <1>3, <1>4, <1>5 DEF PyNext

LEMMA AlwaysHanded == PySpec => [](TypeInv /\ RunnerInv /\ HandInv)
  <1>1. TypeInv /\ RunnerInv /\ FeedInv /\ HandInv /\ [PyNext]_pyVars => HandInv'
    BY HandNext
  <1> QED BY <1>1, AlwaysFed, HandInit, PTL DEF PySpec

----------------------------------------------------------------------------
(* The streams on the way                                                  *)

(* The reader of connections on the way. *)
Reads(N, S, t) ==
    /\ t \in Task /\ NInputs(t) \in Nat \ {0}
    /\ \A i \in 1..NInputs(t) :
          Alone(t, i) /\ Sole(t, i) \in N /\ (NInputs(t) > 1 => Sole(t, i) \in S)

LEMMA WayFacts ==
    ASSUME NEW N \in SUBSET Queue, NEW S \in SUBSET N, Delivering(N, S)
    PROVE  /\ Reads(N, S, OutTask) /\ Mode[OutTask] = "sink" /\ OutTask \notin MayStop \cup MayFail
           /\ \A q \in N : /\ q \in Queue /\ q[1] \in Task \ {OutTask} /\ NTargets(q[1]) = 1
                           /\ q = <<q[1], 1>>
                           /\ \E t \in Task : \E i \in 1..NInputs(t) : Alone(t, i) /\ q = Sole(t, i)
                           /\ q[1] \notin MayStop
                           /\ q[1] \in InTask <=> Mode[q[1]] = "generator"
                           /\ q[1] \notin InTask <=> Mode[q[1]] = "processor"
                           /\ q[1] \notin InTask => Reads(N, S, q[1])
           /\ \A q \in S : q[1] \notin MayFail /\ \A i \in 1..NInputs(q[1]) : Sole(q[1], i) \in S
  <1>1. /\ OutTask \in Task \ InTask /\ \A t \in InTask : t \in Task /\ Mode[t] = "generator"
        /\ Mode[OutTask] = "sink" /\ NInputs(OutTask) = 1
        /\ (InTask \cup {OutTask}) \cap (MayFail \cup MayStop) = {}
    BY FeedFacts, PythonAssumption
  <1>2. Reads(N, S, OutTask)
    <2>1. \A i \in 1..NInputs(OutTask) : i = 1
      BY <1>1
    <2> QED BY <1>1, <2>1 DEF Reads, Delivering
  <1>3. ASSUME NEW q \in N
        PROVE  /\ q \in Queue /\ q[1] \in Task /\ NTargets(q[1]) = 1 /\ q = <<q[1], 1>>
               /\ \E t \in Task : \E i \in 1..NInputs(t) : Alone(t, i) /\ q = Sole(t, i)
    <2>1. q \in TaskQueue /\ NTargets(q[1]) = 1
      BY GroupAssumption DEF Delivering
    <2>2. PICK t \in Task : \E k \in 1..NTargets(t) : q = <<t, k>>
      BY <2>1 DEF TaskQueue
    <2>3. PICK k \in 1..NTargets(t) : q = <<t, k>>
      BY <2>2
    <2>4. q[1] = t /\ k = 1
      BY <2>1, <2>3
    <2> QED BY <2>1, <2>3, <2>4 DEF Delivering
  <1>4. ASSUME NEW q \in N
        PROVE  \/ q[1] \in InTask /\ Mode[q[1]] = "generator"
               \/ q[1] \notin InTask /\ Mode[q[1]] = "processor" /\ q[1] \notin MayStop
                  /\ Reads(N, S, q[1])
    <2>1. CASE q[1] \in InTask
      BY <1>1, <2>1
    <2>2. CASE q[1] \notin InTask
      <3>1. /\ Mode[q[1]] = "processor" /\ q[1] \notin MayStop
            /\ \A i \in 1..NInputs(q[1]) :
                  /\ Alone(q[1], i) /\ Sole(q[1], i) \in N
                  /\ NInputs(q[1]) > 1 => Sole(q[1], i) \in S
        BY <2>2 DEF Delivering
      <3>2. NInputs(q[1]) \in Nat \ {0}
        BY <1>3, <3>1, ConstantsType, SchedulerAssumption
      <3> QED BY <1>3, <2>2, <3>1, <3>2 DEF Reads
    <2> QED BY <2>1, <2>2
  <1>5. \A q \in N : q[1] # OutTask /\ q[1] \notin MayStop
    BY <1>1, <1>4
  <1>6. \A q \in S : q[1] \notin MayFail /\ \A i \in 1..NInputs(q[1]) : Sole(q[1], i) \in S
    BY DEF Delivering
  <1> QED BY <1>1, <1>2, <1>3, <1>4, <1>5, <1>6

LEMMA RoundsType ==
    ASSUME TypeInv, NEW t \in Task
    PROVE  Rounds(t) \in Nat /\ log[t] \in Seq(Seq(Nat)) /\ Len(log[t]) \in Nat
  <1>1. count[t] \in Nat /\ log[t] \in Seq(Seq(Nat))
    BY DEF TypeInv, TypeOK, ThreadsOK, GhostsOK
  <1> QED BY <1>1 DEF Rounds

(* What has arrived at an input: the first items in their order, and when  *)
(* it has ended all of them.                                               *)
LEMMA ArrivesInOrder ==
    ASSUME LInv, NEW t \in Task, NEW i \in 1..NInputs(t), Alone(t, i), NEW q, q = Sole(t, i),
           NEW p \in Task, p = q[1], NTargets(p) = 1, Mode[p] # "sink", Sends(q, p, Rounds(p))
    PROVE  /\ ~ finished[t][i] =>
                 /\ Items(got[q]) = got[q] /\ Len(got[q]) <= Rounds(p)
                 /\ \A k \in 1..Len(got[q]) : got[q][k] = k
           /\ finished[t][i] => pc[p] = "done" /\ Len(Items(got[q])) = Rounds(p)
  <1>1. /\ SInv /\ TypeInv /\ q \in Streams /\ q \in Queue /\ Range(InQueues[t][i]) = {q}
        /\ Open(q) <=> ~ Outlived(t, i)
    BY SoleFacts DEF LInv, SInv, IInv
  <1>2. /\ sent[q] \in Seq(Tag) /\ got[q] \in Seq(Tag) /\ EndOfStream \notin Nat
        /\ Contents(q) \in Seq(Tag)
    BY <1>1, StreamTypes, MappedFacts DEF Contents
  <1>3. finished[t][i] <=> EndOfStream \in Range(got[q])
    BY <1>1 DEF SInv, EndInv
  <1>4. ~ CutOff(q)
    BY <1>1, <1>3 DEF CutOff, Outlived
  <1>5. InTransit(sent[q], got[q], Contents(q))
    BY <1>1, <1>4 DEF SInv, StreamInv
  <1>6. PICK n \in Nat : n = Rounds(p)
    BY <1>1, RoundsType
  <1>7. PICK s \in Seq(Tag), g \in Seq(Tag), c \in Seq(Tag) :
           s = sent[q] /\ g = got[q] /\ c = Contents(q)
    BY <1>2
  <1>8. PICK l \in Nat, m \in Nat, r \in Nat : l = Len(s) /\ m = Len(g) /\ r = Len(c)
    OBVIOUS
  <1>9. l = m + r /\ \A k \in 1..m : s[k] = g[k]
    BY <1>5, <1>7, <1>8 DEF InTransit
  <1>10. /\ \A k \in 1..l : k <= n => s[k] = k
         /\ l <= n \/ (pc[p] = "done" /\ l = n + 1 /\ s[n + 1] = EndOfStream)
    <2>1. \A k \in 1..l : k <= n => s[k] = k
      BY <1>6, <1>7, <1>8 DEF Sends
    <2>2. CASE pc[p] = "done"
      BY <1>6, <1>7, <1>8, <2>2 DEF Sends
    <2>3. CASE pc[p] = "push"
      BY <1>6, <1>7, <1>8, <2>3 DEF Sends
    <2>4. CASE pc[p] \notin {"done", "push"}
      BY <1>6, <1>7, <1>8, <2>4 DEF Sends
    <2> QED BY <2>1, <2>2, <2>3, <2>4
  <1>11. DOMAIN g = 1..m
    BY <1>8, LenProperties
  <1>12. CASE ~ finished[t][i]
    <2>1. \A k \in 1..m : g[k] # EndOfStream
      BY <1>3, <1>7, <1>11, <1>12 DEF Range
    <2>2. m <= n
      <3>1. SUFFICES ASSUME ~ m <= n PROVE FALSE
        OBVIOUS
      <3>2. n + 1 \in 1..m /\ l = n + 1 /\ s[n + 1] = EndOfStream
        BY <1>9, <1>10, <3>1
      <3> QED BY <1>9, <2>1, <3>2
    <2>3. \A k \in 1..m : g[k] = k
      <3>1. \A k \in 1..m : k \in 1..l /\ k <= n
        BY <1>9, <2>2
      <3> QED BY <1>9, <1>10, <3>1
    <2>4. Items(g) = g
      BY <1>3, <1>7, <1>12, ItemsFacts
    <2> QED BY <1>6, <1>7, <1>8, <1>12, <2>2, <2>3, <2>4
  <1>13. CASE finished[t][i]
    <2>1. PICK j \in 1..m : g[j] = EndOfStream
      BY <1>3, <1>7, <1>11, <1>13 DEF Range
    <2>2. j \in 1..l /\ s[j] = EndOfStream
      BY <1>9, <2>1
    <2>3. ~ j <= n
      BY <1>2, <1>10, <2>2
    <2>4. j = n + 1 /\ m = n + 1 /\ pc[p] = "done"
      BY <1>9, <1>10, <2>1, <2>2, <2>3
    <2>5. Len(Items(g)) = n
      <3>0. j = m /\ m # 0
        BY <2>4
      <3>1. g # <<>> /\ g[Len(g)] = EndOfStream
        <4>1. g[m] = EndOfStream
          BY <2>1, <3>0
        <4>2. Len(g) = m /\ Len(g) # 0
          BY <1>8, <3>0
        <4> QED BY <4>1, <4>2, EmptySeq
      <3>2. Items(g) = SubSeq(g, 1, m - 1) /\ m - 1 = n
        BY <1>8, <2>4, <3>1 DEF Items
      <3>3. Len(SubSeq(g, 1, n)) = n
        BY <1>8, <2>4, SubSeqProperties
      <3> QED BY <3>2, <3>3
    <2> QED BY <1>6, <1>7, <1>13, <2>4, <2>5
  <1> QED BY <1>12, <1>13

(* What is assumed of the connections on the way, and holds of them. *)
OnWay(N, S) ==
    /\ N \in SUBSET Queue /\ S \in SUBSET N
    /\ Delivering(N, S)
    /\ runner # "broken" /\ length \in Nat
    /\ WayInv(N, S)

LEMMA ArrivesOnWay ==
    ASSUME LInv, NEW N, NEW S, OnWay(N, S), NEW t, Reads(N, S, t), NEW i \in 1..NInputs(t),
           NEW q, q = Sole(t, i)
    PROVE  /\ q \in N /\ t \in Task /\ Alone(t, i) /\ q[1] \in Task
           /\ ~ finished[t][i] =>
                 /\ Items(got[q]) = got[q] /\ Len(got[q]) <= Rounds(q[1])
                 /\ \A k \in 1..Len(got[q]) : got[q][k] = k
           /\ finished[t][i] => pc[q[1]] = "done" /\ Len(Items(got[q])) = Rounds(q[1])
           /\ Numbered(S, q[1])
  <1>1. q \in N /\ t \in Task /\ Alone(t, i)
    BY DEF Reads
  <1>2. PICK p \in Task : p = q[1] /\ NTargets(p) = 1 /\ Mode[p] # "sink"
    BY <1>1, WayFacts DEF OnWay
  <1>3. Numbered(S, p) /\ Sends(q, p, Rounds(p))
    BY <1>1, <1>2 DEF OnWay, WayInv
  <1> QED BY <1>1, <1>2, <1>3, ArrivesInOrder

(* A task on the way is called with all of its inputs still coming, and    *)
(* with the item that is next.                                             *)
LEMMA NextAtHand ==
    ASSUME LInv, NEW N, NEW S, OnWay(N, S), NEW t, Reads(N, S, t), pc[t] = "work"
    PROVE  Value(inputs[t][1]) = Len(log[t]) + 1 /\ Len(log[t]) + 1 <= length
  <1>1. /\ t \in Task /\ NInputs(t) \in Nat \ {0} /\ 1 \in 1..NInputs(t)
        /\ TypeInv /\ ~ AllFinished(t)
    BY DEF Reads, LInv, SInv, IInv, Unfinished
  <1>0. length \in Nat
    BY DEF OnWay
  <1>2. PICK m \in Nat : m = Len(log[t])
    BY <1>1, RoundsType
  <1>3. ASSUME NEW i \in 1..NInputs(t), ~ finished[t][i]
        PROVE  /\ Len(got[Sole(t, i)]) = m + 1 /\ got[Sole(t, i)][m + 1] = m + 1
               /\ m + 1 <= length
    <2>1. PICK q : q = Sole(t, i)
      OBVIOUS
    <2>2. /\ Alone(t, i) /\ q[1] \in Task /\ Numbered(S, q[1])
          /\ Items(got[q]) = got[q] /\ Len(got[q]) <= Rounds(q[1])
          /\ \A k \in 1..Len(got[q]) : got[q][k] = k
      BY <1>3, <2>1, ArrivesOnWay
    <2>3. InStep(t, i, Len(Items(got[q])), Len(log[t]))
      BY <1>1, <2>1, <2>2 DEF LInv, InputPaired, Paired
    <2>4. Len(got[q]) = m + 1
      BY <1>2, <1>3, <2>2, <2>3 DEF InStep, Flushing, Pending
    <2>5. m + 1 \in 1..Len(got[q])
      BY <2>4
    <2>6. PICK n \in Nat : n = Rounds(q[1])
      BY <1>1, <2>2, RoundsType
    <2>7. m + 1 <= n /\ n <= length
      BY <2>2, <2>4, <2>6 DEF Numbered
    <2>8. m + 1 <= length
      BY <1>0, <2>7
    <2> QED BY <2>1, <2>2, <2>4, <2>5, <2>8
  <1>4. PICK j \in 1..NInputs(t) : ~ finished[t][j]
    BY <1>1 DEF AllFinished
  <1>5. m + 1 <= length
    BY <1>3, <1>4
  <1>6. ~ finished[t][1]
    <2>1. SUFFICES ASSUME finished[t][1] PROVE FALSE
      OBVIOUS
    <2>2. NInputs(t) > 1
      <3>1. j # 1
        BY <1>4, <2>1
      <3> QED BY <1>1, <3>1
    <2>3. PICK q : q = Sole(t, 1)
      OBVIOUS
    <2>4. q \in S
      BY <1>1, <2>2, <2>3 DEF Reads
    <2>5. /\ Alone(t, 1) /\ q[1] \in Task /\ Numbered(S, q[1])
          /\ pc[q[1]] = "done" /\ Len(Items(got[q])) = Rounds(q[1])
      BY <1>1, <2>1, <2>3, ArrivesOnWay
    <2>6. Whole(S, q[1])
      BY <2>4, WayFacts DEF OnWay, Whole
    <2>7. Len(Items(got[q])) = length
      BY <2>5, <2>6 DEF Numbered
    <2>8. InStep(t, 1, Len(Items(got[q])), Len(log[t]))
      BY <1>1, <2>3, <2>5 DEF LInv, InputPaired, Paired
    <2>9. length <= m
      BY <1>2, <2>1, <2>7, <2>8 DEF InStep, Flushing
    <2> QED BY <1>0, <1>5, <2>9
  <1>7. Value(inputs[t][1]) = m + 1
    <2>1. Reading(t, 1) /\ InQueue(t, 1) = Sole(t, 1)
      <3>1. Alone(t, 1)
        BY <1>1 DEF Reads
      <3>2. Reading(t, 1)
        BY <1>6 DEF Reading, Getting, Releasing
      <3> QED BY <1>1, <3>1, <3>2, SoleFacts
    <2>2. Value(inputs[t][1]) = got[Sole(t, 1)][Len(got[Sole(t, 1)])]
      BY <1>1, <2>1 DEF LInv, AllRead, ReadInv
    <2> QED BY <1>1, <1>3, <1>6, <2>2
  <1> QED BY <1>2, <1>5, <1>7

(* A task on the way that has read its inputs to their ends was called     *)
(* with all items, if nothing has made an input end early.                 *)
LEMMA AllAtEnd ==
    ASSUME LInv, NEW N, NEW S, OnWay(N, S), NEW t, Reads(N, S, t), pc[t] = "get",
           AllFinished(t), Numbered(S, t), Rounds(t) = Len(log[t]), Whole(S, t)
    PROVE  Rounds(t) = length
  <1>1. t \in Task /\ NInputs(t) \in Nat \ {0} /\ 1 \in 1..NInputs(t) /\ TypeInv /\ finished[t][1]
    BY DEF Reads, LInv, SInv, IInv, AllFinished
  <1>2. PICK m \in Nat : m = Len(log[t])
    BY <1>1, RoundsType
  <1>3. PICK q : q = Sole(t, 1)
    OBVIOUS
  <1>4. /\ q \in N /\ Alone(t, 1) /\ q[1] \in Task /\ Numbered(S, q[1])
        /\ pc[q[1]] = "done" /\ Len(Items(got[q])) = Rounds(q[1])
    BY <1>1, <1>3, ArrivesOnWay
  <1>5. Whole(S, q[1])
    <2>1. CASE failed = {}
      BY <2>1 DEF Whole
    <2>2. CASE failed # {}
      <3>1. q \in S
        BY <1>1, <1>3, <2>2 DEF Whole
      <3> QED BY <3>1, WayFacts DEF OnWay, Whole
    <2> QED BY <2>1, <2>2
  <1>6. Len(Items(got[q])) = length
    BY <1>4, <1>5 DEF Numbered
  <1>7. InStep(t, 1, Len(Items(got[q])), Len(log[t]))
    BY <1>1, <1>3, <1>4 DEF LInv, InputPaired, Paired
  <1>8. length <= m
    BY <1>1, <1>2, <1>6, <1>7 DEF InStep, Flushing
  <1>9. m <= length /\ length \in Nat
    BY <1>2 DEF Numbered, OnWay
  <1> QED BY <1>2, <1>8, <1>9

(* Until it has sent the end marker, a task on the way fills a buffer of   *)
(* its one queue.                                                          *)
LEMMA FilledBuffer ==
    ASSUME SInv, NEW r \in Task, NEW i \in 1..NInputs(r), Alone(r, i), NEW q, q = Sole(r, i),
           NEW t, t = q[1], NTargets(t) = 1, Mode[t] # "sink", pc[t] \in {"work", "push"}
    PROVE  /\ out[t] \in Own(q) /\ out[t] \in Buffer /\ OutQueue(t) = q
           /\ HoldsOutput(t) /\ q \in Queue /\ t \in Task
  <1>1. q \in Queue /\ t \in Task /\ q \in Streams /\ (Open(q) <=> ~ Outlived(r, i))
    BY SoleFacts, ConstantsType
  <1>2. IInv /\ TypeInv /\ Position(t)
    BY <1>1 DEF SInv, IInv, TypeInv, Positions
  <1>3. current[t] = 1
    BY <1>2 DEF Position
  <1>4. HoldsOutput(t)
    BY DEF HoldsOutput
  <1>5. OutQueue(t) = <<t, 1>> /\ OutQueue(t) \in Queue /\ out[t] \in Reach(OutQueue(t))
    BY <1>1, <1>2, <1>3, <1>4, PlacesType DEF OutQueue
  <1>6. q = <<t, 1>>
    <2>1. q \in TaskQueue
      BY <1>1, GroupAssumption
    <2>2. PICK s \in Task : \E k \in 1..NTargets(s) : q = <<s, k>>
      BY <2>1 DEF TaskQueue
    <2>3. PICK k \in 1..NTargets(s) : q = <<s, k>>
      BY <2>2
    <2>4. s = t /\ k = 1
      BY <2>3
    <2> QED BY <2>3, <2>4
  <1>7. ~ finished[r][i]
    <2>1. ~ LeftBehind(q)
      BY <1>3, <1>6 DEF LeftBehind
    <2> QED BY <2>1, EndedInput
  <1>8. Open(q)
    BY <1>1, <1>7 DEF Outlived
  <1>9. out[t] \in Own(q)
    BY <1>5, <1>6, <1>8 DEF Reach
  <1> QED BY <1>1, <1>2, <1>4, <1>5, <1>6, <1>9, OwnFacts

(* No other task writes to it. *)
LEMMA FilledKept ==
    ASSUME SInv, TypeInv', NEW r \in Task, NEW i \in 1..NInputs(r), Alone(r, i),
           NEW q, q = Sole(r, i), NEW t, t = q[1], NTargets(t) = 1, Mode[t] # "sink",
           pc[t] = "push", NEW u \in Task \ {t}, Run(u)
    PROVE  Value(out[t])' = Value(out[t])
  <1>1. PICK b : b = out[t]
    OBVIOUS
  <1>2. b \in Own(q) /\ b \in Buffer /\ q \in Queue /\ t \in Task
    BY <1>1, FilledBuffer
  <1>3. IInv /\ TypeInv /\ [Next]_vars /\ out'[t] = b
    BY <1>1, <1>2, OwnLocals DEF SInv, IInv, Next
  <1>4. Value(b)' = Value(b)
    <2>1. SUFFICES ASSUME Value(b)' # Value(b) PROVE FALSE
      OBVIOUS
    <2>2. PICK w : Writes(u, w) /\ \E v : data' = [data EXCEPT ![w] = v]
      BY <1>2, <1>3, <2>1, WrittenTo DEF Value
    <2>3. w = b
      BY <1>2, <1>3, <2>1, <2>2 DEF Value, TypeInv, TypeOK, GroupsOK
    <2>4. CASE b = out[u] /\ HoldsOutput(u)
      <3>1. OutQueue(u) \in Queue /\ OutQueue(u)[1] = u /\ b \in Reach(OutQueue(u))
        BY <1>3, <2>4, PlacesType
      <3>2. OutQueue(u) = q
        BY <1>2, <1>3, <3>1, ReachesSole
      <3> QED BY <3>1, <3>2
    <2>5. CASE BroadcastCopy(u) /\ b = Head(Grown(<<u, idx[u]>>, Limit(u)))
      <3>1. PICK o \in Queue : o = <<u, idx[u]>> /\ o[1] = u
        BY <1>3, <2>5, ConstantsType DEF BroadcastCopy, TypeInv, TypeOK, ThreadsOK
      <3>2. /\ ProducerPop(o, Limit(o[1]))
            /\ UNCHANGED finished /\ b = Head(Grown(o, Limit(o[1])))
        BY <2>5, <3>1 DEF BroadcastCopy, PushCopy
      <3>3. b \in Reach(o)'
        BY <1>3, <3>1, <3>2, PoppedFacts
      <3>4. o = q
        BY <1>2, <1>3, <3>1, <3>3, ReachesSole
      <3> QED BY <3>1, <3>4
    <2> QED BY <2>2, <2>3, <2>4, <2>5 DEF Writes
  <1> QED BY <1>1, <1>3, <1>4

(* What the thread of a task on the way does. *)
KeepsCalls(t) == log'[t] = log[t] /\ count'[t] = count[t]

GoesOn(t, q) ==
    /\ pc[t] \notin {"push", "done"} /\ pc'[t] \notin {"push", "done"}
    /\ pc'[t] \in Flushing => pc[t] \in Flushing \/ (t \in MayFail /\ failed' # {})
    /\ sent'[q] = sent[q] /\ KeepsCalls(t)

Works(t, q, v) ==
    /\ pc[t] = "work" /\ pc'[t] = "push" /\ sent'[q] = sent[q]
    /\ out'[t] = out[t] /\ data' = [data EXCEPT ![out[t]] = v]
    /\ \/ Mode[t] = "generator" /\ v = count[t] + 1 /\ count'[t] = v /\ log'[t] = log[t]
       \/ /\ Mode[t] = "processor" /\ v = Value(inputs[t][1]) /\ count'[t] = count[t]
          /\ log'[t] = Append(log[t], [i \in 1..NInputs(t) |-> Value(inputs[t][i])])

HandsOn(t, q) ==
    /\ pc[t] = "push" /\ pc'[t] \in {"get", "release"}
    /\ sent'[q] = Append(sent[q], Value(out[t])) /\ KeepsCalls(t)

Closes(t, q) ==
    /\ pc[t] \notin {"push", "done"} /\ pc'[t] = "done"
    /\ sent'[q] = Append(sent[q], EndOfStream) /\ KeepsCalls(t)
    /\ Mode[t] = "generator" \/ (pc[t] = "get" /\ AllFinished(t)) \/ pc[t] = "flush"

LEMMA OneTargetPush ==
    ASSUME TypeInv, NEW t \in Task, Push(t), NTargets(t) = 1, Mode[t] # "sink",
           NEW q, q = <<t, 1>>, q \in Streams
    PROVE  sent'[q] = Append(sent[q], Value(out[t]))
  <1>1. q \in Queue /\ ~ Wraps(t) /\ current[t] = 1 /\ received[t] \in Nat
        /\ sent \in [Queue -> Seq(Tag)]
    BY DEF Streams, TypeInv, TypeOK, GroupsOK, Positions, Position
  <1>2. CASE PushScatter(t, out[t])
    BY <1>1, <1>2 DEF PushScatter
  <1>3. CASE PushOriginal(t, out[t])
    BY <1>1, <1>3 DEF PushOriginal
  <1>4. CASE PushSequential(t, out[t])
    <2>1. ~ NumExpected[q] > 0
      <3>1. PICK k \in 1..NTargets(t) : ~ NumExpected[<<t, k>>] > 0
        BY <1>1, <1>4 DEF Wraps, PushSequential
      <3>2. k = 1
        BY <3>1
      <3> QED BY <3>1, <3>2
    <2>2. ~ Complete(t)
      <3>1. NumExpected[q] \in Int
        BY <1>1, GroupAssumption
      <3> QED BY <1>1, <2>1, <3>1 DEF Complete
    <2>3. sent'[q] = sent[q] \o <<Value(out[t])>>
      BY <1>1, <1>4, <2>2 DEF PushSequential, SubStream
    <2>4. Value(out[t]) \in Tag /\ sent[q] \in Seq(Tag)
      BY <1>1, ValueType DEF TypeInv, Tag
    <2> QED BY <2>3, <2>4, AppendIsConcat
  <1> QED BY <1>2, <1>3, <1>4 DEF Push

LEMMA WaySteps ==
    ASSUME TypeInv, NEW t \in Task, Run(t), NTargets(t) = 1, NEW q, q = <<t, 1>>, q \in Streams,
           Mode[t] \in {"generator", "processor"}, Copying(t), aborted = FALSE, t \notin MayStop
    PROVE  GoesOn(t, q) \/ (\E v : Works(t, q, v)) \/ HandsOn(t, q) \/ Closes(t, q)
  <1>1. /\ q \in Queue /\ q[1] = t /\ Position(t) /\ pc \in [Task -> PCs]
        /\ count \in [Task -> Nat] /\ log \in [Task -> Seq(Seq(Nat))] /\ failed \subseteq Task
        /\ Mode[t] # "sink" /\ Mode[t] # "reductor"
    BY DEF Streams, TypeInv, TypeOK, ThreadsOK, GhostsOK, Positions
  <1>2. pc[t] \notin Reducing
    BY <1>1 DEF Position
  <1>3. ASSUME Leave(t), UNCHANGED <<log, count>>, pc[t] \notin {"push", "done"},
               Mode[t] = "generator" \/ (pc[t] = "get" /\ AllFinished(t)) \/ pc[t] = "flush"
        PROVE  Closes(t, q)
    BY <1>1, <1>3 DEF Leave, Finish, FinishTo, Closes, KeepsCalls
  <1>4. CASE PopInput(t) \/ SkipInput(t) \/ ReleaseInput(t)
    <2>1. UNCHANGED <<sent, log, count>>
      BY <1>4 DEF PopInput, PopInputBuffer, SkipInput, ReleaseInput, PushInputBuffer, groupVars,
                  ghostVars
    <2>2. CASE PopInput(t) \/ SkipInput(t)
      BY <1>1, <2>1, <2>2 DEF PopInput, SkipInput, GoesOn, KeepsCalls, Getting
    <2>3. CASE ReleaseInput(t)
      <3>1. pc[t] \in Releasing /\ (pc'[t] = pc[t] \/ pc'[t] = AfterRelease(t))
        BY <1>1, <2>3 DEF ReleaseInput
      <3>2. pc[t] # "rerelease"
        BY <1>2 DEF Reducing
      <3> QED BY <2>1, <3>1, <3>2 DEF AfterRelease, GoesOn, KeepsCalls, Releasing, Flushing
    <2> QED BY <1>4, <2>2, <2>3
  <1>5. CASE Stop(t)
    BY <1>1, <1>3, <1>5 DEF Stop, GotInputs
  <1>6. CASE Proceed(t)
    BY <1>1, <1>6 DEF Proceed, GotInputs, groupVars, ghostVars, GoesOn, KeepsCalls, Flushing
  <1>7. CASE Fail(t)
    <2>1. CASE Mode[t] = "generator"
      BY <1>1, <1>3, <1>7, <2>1 DEF Fail, GotInputs, ghostVars
    <2>2. CASE Mode[t] # "generator"
      <3>1. pc[t] = "get" /\ pc'[t] = "flush" /\ UNCHANGED <<sent, log, count>>
        BY <1>1, <1>7, <2>2 DEF Fail, GotInputs, groupVars, ghostVars
      <3>2. t \in MayFail /\ failed' # {}
        BY <1>7 DEF Fail
      <3> QED BY <3>1, <3>2 DEF GoesOn, KeepsCalls
    <2> QED BY <2>1, <2>2
  <1>8. CASE PopOut(t)
    <2>1. pc[t] = "popout" /\ pc'[t] = "work" /\ UNCHANGED <<sent, log, count>>
      BY <1>1, <1>2, <1>8 DEF PopOut, Reducing, groupVars, ghostVars
    <2> QED BY <2>1 DEF GoesOn, KeepsCalls, Flushing
  <1>9. CASE Generate(t)
    <2>1. CASE Leave(t) /\ UNCHANGED <<count, ghostVars>>
      BY <1>1, <1>3, <1>9, <2>1 DEF Generate, ghostVars
    <2>2. CASE pc' = [pc EXCEPT ![t] = "push"] /\ Produce(t)
      <3>1. /\ pc[t] = "work" /\ pc'[t] = "push" /\ Mode[t] = "generator"
            /\ count'[t] = count[t] + 1
            /\ data' = [data EXCEPT ![out[t]] = count[t] + 1]
            /\ UNCHANGED <<sent, out, log>>
        BY <1>1, <1>9, <2>2 DEF Generate, Produce, ghostVars
      <3>2. Works(t, q, count[t] + 1)
        BY <3>1 DEF Works
      <3> QED BY <3>2
    <2> QED BY <1>9, <2>1, <2>2 DEF Generate
  <1>10. CASE Process(t)
    <2>1. /\ pc[t] = "work" /\ pc'[t] = "push" /\ Mode[t] = "processor"
          /\ data' = [data EXCEPT ![out[t]] = Value(inputs[t][1])]
          /\ UNCHANGED <<sent, out, count>> /\ Consume(t)
      BY <1>1, <1>10 DEF Process
    <2>2. log'[t] = Append(log[t], [i \in 1..NInputs(t) |-> Value(inputs[t][i])])
      BY <1>1, <2>1 DEF Consume
    <2>3. Works(t, q, Value(inputs[t][1]))
      BY <2>1, <2>2 DEF Works
    <2> QED BY <2>3
  <1>11. CASE Push(t)
    <2>1. sent'[q] = Append(sent[q], Value(out[t]))
      BY <1>1, <1>11, OneTargetPush
    <2>2. pc[t] = "push"
      BY <1>2, <1>11 DEF Push, Reducing
    <2>3. pc'[t] \in {"get", "release"} /\ UNCHANGED <<log, count>>
      BY <1>1, <1>11, <2>2 DEF Push, AfterPush, ghostVars
    <2> QED BY <2>1, <2>2, <2>3 DEF HandsOn, KeepsCalls
  <1>12. CASE BroadcastCopy(t)
    <2>1. pc[t] \in {"push", "repush"} /\ idx[t] <= 1 /\ idx[t] \in Nat
      BY <1>1, <1>12 DEF BroadcastCopy, TypeInv, TypeOK, ThreadsOK
    <2> QED BY <2>1 DEF Copying, FirstCopy
  <1>13. CASE Flush(t)
    <2>1. pc[t] = "flush" /\ UNCHANGED <<log, count>>
      BY <1>13 DEF Flush, GotInputs, ghostVars
    <2>2. CASE AllFinished(t)
      BY <1>3, <1>13, <2>1, <2>2 DEF Flush
    <2>3. CASE ~ AllFinished(t)
      <3>1. pc'[t] = "flushrelease" /\ UNCHANGED sent
        BY <1>1, <1>13, <2>3 DEF Flush, groupVars
      <3> QED BY <2>1, <3>1 DEF GoesOn, KeepsCalls, Flushing
    <2> QED BY <2>2, <2>3
  <1>14. CASE Reduce(t) \/ Reget(t) \/ Regenerate(t)
    BY <1>2, <1>14 DEF Reduce, Reget, Regenerate, GotInputs, Reducing
  <1> QED BY <1>4, <1>5, <1>6, <1>7, <1>8, <1>9, <1>10, <1>11, <1>12, <1>13, <1>14 DEF Run

----------------------------------------------------------------------------
(* The items on the way stay in order                                      *)

(* The items that an input task was handed. *)
FedCounted ==
    runner # "broken" =>
        /\ length \in Nat
        /\ \A t \in InTask : count[t] <= length /\ (pc[t] = "done" => count[t] = length)

LEMMA FedCounts == FeedInv => FedCounted
  <1> SUFFICES ASSUME FeedInv, runner # "broken" PROVE FedCounted
    BY DEF FedCounted
  <1>1. FeederInv /\ \A k \in Order : Fed(k, Feeds[k])
    BY DEF FeedInv
  <1>2. length \in Nat /\ item \in 0..length
    BY <1>1 DEF FeederInv
  <1>3. ASSUME NEW t \in InTask PROVE count[t] <= length /\ (pc[t] = "done" => count[t] = length)
    <2>1. PICK k \in Order : t = Feeds[k]
      BY FeedFacts
    <2>2. Fed(k, t)
      BY <1>1, <2>1
    <2>3. Released(k) \in Nat /\ Released(k) <= length
      BY <1>1, <1>2 DEF Released, FeederInv
    <2>4. count[t] <= length
      BY <1>2, <2>2, <2>3 DEF Fed
    <2>5. ASSUME pc[t] = "done" PROVE count[t] = length
      <3>1. Told(k) /\ ~ Underway(t) /\ count[t] = Released(k)
        BY <2>2, <2>5 DEF Fed
      <3>2. feeder \in {"stop", "leave", "end"}
        BY <3>1 DEF Told
      <3> QED BY <1>1, <3>1, <3>2 DEF Released, FeederInv
    <2> QED BY <2>4, <2>5
  <1> QED BY <1>2, <1>3 DEF FedCounted

LEMMA FailedGrows ==
    ASSUME NEW t \in Task, Run(t)
    PROVE  failed \subseteq failed'
  BY DEF Run, PopInput, SkipInput, Stop, Proceed, Fail, PopOut, Generate, Produce, Process, Reduce,
         Reget, Regenerate, Push, BroadcastCopy, ReleaseInput, Flush

(* A task of another thread. *)
LEMMA NumberedStays ==
    ASSUME NEW S, NEW t, Numbered(S, t), pc'[t] = pc[t], KeepsCalls(t), length' = length,
           failed \subseteq failed'
    PROVE  Numbered(S, t)' /\ Rounds(t)' = Rounds(t)
  <1>1. Rounds(t)' = Rounds(t) /\ log'[t] = log[t]
    BY DEF Rounds, KeepsCalls
  <1>2. Whole(S, t)' => Whole(S, t)
    BY DEF Whole
  <1> QED BY <1>1, <1>2 DEF Numbered

(* The calls of process. *)
LEMMA NumberedStep ==
    ASSUME LInv, NEW N, NEW S, OnWay(N, S), NEW t, Reads(N, S, t), t \notin InTask,
           Numbered(S, t), length' = length, failed \subseteq failed',
           \/ /\ pc'[t] # "done" /\ log'[t] = log[t]
              /\ pc'[t] \in Flushing =>
                    pc[t] \in Flushing \ {"done"} \/ (t \in MayFail /\ failed' # {})
           \/ /\ pc[t] = "work" /\ pc'[t] \notin Flushing
              /\ log'[t] = Append(log[t], [i \in 1..NInputs(t) |-> Value(inputs[t][i])])
           \/ /\ pc'[t] = "done" /\ log'[t] = log[t]
              /\ (pc[t] = "get" /\ AllFinished(t)) \/ pc[t] = "flush"
    PROVE  Numbered(S, t)'
  <1>1. /\ t \in Task /\ TypeInv /\ Rounds(t) = Len(log[t]) /\ Rounds(t)' = Len(log'[t])
        /\ 1 \in 1..NInputs(t)
    BY DEF Reads, LInv, SInv, IInv, Rounds
  <1>2. PICK m \in Nat : m = Len(log[t])
    BY <1>1, RoundsType
  <1>3. Whole(S, t)' => Whole(S, t)
    BY DEF Whole
  <1>4. CASE /\ pc'[t] # "done" /\ log'[t] = log[t]
             /\ pc'[t] \in Flushing =>
                   pc[t] \in Flushing \ {"done"} \/ (t \in MayFail /\ failed' # {})
    <2>1. pc[t] \in Flushing \ {"done"} => t \in MayFail /\ failed' # {}
      BY DEF Numbered, Flushing
    <2>2. (t \notin MayFail \/ failed = {})' => pc'[t] \notin {"flush", "flushrelease"}
      BY <1>4, <2>1 DEF Flushing
    <2> QED BY <1>1, <1>4, <2>2 DEF Numbered
  <1>5. CASE /\ pc[t] = "work" /\ pc'[t] \notin Flushing
             /\ log'[t] = Append(log[t], [i \in 1..NInputs(t) |-> Value(inputs[t][i])])
    <2>1. Value(inputs[t][1]) = m + 1 /\ m + 1 <= length
      BY <1>2, <1>5, NextAtHand
    <2>2. PICK c : c = [i \in 1..NInputs(t) |-> Value(inputs[t][i])]
      OBVIOUS
    <2>3. c \in Seq(Nat) /\ c[1] = m + 1
      <3>1. NInputs(t) \in Nat /\ \A x : Value(x) \in Nat
        BY <1>1, ValueType, ConstantsType DEF TypeInv
      <3>2. \A j \in 1..NInputs(t) : Value(inputs[t][j]) \in Nat
        BY <3>1
      <3>3. c[1] = Value(inputs[t][1])
        BY <1>1, <2>2
      <3>4. c \in Seq(Nat)
        BY <2>2, <3>1, <3>2
      <3> QED BY <2>1, <3>3, <3>4
    <2>4. PICK l \in Seq(Seq(Nat)) : l = log[t]
      BY <1>1, RoundsType
    <2>5. PICK h : h = Append(l, c)
      OBVIOUS
    <2>6. Len(h) = m + 1 /\ h[m + 1] = c /\ \A k \in 1..m : h[k] = l[k]
      BY <1>2, <2>3, <2>4, <2>5, AppendProperties
    <2>7. \A k \in 1..m : l[k][1] = k
      BY <1>2, <2>4 DEF Numbered
    <2>8. \A k \in 1..m + 1 : h[k][1] = k
      <3>1. \A k \in 1..m + 1 : k \in 1..m \/ k = m + 1
        OBVIOUS
      <3> QED BY <2>3, <2>6, <2>7, <3>1
    <2>9. log'[t] = h
      BY <1>5, <2>2, <2>4, <2>5
    <2> QED BY <1>1, <1>5, <2>1, <2>6, <2>8, <2>9 DEF Numbered, Flushing
  <1>6. CASE /\ pc'[t] = "done" /\ log'[t] = log[t]
             /\ (pc[t] = "get" /\ AllFinished(t)) \/ pc[t] = "flush"
    <2>1. Whole(S, t)' => Rounds(t)' = length'
      <3>1. SUFFICES ASSUME Whole(S, t) PROVE Rounds(t) = length
        BY <1>1, <1>3, <1>6
      <3>2. CASE pc[t] = "get" /\ AllFinished(t)
        BY <1>1, <3>1, <3>2, AllAtEnd
      <3>3. CASE pc[t] = "flush"
        BY <3>1, <3>3 DEF Numbered, Whole
      <3> QED BY <1>6, <3>2, <3>3
    <2> QED BY <1>1, <1>6, <2>1 DEF Numbered
  <1> QED BY <1>4, <1>5, <1>6

(* What a task on the way sends. *)
LEMMA SendsStep ==
    ASSUME TypeInv, NEW t \in Task, NEW q \in Queue, NEW n \in Nat, NEW m \in Nat, Sends(q, t, n),
           \/ (GoesOn(t, q) \/ HandsOn(t, q) \/ Closes(t, q)) /\ m = n
           \/ Works(t, q, m) /\ m = n + 1 /\ out[t] \in Buffer
    PROVE  Sends(q, t, m)'
  <1>1. PICK s \in Seq(Tag) : s = sent[q]
    BY StreamTypes
  <1>2. PICK l \in Nat : l = Len(s)
    OBVIOUS
  <1>3. \A k \in 1..l : k <= n => s[k] = k
    BY <1>1, <1>2 DEF Sends
  <1>4. pc[t] \notin {"push", "done"} => l = n
    BY <1>1, <1>2 DEF Sends
  <1>5. ASSUME NEW v \in Tag
        PROVE  /\ Len(Append(s, v)) = l + 1 /\ Append(s, v)[l + 1] = v
               /\ \A k \in 1..l : Append(s, v)[k] = s[k]
    BY <1>2, AppendProperties
  <1>6. \A k \in 1..l + 1 : k \in 1..l \/ k = l + 1
    OBVIOUS
  <1>7. CASE GoesOn(t, q) /\ m = n
    BY <1>1, <1>2, <1>3, <1>4, <1>7 DEF GoesOn, Sends
  <1>8. CASE HandsOn(t, q) /\ m = n
    <2>1. l + 1 = n /\ Value(out[t]) = n /\ n \in Tag
      BY <1>1, <1>2, <1>8 DEF HandsOn, Sends, Tag
    <2>2. PICK r : r = sent'[q]
      OBVIOUS
    <2>3. r = Append(s, n)
      BY <1>1, <1>8, <2>1, <2>2 DEF HandsOn
    <2>4. Len(r) = n /\ \A k \in 1..n : r[k] = k
      <3>1. Len(r) = l + 1 /\ r[l + 1] = n /\ \A k \in 1..l : r[k] = s[k]
        BY <1>5, <2>1, <2>3
      <3>2. \A k \in 1..l : r[k] = k
        BY <1>3, <2>1, <3>1
      <3> QED BY <1>6, <2>1, <3>1, <3>2
    <2>5. pc'[t] # "done" /\ pc'[t] # "push"
      BY <1>8 DEF HandsOn
    <2> QED BY <1>8, <2>2, <2>4, <2>5 DEF Sends
  <1>9. CASE Closes(t, q) /\ m = n
    <2>1. l = n /\ pc'[t] = "done" /\ EndOfStream \in Tag
      BY <1>4, <1>9 DEF Closes, Tag
    <2>2. PICK r : r = sent'[q]
      OBVIOUS
    <2>3. r = Append(s, EndOfStream)
      BY <1>1, <1>9, <2>2 DEF Closes
    <2>4. Len(r) = n + 1 /\ r[n + 1] = EndOfStream /\ \A k \in 1..n : r[k] = k
      <3>1. Len(r) = l + 1 /\ r[l + 1] = EndOfStream /\ \A k \in 1..l : r[k] = s[k]
        BY <1>5, <2>1, <2>3
      <3> QED BY <1>3, <2>1, <3>1
    <2>5. \A k \in 1..Len(r) : k <= n => k \in 1..n
      OBVIOUS
    <2> QED BY <1>9, <2>1, <2>2, <2>4, <2>5 DEF Sends
  <1>10. CASE Works(t, q, m) /\ m = n + 1 /\ out[t] \in Buffer
    <2>1. l = n /\ pc'[t] = "push" /\ sent'[q] = s
      BY <1>1, <1>4, <1>10 DEF Works
    <2>2. Value(out[t])' = m
      BY <1>10 DEF Works, Value, TypeInv, TypeOK, GroupsOK
    <2>3. \A k \in 1..l : s[k] = k
      BY <1>3, <2>1
    <2> QED BY <1>2, <1>10, <2>1, <2>2, <2>3 DEF Sends
  <1> QED BY <1>7, <1>8, <1>9, <1>10

(* What another thread leaves true of a task on the way. *)
LEMMA OthersOnWay ==
    ASSUME LInv, TypeInv', NEW N, NEW S, OnWay(N, S), NEW q \in N, NEW t \in Task, t = q[1],
           NEW u \in Task \ {t}, Run(u), length' = length
    PROVE  Numbered(S, t)' /\ Copying(t)' /\ Sends(q, t, Rounds(t))'
  <1>1. /\ SInv /\ TypeInv /\ q \in Queue /\ Mode[t] # "sink" /\ NTargets(t) = 1
        /\ \E r \in Task : \E i \in 1..NInputs(r) : Alone(r, i) /\ q = Sole(r, i)
        /\ Numbered(S, t) /\ Copying(t) /\ Sends(q, t, Rounds(t))
    BY WayFacts DEF OnWay, WayInv, LInv, SInv, IInv
  <1>2. pc'[t] = pc[t] /\ out'[t] = out[t] /\ KeepsCalls(t)
    BY <1>1, OwnLocals, CountStays DEF KeepsCalls
  <1>3. failed \subseteq failed'
    BY FailedGrows
  <1>4. PICK n : n = Rounds(t)
    OBVIOUS
  <1>5. Numbered(S, t)' /\ Rounds(t)' = n
    BY <1>1, <1>2, <1>3, <1>4, NumberedStays
  <1>6. sent'[q] = sent[q]
    BY <1>1, RunMoves DEF Moves, Idles, Ends, Pops, PushesTo
  <1>7. pc[t] = "push" => Value(out[t])' = Value(out[t])
    <2>1. PICK r \in Task : \E i \in 1..NInputs(r) : Alone(r, i) /\ q = Sole(r, i)
      BY <1>1
    <2>2. PICK i \in 1..NInputs(r) : Alone(r, i) /\ q = Sole(r, i)
      BY <2>1
    <2> QED BY <1>1, <2>2, FilledKept
  <1>8. Sends(q, t, n)'
    BY <1>1, <1>2, <1>4, <1>6, <1>7 DEF Sends
  <1>9. Copying(t)'
    BY <1>1, CopyingStep
  <1> QED BY <1>5, <1>8, <1>9

(* What its own thread does. *)
LEMMA OwnOnWay ==
    ASSUME LInv, TypeInv', FedCounted', NEW N, NEW S, OnWay(N, S), NEW q \in N, NEW t \in Task,
           t = q[1], Run(t), length' = length, runner' # "broken", aborted = FALSE
    PROVE  Numbered(S, t)' /\ Copying(t)' /\ Sends(q, t, Rounds(t))'
  <1>1. /\ SInv /\ TypeInv /\ q \in Queue /\ q = <<t, 1>> /\ NTargets(t) = 1
        /\ Mode[t] \in {"generator", "processor"} /\ Mode[t] # "sink" /\ t \notin MayStop
        /\ t \in InTask <=> Mode[t] = "generator"
        /\ \E r \in Task : \E i \in 1..NInputs(r) : Alone(r, i) /\ q = Sole(r, i)
        /\ Numbered(S, t) /\ Copying(t) /\ Sends(q, t, Rounds(t))
    BY WayFacts DEF OnWay, WayInv, LInv, SInv, IInv
  <1>2. PICK r \in Task : \E i \in 1..NInputs(r) : Alone(r, i) /\ q = Sole(r, i)
    BY <1>1
  <1>3. PICK i \in 1..NInputs(r) : Alone(r, i) /\ q = Sole(r, i)
    BY <1>2
  <1>4. q \in Streams /\ failed \subseteq failed' /\ Copying(t)'
    BY <1>1, <1>3, SoleFacts, FailedGrows, CopyingStep
  <1>5. pc[t] = "work" => out[t] \in Buffer
    BY <1>1, <1>3, FilledBuffer
  <1>6. PICK n \in Nat, m \in Nat : n = Rounds(t) /\ m = Rounds(t)'
    <2>1. Rounds(t) \in Nat
      BY <1>1, RoundsType
    <2>2. count'[t] \in Nat /\ Len(log'[t]) \in Nat
      BY LenProperties DEF TypeInv, TypeOK, ThreadsOK, GhostsOK
    <2> QED BY <2>1, <2>2 DEF Rounds
  <1>7. GoesOn(t, q) \/ (\E v : Works(t, q, v)) \/ HandsOn(t, q) \/ Closes(t, q)
    BY <1>1, <1>4, WaySteps
  <1>8. CASE t \in InTask
    <2>1. Mode[t] = "generator" /\ n = count[t] /\ m = count'[t]
      BY <1>1, <1>6, <1>8 DEF Rounds
    <2>2. /\ \/ (GoesOn(t, q) \/ HandsOn(t, q) \/ Closes(t, q)) /\ m = n
             \/ Works(t, q, m) /\ m = n + 1
          /\ log'[t] = log[t]
      BY <1>7, <2>1 DEF GoesOn, HandsOn, Closes, KeepsCalls, Works
    <2>3. Sends(q, t, m)'
      BY <1>1, <1>5, <1>6, <2>2, SendsStep DEF Works
    <2>4. Numbered(S, t)'
      <3>1. m <= length' /\ (pc'[t] = "done" => m = length')
        BY <1>8, <2>1 DEF FedCounted
      <3>2. (t \notin MayFail \/ failed = {})' => pc'[t] \notin {"flush", "flushrelease"}
        BY <1>1, <1>4, <1>7, <2>2 DEF Numbered, GoesOn, HandsOn, Closes, Works, Flushing
      <3> QED BY <1>1, <1>6, <2>2, <3>1, <3>2 DEF Numbered
    <2> QED BY <1>4, <1>6, <2>3, <2>4
  <1>9. CASE t \notin InTask
    <2>1. Reads(N, S, t) /\ n = Len(log[t]) /\ m = Len(log'[t]) /\ Mode[t] = "processor"
      BY <1>1, <1>6, <1>9, WayFacts DEF OnWay, Rounds
    <2>2. Numbered(S, t)'
      BY <1>1, <1>4, <1>7, <1>9, <2>1, NumberedStep
         DEF GoesOn, HandsOn, Closes, KeepsCalls, Works, Flushing
    <2>3. CASE GoesOn(t, q) \/ HandsOn(t, q) \/ Closes(t, q)
      <3>1. m = n
        BY <2>1, <2>3 DEF GoesOn, HandsOn, Closes, KeepsCalls
      <3>2. Sends(q, t, m)'
        BY <1>1, <1>6, <2>3, <3>1, SendsStep
      <3> QED BY <1>4, <1>6, <2>2, <3>2
    <2>4. CASE \E v : Works(t, q, v)
      <3>1. PICK v : Works(t, q, v)
        BY <2>4
      <3>2. /\ pc[t] = "work" /\ v = Value(inputs[t][1])
            /\ log'[t] = Append(log[t], [j \in 1..NInputs(t) |-> Value(inputs[t][j])])
        BY <2>1, <3>1 DEF Works
      <3>3. v = n + 1
        BY <2>1, <3>2, NextAtHand
      <3>4. m = n + 1
        BY <1>1, <2>1, <3>2, RoundsType
      <3>5. Sends(q, t, m)'
        BY <1>1, <1>5, <1>6, <3>1, <3>2, <3>3, <3>4, SendsStep
      <3> QED BY <1>4, <1>6, <2>2, <3>5
    <2> QED BY <1>7, <2>3, <2>4
  <1> QED BY <1>8, <1>9

(* The thread of the output task. *)
LEMMA OutTaskNumbered ==
    ASSUME LInv, NEW N, NEW S, OnWay(N, S), RunThread(OutTask), length' = length, aborted = FALSE
    PROVE  Numbered(S, OutTask)'
  <1>1. /\ TypeInv /\ Reads(N, S, OutTask) /\ OutTask \in Task \ InTask
        /\ Mode[OutTask] = "sink" /\ OutTask \notin MayStop /\ RunOutput /\ Numbered(S, OutTask)
        /\ pc \in [Task -> PCs] /\ log \in [Task -> Seq(Seq(Nat))] /\ Position(OutTask)
    BY FeedFacts, ThreadFacts, WayFacts
       DEF OnWay, WayInv, LInv, SInv, IInv, TypeInv, TypeOK, ThreadsOK, GhostsOK, Positions
  <1>2. CASE ProcessedHandler
    <2>1. UNCHANGED <<pc, log, count, failed>>
      BY <1>2 DEF ProcessedHandler, vars, threadVars, ghostVars
    <2> QED BY <1>1, <2>1, NumberedStays DEF KeepsCalls
  <1>3. ASSUME ~ ProcessedHandler PROVE Run(OutTask)
    BY <1>1, <1>3, ThreadRuns
  <1>4. ASSUME ~ ProcessedHandler PROVE failed \subseteq failed'
    BY <1>1, <1>3, <1>4, FailedGrows
  <1>5. CASE Process(OutTask) /\ ~ ProcessedHandler
    <2>1. pc[OutTask] = "work" /\ pc'[OutTask] = "release" /\ Consume(OutTask)
      BY <1>1, <1>5 DEF Process
    <2>2. log'[OutTask] = Append(log[OutTask],
                                 [i \in 1..NInputs(OutTask) |-> Value(inputs[OutTask][i])])
      BY <1>1, <2>1 DEF Consume
    <2>3. pc'[OutTask] \notin Flushing
      BY <2>1 DEF Flushing
    <2> QED BY <1>1, <1>4, <1>5, <2>1, <2>2, <2>3, NumberedStep
  <1>6. CASE Stop(OutTask) /\ ~ ProcessedHandler
    <2>1. /\ pc[OutTask] = "get" /\ pc'[OutTask] = "done" /\ log'[OutTask] = log[OutTask]
          /\ AllFinished(OutTask)
      BY <1>1, <1>6 DEF Stop, GotInputs, Leave
    <2> QED BY <1>1, <1>4, <1>6, <2>1, NumberedStep
  <1>7. CASE /\ PopInput(OutTask) \/ SkipInput(OutTask) \/ Proceed(OutTask) \/ ReleaseInput(OutTask)
             /\ ~ ProcessedHandler
    <2>1. log'[OutTask] = log[OutTask]
      BY <1>7 DEF PopInput, SkipInput, Proceed, ReleaseInput, ghostVars
    <2>2. CASE PopInput(OutTask) \/ SkipInput(OutTask)
      <3>1. pc'[OutTask] = pc[OutTask] /\ pc[OutTask] # "done"
        BY <2>2 DEF PopInput, SkipInput, Getting
      <3> QED BY <1>1, <1>4, <1>7, <2>1, <3>1, NumberedStep
    <2>3. CASE Proceed(OutTask)
      <3>1. pc'[OutTask] = "work"
        BY <1>1, <2>3 DEF Proceed
      <3> QED BY <1>1, <1>4, <1>7, <2>1, <3>1, NumberedStep DEF Flushing
    <2>4. CASE ReleaseInput(OutTask)
      <3>1. /\ pc[OutTask] \in Releasing
            /\ pc'[OutTask] = pc[OutTask] \/ pc'[OutTask] = AfterRelease(OutTask)
        BY <1>1, <2>4 DEF ReleaseInput
      <3>2. pc[OutTask] # "rerelease"
        BY <1>1 DEF Position, Reducing
      <3>3. /\ pc'[OutTask] # "done"
            /\ pc'[OutTask] \in Flushing => pc[OutTask] \in Flushing \ {"done"}
        BY <3>1, <3>2 DEF AfterRelease, Releasing, Flushing
      <3> QED BY <1>1, <1>4, <1>7, <2>1, <3>3, NumberedStep
    <2> QED BY <1>7, <2>2, <2>3, <2>4
  <1> QED BY <1>1, <1>2, <1>5, <1>6, <1>7 DEF RunOutput

LEMMA WayInit ==
    ASSUME NEW N \in SUBSET Queue, NEW S \in SUBSET N, Delivering(N, S), PyInit
    PROVE  WayInv(N, S)
  <1>1. /\ pc = [t \in Task |-> "get"] /\ count = [t \in Task |-> 0] /\ failed = {}
        /\ log = [t \in Task |-> <<>>] /\ sent = [q \in Queue |-> <<>>] /\ length \in Nat
    BY PythonAssumption DEF PyInit, Init, InitOf, InitGroups
  <1>2. Len(<<>>) = 0
    OBVIOUS
  <1>3. \A t \in Task : Numbered(S, t) /\ Copying(t) /\ Rounds(t) = 0
    BY <1>1, <1>2 DEF Numbered, Copying, Rounds
  <1>4. \A q \in N : Sends(q, q[1], Rounds(q[1]))
    <2> SUFFICES ASSUME NEW q \in N PROVE Sends(q, q[1], Rounds(q[1]))
      OBVIOUS
    <2>1. q \in Queue /\ q[1] \in Task
      BY WayFacts
    <2> PICK t \in Task : t = q[1]
      BY <2>1
    <2>2. pc[t] = "get" /\ Rounds(t) = 0 /\ sent[q] = <<>> /\ Len(sent[q]) = 0
      BY <1>1, <1>2, <1>3, <2>1
    <2>3. Sends(q, t, 0)
      BY <2>2 DEF Sends
    <2> QED BY <2>2, <2>3
  <1> QED BY <1>3, <1>4, WayFacts, FeedFacts DEF WayInv

LEMMA WayNext ==
    ASSUME LInv, LInv', RunnerInv, FedCounted, FedCounted', [PyNext]_pyVars,
           NEW N \in SUBSET Queue, NEW S \in SUBSET N, Delivering(N, S), WayInv(N, S)
    PROVE  WayInv(N, S)'
  <1>1. TypeInv /\ TypeInv' /\ OutTask \in Task
    BY FeedFacts DEF LInv, SInv, IInv
  <1>2. CASE UNCHANGED vars
    <2>1. length' = length /\ (runner = "broken" => runner' = "broken")
      <3>1. CASE Feeder
        BY <3>1 DEF Feeder, FeederConnects, FeederWaits, FeederNext, FeederGets, FeederReleases,
                    FeederStops, FeederLeaves, notFeeder, runnerVars
      <3>2. CASE Runner
        BY <3>2 DEF Runner, RunnerClearsDone, RunnerRuns, RunnerReturns, RunnerSetsDone,
                    RunnerResets, notRunner
      <3>3. CASE Main
        <4>1. length' = length
          BY <3>3 DEF Main, MainRuns, MainSetsStarted, MainYields, MainPolls, MainTakes,
                      MainGivesBack, MainJoins, notMain
        <4>2. runner = "broken" => main = "broken"
          BY DEF RunnerInv
        <4>3. main # "broken"
          BY <3>3 DEF Main, MainRuns, MainSetsStarted, MainYields, MainPolls, MainTakes,
                      MainGivesBack, MainJoins
        <4> QED BY <4>1, <4>2, <4>3
      <3>4. CASE \E t \in Task : RunThread(t)
        BY <3>4, ThreadFacts DEF runnerVars
      <3>5. CASE Ended \/ UNCHANGED pyVars
        BY <3>5 DEF Ended, pyVars, appVars, runnerVars
      <3> QED BY <3>1, <3>2, <3>3, <3>4, <3>5 DEF PyNext
    <2>2. UNCHANGED <<pc, idx, count, log, failed, sent, data, out>>
      BY <1>2 DEF vars, groupVars, threadVars, ghostVars
    <2>3. \A b : Value(b)' = Value(b')
      BY <2>2 DEF Value
    <2>4. \A t : /\ Rounds(t)' = Rounds(t) /\ (Numbered(S, t)' <=> Numbered(S, t))
                 /\ Copying(t)' <=> Copying(t)
      BY <2>1, <2>2 DEF Rounds, Numbered, Whole, Copying
    <2>5. \A q, t, n : Sends(q, t, n) => Sends(q, t, n)'
      BY <2>2 DEF Sends, Value
    <2> QED BY <2>1, <2>4, <2>5 DEF WayInv
  <1>3. ASSUME NEW u \in Task, RunThread(u), ~ UNCHANGED vars PROVE WayInv(N, S)'
    <2>1. Run(u) /\ runner = "running" /\ runner' = runner /\ length' = length /\ aborted = FALSE
      BY <1>3, ThreadRuns, ThreadFacts DEF runnerVars, RunnerInv
    <2>2. OnWay(N, S)
      BY <2>1 DEF OnWay, FedCounted
    <2>3. ASSUME NEW q \in N
          PROVE  Numbered(S, q[1])' /\ Copying(q[1])' /\ Sends(q, q[1], Rounds(q[1]))'
      <3>1. PICK t \in Task : t = q[1]
        BY WayFacts
      <3>2. CASE u = t
        BY <1>1, <2>1, <2>2, <3>1, <3>2, OwnOnWay
      <3>3. CASE u # t
        BY <1>1, <2>1, <2>2, <3>1, <3>3, OthersOnWay
      <3> QED BY <3>1, <3>2, <3>3
    <2>4. Numbered(S, OutTask)'
      <3>1. CASE u = OutTask
        BY <1>3, <2>1, <2>2, <3>1, OutTaskNumbered
      <3>2. CASE u # OutTask
        <4>1. pc'[OutTask] = pc[OutTask] /\ KeepsCalls(OutTask)
          BY <1>1, <2>1, <3>2, OwnLocals, CountStays DEF KeepsCalls
        <4>2. failed \subseteq failed' /\ Numbered(S, OutTask)
          BY <2>1, <2>2, FailedGrows DEF OnWay, WayInv
        <4> QED BY <2>1, <4>1, <4>2, NumberedStays
      <3> QED BY <3>1, <3>2
    <2> QED BY <2>3, <2>4 DEF WayInv
  <1> QED BY <1>2, <1>3, OthersKeepOff

LEMMA DeliveredHolds ==
    ASSUME Earlier = FALSE, TypeInv, RunnerInv, HandInv,
           NEW S, runner # "broken" => Numbered(S, OutTask)
    PROVE  Delivered
  <1>1. /\ OutTask \in Task /\ OutTask \notin InTask /\ log[OutTask] \in Seq(Seq(Nat))
        /\ yielded \in Seq(Nat) /\ results \in Seq(Nat)
        /\ InTransit(Firsts(log[OutTask]), yielded, results \o Fresh)
        /\ main \in {"join", "end"} =>
              pc[OutTask] = "done" /\ results = <<>> /\ Copy \notin Range(ready)
    BY FeedFacts DEF HandInv, TypeInv, TypeOK, GhostsOK
  <1>2. PICK m \in Nat, n \in Nat, f \in Nat :
           m = Len(log[OutTask]) /\ n = Len(yielded) /\ f = Len(results \o Fresh)
    <2>1. results \o Fresh \in Seq(Nat)
      BY <1>1, FreshFacts, ConcatProperties
    <2> QED BY <1>1, <2>1, LenProperties
  <1>3. /\ m = n + f
        /\ \A k \in 1..n : log[OutTask][k][1] = yielded[k]
    <2>1. /\ Len(Firsts(log[OutTask])) = m
          /\ \A k \in 1..m : Firsts(log[OutTask])[k] = log[OutTask][k][1]
      BY <1>2 DEF Firsts
    <2>2. /\ Len(Firsts(log[OutTask])) = n + f
          /\ \A k \in 1..n : Firsts(log[OutTask])[k] = yielded[k]
      BY <1>1, <1>2 DEF InTransit
    <2>3. m = n + f
      BY <2>1, <2>2
    <2>4. \A k \in 1..n : k \in 1..m
      BY <2>3
    <2> QED BY <2>1, <2>2, <2>3, <2>4
  <1>4. \A k \in 1..n : yielded[k] = k
    <2>1. CASE runner = "broken"
      <3>1. yielded = <<>>
        BY <2>1 DEF RunnerInv, Before, NotRunning
      <3> QED BY <1>2, <3>1
    <2>2. CASE runner # "broken"
      <3>1. \A k \in 1..m : log[OutTask][k][1] = k
        BY <1>2, <2>2 DEF Numbered
      <3>2. \A k \in 1..n : k \in 1..m
        BY <1>3
      <3> QED BY <1>3, <3>1, <3>2
    <2> QED BY <2>1, <2>2
  <1>5. yielded = [k \in 1..Len(yielded) |-> k]
    <2>1. yielded = [k \in 1..n |-> yielded[k]]
      BY <1>1, <1>2, LenProperties
    <2> QED BY <1>2, <1>4, <2>1
  <1>6. ASSUME main = "end", failed = {} PROVE Len(yielded) = length
    <2>1. runner # "broken"
      BY <1>6 DEF RunnerInv
    <2>2. m = length
      BY <1>1, <1>2, <1>6, <2>1 DEF Numbered, Whole, Rounds
    <2>3. f = 0
      <3>1. Fresh = <<>> /\ results = <<>>
        BY <1>1, <1>6, FreshFacts
      <3>2. <<>> \o <<>> = <<>> /\ Len(<<>>) = 0
        OBVIOUS
      <3> QED BY <1>2, <3>1, <3>2
    <2> QED BY <1>2, <1>3, <2>2, <2>3
  <1> QED BY <1>5, <1>6 DEF Delivered

(* In the first run of an application, what main gets are the results of   *)
(* the arrays, each once and in their order, and when the iteration is     *)
(* over all of them, unless the run has failed: in every graph in which    *)
(* the way from the input tasks to the output task (connections N) is made *)
(* of processors that never stop, and a processor joins only inputs (in S) *)
(* that no error makes end early.                                          *)
THEOREM DeliveredCorrect ==
    ASSUME Earlier = FALSE,
           NEW N \in SUBSET Queue, NEW S \in SUBSET N, Delivering(N, S)
    PROVE  PySpec => []Delivered
  <1>1. PyInit => LInv
    BY AlignInit DEF PyInit
  <1>2. LInv /\ [PyNext]_pyVars => LInv'
    <2> SUFFICES ASSUME LInv, [PyNext]_pyVars PROVE LInv'
      OBVIOUS
    <2>1. [Next]_vars
      BY OthersKeepOff, ThreadRuns DEF Next
    <2> QED BY <2>1, AlignNext
  <1>3. PyInit => WayInv(N, S)
    BY WayInit
  <1>4. LInv /\ LInv' /\ RunnerInv /\ FedCounted /\ FedCounted' /\ WayInv(N, S) /\ [PyNext]_pyVars
           => WayInv(N, S)'
    BY WayNext
  <1>5. TypeInv /\ RunnerInv /\ HandInv /\ WayInv(N, S) => Delivered
    <2> SUFFICES ASSUME TypeInv, RunnerInv, HandInv, WayInv(N, S) PROVE Delivered
      OBVIOUS
    <2>1. runner # "broken" => Numbered(S, OutTask)
      BY DEF WayInv
    <2> QED BY <2>1, DeliveredHolds
  <1> QED BY <1>1, <1>2, <1>3, <1>4, <1>5, AlwaysFed, AlwaysHanded, FedCounts, PTL DEF PySpec

=============================================================================
