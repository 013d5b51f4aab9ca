------------------------------ MODULE MCGraphs ------------------------------
(***************************************************************************)
(* Four small graphs for TLC; a behaviour runs one of them.                *)
(*                                                                         *)
(* 1. A task that was duplicated for two GPUs: read scatters its items     *)
(*    over the copies of filter, write reads its one input from the copies *)
(*    in turn.                                                             *)
(*                                                                         *)
(*     read (generator) ---> filter, copy (processors) ---> write (sink)   *)
(*                                                                         *)
(* 2. A broadcast whose branches meet again.  camera sends more items than *)
(*    its queues have buffers, so that it blocks with an item in its hands *)
(*    when one branch falls behind.  correct may fail.                     *)
(*                                                                         *)
(*     camera (generator) -------------------> correct (sink), input 1     *)
(*           \-------> blur (processor) -----> correct, input 2            *)
(*                                                                         *)
(* 3. A stream broken up for two targets, and inputs of different length.  *)
(*    scan sends its first two items, the flat fields, to average and all  *)
(*    others to divide.  average generates one or two means when it has    *)
(*    read them, and divide goes on with the last one.                     *)
(*                                                                         *)
(*     scan (generator) ---> average (reductor) ---> divide, input 2       *)
(*          \--------------------------------------> divide (sink), input 1 *)
(*                                                                         *)
(* 4. A reductor that may generate before it has read all of its input,    *)
(*    and reads on then.                                                   *)
(*                                                                         *)
(*     feed (generator) ---> stack (reductor) ---> store (sink)            *)
(***************************************************************************)
EXTENDS Scheduler, TLC

TG == INSTANCE TaskGraph

read == <<"read", 0>>
filter == <<"filter", 0>>
copy == <<"filter", 1>>
write == <<"write", 0>>
camera == <<"camera", 0>>
blur == <<"blur", 0>>
correct == <<"correct", 0>>
scan == <<"scan", 0>>
average == <<"average", 0>>
divide == <<"divide", 0>>
feed == <<"feed", 0>>
stack == <<"stack", 0>>
store == <<"store", 0>>

Duplicated == {read, filter, copy, write}
Join == {camera, blur, correct}
FlatField == {scan, average, divide}
Stacking == {feed, stack, store}

MCTask == Duplicated \cup Join \cup FlatField \cup Stacking

MCTargets == read :> <<copy, filter>> @@ filter :> <<write>> @@ copy :> <<write>>
          @@ camera :> <<blur, correct>> @@ blur :> <<correct>>
          @@ scan :> <<average, divide>> @@ average :> <<divide>>
          @@ feed :> <<stack>> @@ stack :> <<store>>
          @@ [t \in MCTask |-> <<>>]

MCQueue == UNION {{<<t, i>> : i \in DOMAIN MCTargets[t]} : t \in MCTask}

MCInQueues == filter :> << << <<read, 2>> >> >>
           @@ copy :> << << <<read, 1>> >> >>
           @@ write :> << << <<copy, 1>>, <<filter, 1>> >> >>
           @@ blur :> << << <<camera, 1>> >> >>
           @@ correct :> << << <<camera, 2>> >>, << <<blur, 1>> >> >>
           @@ average :> << << <<scan, 1>> >> >>
           @@ divide :> << << <<scan, 2>> >>, << <<average, 1>> >> >>
           @@ stack :> << << <<feed, 1>> >> >>
           @@ store :> << << <<stack, 1>> >> >>
           @@ [t \in MCTask |-> <<>>]

(* The wiring of the first graph is what ufo_task_graph_expand and         *)
(* setup_groups (module TaskGraph) make of the user's graph.               *)
UserGraph == TG!Connect(TG!Connect(TG!EmptyGraph, read, filter, 0), filter, write, 0)

ASSUME Wiring ==
    \A g \in TG!Expansions(UserGraph, {filter}, 2) :
        /\ Range(g.nodes) = Duplicated
        /\ \A t \in Duplicated : TG!Successors(g, t) = MCTargets[t]
        /\ \A t \in Duplicated \ {read} : <<TG!InGroups(g, t, 1)>> = MCInQueues[t]

MCMode == [t \in MCTask |->
    CASE t \in {read, camera, scan, feed}       -> "generator"
      [] t \in {write, correct, divide, store}  -> "sink"
      [] t \in {average, stack}                 -> "reductor"
      [] OTHER                                  -> "processor"]

MCPattern == camera :> "broadcast" @@ scan :> "sequential" @@ [t \in MCTask |-> "scatter"]
MCNumExpected == <<scan, 1>> :> 2 @@ [q \in MCQueue |-> -1]
MCMinItems == scan :> 3 @@ average :> 1 @@ [t \in MCTask |-> 0]
MCMaxItems == read :> 4 @@ camera :> 4 @@ scan :> 6 @@ average :> 2 @@ feed :> 3
              @@ stack :> 2 @@ [t \in MCTask |-> 0]
MCMayFail == {correct}
MCMayStop == {stack}

MCInit == \E graph \in {Duplicated, Join, FlatField, Stacking} : InitOf(graph)

MCSpec == MCInit /\ [][Next]_vars

----------------------------------------------------------------------------
(* The point of expanding only linear paths and of reading the in-groups   *)
(* in turn: although the copies of filter run at their own pace, write     *)
(* sees the items in the order in which read produced them.                *)
InOrder == \A i \in DOMAIN log[write] : log[write][i] = <<i>>

(* A sub-stream has the length its target expects, and what comes later    *)
(* goes to the next target: average gets the first two items, divide all   *)
(* the others, in the order in which scan produced them.                   *)
BrokenUp ==
    LET flats == Items(got[<<scan, 1>>])
        rest == Items(got[<<scan, 2>>])
    IN  /\ Len(flats) <= 2 /\ \A k \in DOMAIN flats : flats[k] = k
        /\ \A k \in DOMAIN rest : rest[k] = k + 2
        /\ pc[divide] = "done" => Len(flats) + Len(rest) = count[scan]

=============================================================================
