------------------------------ MODULE MCFixed -------------------------------
(***************************************************************************)
(* The schedulers that connect tasks with two-way queues, for TLC.         *)
(*                                                                         *)
(* The fixed scheduler runs the copy task in front of two branches, one    *)
(* with a reductor and one with a task of two inputs:                      *)
(*                                                                         *)
(*     read (generator) --> copy (processor) --> correct, port 1           *)
(*                               \---> average (reductor) --> write        *)
(*     dark (generator) -----------------------> correct, port 2           *)
(*                                                                         *)
(* read delivers at most as many items as an edge has buffers, dark, a     *)
(* short stream, one item.  The group and the local scheduler run          *)
(*                                                                         *)
(*     left (generator) --> sum (reductor) --> mix (processor) --> view    *)
(*     right (generator) --------------------> mix, input 2                *)
(*                                                                         *)
(* where the generators have one item more than an edge has buffers.       *)
(***************************************************************************)
EXTENDS LocalScheduler

CONSTANTS Shortest, Longest    (* bounds for the number of items of read *)

VARIABLES
    scheduler,   (* which scheduler runs                                     *)
    order        (* the order in which the graph lists its nodes             *)

MCFixedTask == {"read", "dark", "copy", "average", "correct", "write"}
MCGroupTask == {"left", "right", "sum", "mix", "view"}
MCTask == MCFixedTask \cup MCGroupTask

(* The graph of the group and the local scheduler. *)
MCGraph == TG!Connect(TG!Connect(TG!Connect(TG!Connect(TG!EmptyGraph,
              "left", "sum", 0), "sum", "mix", 0), "right", "mix", 1), "mix", "view", 0)

MCIn == "read" :> <<>> @@ "dark" :> <<>> @@ "copy" :> << <<"read", 1>> >>
     @@ "average" :> << <<"copy", 2>> >>
     @@ "correct" :> << <<"copy", 1>>, <<"dark", 1>> >>
     @@ "write" :> << <<"average", 1>> >>
     @@ "left" :> <<>> @@ "right" :> <<>> @@ "sum" :> << <<"left", 1>> >>
     @@ "mix" :> << <<"sum", 1>>, <<"right", 1>> >>
     @@ "view" :> << <<"mix", 1>> >>

MCOut == "read" :> << <<"read", 1>> >> @@ "dark" :> << <<"dark", 1>> >>
      @@ "copy" :> << <<"copy", 1>>, <<"copy", 2>> >>
      @@ "average" :> << <<"average", 1>> >>
      @@ "correct" :> <<>> @@ "write" :> <<>>
      @@ "left" :> << <<"left", 1>> >> @@ "right" :> << <<"right", 1>> >>
      @@ "sum" :> << <<"sum", 1>> >> @@ "mix" :> << <<"mix", 1>> >> @@ "view" :> <<>>

MCQueue == {<<"read", 1>>, <<"dark", 1>>, <<"copy", 1>>, <<"copy", 2>>, <<"average", 1>>,
            <<"left", 1>>, <<"right", 1>>, <<"sum", 1>>, <<"mix", 1>>}

(* These are the queues that the group scheduler makes for its graph. *)
ASSUME GroupWiring ==
    \A t \in MCGroupTask : MCIn[t] = GroupIn(MCGraph, t) /\ MCOut[t] = GroupOut(MCGraph, t)

MCMode == "read" :> "generator" @@ "dark" :> "generator" @@ "copy" :> "processor"
       @@ "average" :> "reductor" @@ "correct" :> "sink" @@ "write" :> "sink"
       @@ "left" :> "generator" @@ "right" :> "generator" @@ "sum" :> "reductor"
       @@ "mix" :> "processor" @@ "view" :> "sink"

MCMinItems == "read" :> Shortest @@ "dark" :> 1 @@ [t \in MCTask |-> 0]
MCMaxItems == "read" :> Longest @@ "left" :> 3 @@ "sum" :> 3 @@ "right" :> 3
           @@ [t \in MCTask |-> 1]

InitFixed ==
    /\ scheduler = "fixed"
    /\ order = MCGraph.nodes
    /\ InitOf(MCFixedTask, [t \in Task |-> Entry(t)])

(* The edges that setup_tasks of the local scheduler makes are examined    *)
(* for every order of the nodes; they are those of the group scheduler.    *)
InitGroup ==
    /\ scheduler \in {"group", "local"}
    /\ order \in IF scheduler = "local" THEN {p \in [1..5 -> MCGroupTask] : IsInjective(p)} ELSE {MCGraph.nodes}
    /\ InitOf(IF order = MCGraph.nodes THEN MCGroupTask ELSE {}, [t \in Task |-> GroupEntry(t)])

MCNext ==
    /\ CASE scheduler = "fixed" -> Next
         [] scheduler = "group" -> GroupNext \/ Joined
         [] scheduler = "local" -> LocalNext \/ Joined
    /\ UNCHANGED <<scheduler, order>>

MCSpec == (InitFixed \/ InitGroup) /\ [][MCNext]_<<vars, scheduler, order>>

FixedSpec == InitFixed /\ [][MCNext]_<<vars, scheduler, order>>

LocalEndsMeet == scheduler = "local" => EndsMeet(MCGraph, order)

=============================================================================
