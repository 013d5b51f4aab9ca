----------------------------- MODULE MCPipeline -----------------------------
(***************************************************************************)
(* A linear graph with one task of every mode, for TLC:                    *)
(*                                                                         *)
(*     read (generator) -> filter (processor) -> average (reductor)        *)
(*                                            -> write (sink)              *)
(*                                                                         *)
(* read delivers 0 to 3 items, more than the two buffers of an edge, so    *)
(* that every thread can block on either side of its queues.  filter and   *)
(* average may fail, and the run may be aborted.                           *)
(***************************************************************************)
EXTENDS Scheduler, TLC

MCTask == {"read", "filter", "average", "write"}

MCTargets == "read" :> <<"filter">> @@ "filter" :> <<"average">>
                 @@ "average" :> <<"write">> @@ "write" :> <<>>

MCInQueues == "read" :> <<>>
          @@ "filter" :> << << <<"read", 1>> >> >>
          @@ "average" :> << << <<"filter", 1>> >> >>
          @@ "write" :> << << <<"average", 1>> >> >>

MCQueue == {<<"read", 1>>, <<"filter", 1>>, <<"average", 1>>}

MCMode == "read" :> "generator" @@ "filter" :> "processor"
              @@ "average" :> "reductor" @@ "write" :> "sink"

MCPattern == [t \in MCTask |-> "scatter"]
MCNumExpected == [q \in MCQueue |-> -1]
MCMinItems == [t \in MCTask |-> 0]
MCMaxItems == [t \in MCTask |-> IF t = "read" THEN 3 ELSE 1]
MCMayFail == {"read", "filter", "average"}
MCMayStop == {"filter", "write"}

=============================================================================
