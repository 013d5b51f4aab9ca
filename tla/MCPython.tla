------------------------------ MODULE MCPython ------------------------------
(***************************************************************************)
(* subtract(first, second) with two iterables of up to two arrays:         *)
(*                                                                         *)
(*     in1 (input task) ---> subtract, input 1                             *)
(*     in2 (input task) ---> subtract, input 2 ---> output (output task)   *)
(*                                                                         *)
(* An input task has one buffer for its arrays and the output task one for *)
(* its results, so that the second item waits for the first on both sides. *)
(***************************************************************************)
EXTENDS PythonBinding, TLC

MCTask == {"in1", "in2", "subtract", "output"}

MCFeeds == <<"in1", "in2">>

MCTargets == "in1" :> <<"subtract">> @@ "in2" :> <<"subtract">>
          @@ "subtract" :> <<"output">> @@ "output" :> <<>>

MCInQueues == "in1" :> <<>> @@ "in2" :> <<>>
           @@ "subtract" :> << << <<"in1", 1>> >>, << <<"in2", 1>> >> >>
           @@ "output" :> << << <<"subtract", 1>> >> >>

MCQueue == {<<"in1", 1>>, <<"in2", 1>>, <<"subtract", 1>>}

MCMode == "in1" :> "generator" @@ "in2" :> "generator"
       @@ "subtract" :> "processor" @@ "output" :> "sink"

MCPattern == [t \in MCTask |-> "scatter"]
MCNumExpected == [q \in MCQueue |-> -1]
MCMinItems == [t \in MCTask |-> 0]
MCMaxItems == [t \in MCTask |-> IF t \in {"in1", "in2"} THEN MaxLength ELSE 0]

=============================================================================
