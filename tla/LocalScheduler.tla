--------------------------- MODULE LocalScheduler ---------------------------
(***************************************************************************)
(* The local scheduler (ufo/ufo-local-scheduler.c): a thread per task, and *)
(* a queue per edge that is made while the tasks are set up, in whatever   *)
(* order the graph lists them.  A thread does what one of GroupScheduler   *)
(* does, for the one task it has.                                          *)
(***************************************************************************)
EXTENDS GroupScheduler, TLC, SequencesExt

(* run_local.  It calls generate for a sink, which sinks do not have: the  *)
(* call returns FALSE, as if run_group had called nothing.                 *)
LocalRun(t) == GroupRun(t)

LocalNext == \E t \in Task : LocalRun(t)

----------------------------------------------------------------------------
(* setup_tasks: what the task data of the nodes in `done' tell, as a       *)
(* function from nodes to [in, out].  A task uses the queue of a neighbour *)
(* that was set up before and makes one for a neighbour that was not.      *)

NoQueue == <<>>

InOf(done, t, port) ==
    IF t \in DOMAIN done /\ port \in DOMAIN done[t].in THEN done[t].in[port] ELSE NoQueue

OutNew(g, done, t) == IF TG!Successors(g, t) = <<>> THEN NoQueue ELSE <<t, "out", 0>>

OutOf(g, done, t) ==
    LET next == TG!Successors(g, t)
    IN  IF next = <<>> THEN NoQueue
        ELSE IF next[1] \in DOMAIN done THEN InOf(done, next[1], TG!EdgeLabel(g, t, next[1]))
        ELSE <<t, "out", 0>>

InsOf(g, done, t) ==
    LET before == ToSet(TG!Predecessors(g, t))
    IN  [port \in {TG!EdgeLabel(g, p, t) : p \in before} |->
            LET p == CHOOSE p \in before : TG!EdgeLabel(g, p, t) = port
            IN  IF p \in DOMAIN done THEN done[p].out ELSE <<t, "in", port>>]

(* The task data when all nodes have been set up. *)
LocalQueues(g, order) ==
    FoldLeft(LAMBDA done, t : (t :> [out |-> OutOf(g, done, t), in |-> InsOf(g, done, t)]) @@ done,
             <<>>, order)

(* Whatever the order of the nodes, the two ends of an edge get the same   *)
(* queue, and different edges different ones, if no task has several       *)
(* successors.                                                             *)
EndsMeet(g, order) ==
    LET locals == LocalQueues(g, order)
        QueueOf(e) == locals[e.source].out
    IN  /\ \A e \in ToSet(g.edges) : QueueOf(e) = InOf(locals, e.target, e.label)
        /\ \A e, f \in ToSet(g.edges) : QueueOf(e) = QueueOf(f) => e = f

=============================================================================
