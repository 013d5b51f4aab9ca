------------------------------ MODULE Session ------------------------------
(***************************************************************************)
(* An application that uses the library from one thread: it builds a task  *)
(* graph by hand, from JSON or from the description ufo-launch takes, asks *)
(* resources for kernels, and runs the graph on schedulers, again and      *)
(* again (ufo_base_scheduler_run, ufo_scheduler_run; ufo-task-node.c).     *)
(* What the threads of a run do is in Scheduler; here a run is set up task *)
(* by task, wired, and cleaned up, or given up half way.                   *)
(*                                                                         *)
(* The group of task n in the i-th run is <<i, n>>; GPU node k of the      *)
(* resources r is <<r, k>>.                                                *)
(***************************************************************************)
EXTENDS Launch, Resources

CONSTANTS
    Sched,        (* the schedulers                                          *)
    ResourcesId,  (* names for resources objects                             *)
    KernelFile,   (* KernelFile[n]: the file a task named n wants a kernel of *)
    Platforms,    (* what OpenCL offers                                      *)
    Env           (* what UFO_DEVICES and UFO_DEVICE_TYPE say                *)

NoResources == "no resources"

VARIABLES
    graph,        (* the task graph                                          *)
    built,        (* the graph as it would be without any expansion          *)
    known,        (* json_nodes: the nodes the graph has read from JSON      *)
    json,         (* what was saved last                                     *)
    saved,        (* history: the graph it was saved from                    *)
    launched,     (* the description given to ufo-launch and its parser      *)
    kind,         (* kind[n]: "gpu", "input", "cpu" or "sink"                *)
    files,        (* files[<<d, f>>]: contents of file f of directory d      *)
    resources,    (* resources[r]: the object named r, of those that exist    *)
    refs,         (* refs[r]: references to it                               *)
    granted,      (* the last kernel asked for, until files or paths change  *)
    sched,        (* sched[s]: ran, expand, and the resources it holds       *)
    run,          (* the run that goes on                                    *)
    mapping,      (* mapping[n]: proc_node of task n                         *)
    inGroups      (* inGroups[<<n, i>>]: groups task n reads input i from    *)

buildVars == <<graph, built, known, json, saved, launched>>
resourceVars == <<files, resources, refs, granted>>
runVars == <<sched, run, mapping, inGroups>>
sessionVars == <<buildVars, kind, resourceVars, runVars>>

Kept(f, gone) == [x \in DOMAIN f \ gone |-> f[x]]

Idle == run.state = "none"
NoRun == [state |-> "none", outcome |-> "ok", number |-> 0]

OfKind(k) == {n \in ToSet(graph.nodes) : kind[n[1]] = k}
GpuTasks == OfKind("gpu")
Needing == OfKind("gpu") \cup OfKind("input")

InitSession ==
    /\ json = EmptyGraph
    /\ saved = EmptyGraph
    /\ known = {}
    /\ launched = <<>>
    /\ resources = <<>>
    /\ refs = [r \in ResourcesId |-> 0]
    /\ granted = <<>>
    /\ run = NoRun
    /\ mapping = <<>>
    /\ inGroups = <<>>

----------------------------------------------------------------------------
(* Building a graph *)

ConnectNodes(a, b, label) ==
    /\ Idle
    /\ graph' = Connect(graph, a, b, label)
    /\ built' = Connect(built, a, b, label)
    /\ UNCHANGED <<known, json, saved, launched, kind, resourceVars, runVars>>

DisconnectNodes(a, b) ==
    /\ Idle
    /\ IsConnected(graph, a, b)
    /\ graph' = RemoveEdge(graph, a, b)
    /\ built' = RemoveEdge(built, a, b)
    /\ UNCHANGED <<known, json, saved, launched, kind, resourceVars, runVars>>

SaveToJson ==
    /\ Idle
    /\ json' = Saved(graph)
    /\ saved' = graph
    /\ UNCHANGED <<graph, built, known, launched, kind, resourceVars, runVars>>

(* read_json on the graph, which is a new one if isNew; missing are the    *)
(* tasks whose plugin cannot be loaded.                                    *)
ReadJson(isNew, missing) ==
    LET before == IF isNew THEN EmptyGraph ELSE graph
        knownBefore == IF isNew THEN {} ELSE known
        after == IF IsReadable(json, knownBefore, missing) THEN WithEdges(before, json)
                 ELSE before
    IN  /\ Idle
        /\ graph' = after
        /\ built' = after
        /\ known' = knownBefore \cup NodesRead(json, knownBefore, missing)
        /\ mapping' = IF isNew THEN <<>> ELSE mapping
        /\ inGroups' = IF isNew THEN <<>> ELSE inGroups
        /\ UNCHANGED <<json, saved, launched, kind, resourceVars, sched, run>>

LaunchDescription(pipe, style) ==
    /\ Idle
    /\ launched' = <<pipe, Parsed(Description(pipe, style))>>
    /\ UNCHANGED <<graph, built, known, json, saved, kind, resourceVars, runVars>>

----------------------------------------------------------------------------
(* Resources and their kernels *)

Unused(r) == r \notin DOMAIN resources

CreateResources(r) ==
    /\ Idle
    /\ Unused(r)
    /\ Constructible(Platforms, Env)
    /\ resources' = (r :> NewResources(Platforms, Env)) @@ resources
    /\ refs' = [refs EXCEPT ![r] = 1]
    /\ UNCHANGED <<buildVars, kind, files, granted, runVars>>

AddPath(r, dir) ==
    /\ Idle
    /\ ~Unused(r)
    /\ resources' = [resources EXCEPT ![r] = AddedPath(@, dir)]
    /\ granted' = <<>>
    /\ UNCHANGED <<buildVars, kind, files, refs, runVars>>

(* Somebody writes or deletes a kernel file. *)
WriteFile(dir, file, content) ==
    /\ Idle
    /\ files' = [files EXCEPT ![<<dir, file>>] = content]
    /\ granted' = <<>>
    /\ UNCHANGED <<buildVars, kind, resources, refs, runVars>>

Granted(r, file, name, made, hit) ==
    /\ resources' = [resources EXCEPT ![r] = made.resources]
    /\ granted' = [from |-> r, file |-> file, name |-> name, kernel |-> made.kernel, hit |-> hit]
    /\ UNCHANGED <<buildVars, kind, files, refs, runVars>>

GetKernel(r, file, name, options) ==
    /\ Idle
    /\ ~Unused(r)
    /\ Granted(r, file, name, Kernel(resources[r], files, file, name, options), FALSE)

GetCachedKernel(r, file, name) ==
    /\ Idle
    /\ ~Unused(r)
    /\ Granted(r, file, name, CachedKernel(resources[r], files, file, name),
               IsCached(resources[r], file, name))

(* ufo_base_scheduler_set_resources: the scheduler takes a reference of    *)
(* its own; the object it held is gone if nobody else holds it.  The old   *)
(* one is given up first: to set the object that only the scheduler holds, *)
(* as get_resources returns it, would read freed memory and is left out.   *)
SetResources(s, r) ==
    LET old == sched[s].resources
        gone == old # NoResources /\ old # r /\ refs[old] = 1
    IN  /\ Idle
        /\ ~Unused(r)
        /\ old = r => refs[r] > 1
        /\ refs' = [i \in ResourcesId |->
                      refs[i] + (IF i = r THEN 1 ELSE 0) - (IF i = old THEN 1 ELSE 0)]
        /\ resources' = IF gone THEN Kept(resources, {old}) ELSE resources
        /\ sched' = [sched EXCEPT ![s].resources = r]
        /\ UNCHANGED <<buildVars, kind, files, granted, run, mapping, inGroups>>

----------------------------------------------------------------------------
(* A run *)

Sinks == OfKind("sink")

(* The graph is refused before anything is touched. *)
Refuse(s) ==
    /\ Idle
    /\ ~IsAlright(graph, Sinks)
    /\ run' = [run EXCEPT !.outcome = "refused"]
    /\ UNCHANGED <<buildVars, kind, resourceVars, sched, mapping, inGroups>>

ResourcesOf(s) ==
    IF sched[s].resources # NoResources THEN {sched[s].resources} ELSE {r \in ResourcesId : Unused(r)}

Expands(s) == sched[s].expand /\ ~sched[s].ran

(* ufo_scheduler_run up to the mapping.  report tells whether the caller   *)
(* passed a place for an error.                                            *)
Start(s, r, report) ==
    LET object == IF Unused(r) THEN NewResources(Platforms, Env) ELSE resources[r]
        gpus == GpuNodes(r, object)
    IN  /\ Idle
        /\ IsAlright(graph, Sinks)
        /\ r \in ResourcesOf(s)
        /\ Unused(r) => Constructible(Platforms, Env)
        /\ graph' \in IF Expands(s) THEN Expansions(graph, GpuTasks, Len(gpus)) ELSE {graph}
        /\ mapping' = Mapped(graph', gpus, {n \in ToSet(graph'.nodes) : kind[n[1]] \in {"gpu", "input"}}, mapping)
        /\ resources' = (r :> object) @@ resources
        /\ refs' = IF Unused(r) THEN [refs EXCEPT ![r] = 1] ELSE refs
        /\ sched' = [sched EXCEPT ![s].resources = r]
        /\ run' = [state |-> "setup", outcome |-> "ok", number |-> run.number + 1,
                   scheduler |-> s, report |-> report, next |-> 1, kernels |-> <<>>]
        /\ UNCHANGED <<built, known, json, saved, launched, kind, files, granted, inGroups>>

Held == sched[run.scheduler].resources
ThisTask == graph.nodes[run.next]
IsSetUp == run.next > Len(graph.nodes)

(* Setup of a task by its plugin: one that runs on a GPU asks for its      *)
(* kernel.                                                                 *)
Request == Kernel(resources[Held], files, KernelFile[ThisTask[1]], AnyName, NoOptions)

(* An error is noticed only if the caller wants to know of it. *)
GoesOnAlways == TRUE
GoesOn == Request.kernel # NoKernel \/ ~run.report

SetupTask ==
    /\ run.state = "setup"
    /\ ~IsSetUp
    /\ ThisTask \notin GpuTasks
    /\ run' = [run EXCEPT !.next = @ + 1]
    /\ UNCHANGED <<buildVars, kind, resourceVars, sched, mapping, inGroups>>

SetupGpuTask ==
    /\ run.state = "setup"
    /\ ~IsSetUp
    /\ ThisTask \in GpuTasks
    /\ GoesOn
    /\ resources' = [resources EXCEPT ![Held] = Request.resources]
    /\ run' = [run EXCEPT !.next = @ + 1,
                          !.kernels = (ThisTask :> <<Held, Request.kernel>>) @@ @]
    /\ UNCHANGED <<buildVars, kind, files, refs, granted, sched, mapping, inGroups>>

(* The run is given up as it is: nothing that was set up is reset. *)
FailSetup ==
    /\ run.state = "setup"
    /\ ~IsSetUp
    /\ ThisTask \in GpuTasks
    /\ ~GoesOn
    /\ resources' = [resources EXCEPT ![Held] = Request.resources]
    /\ run' = [NoRun EXCEPT !.outcome = "failed", !.number = run.number]
    /\ UNCHANGED <<buildVars, kind, files, refs, granted, sched, mapping, inGroups>>

(* A graph without nodes has no task data, and run returns. *)
NothingToRun ==
    /\ run.state = "setup"
    /\ graph.nodes = <<>>
    /\ run' = [NoRun EXCEPT !.number = run.number]
    /\ UNCHANGED <<buildVars, kind, resourceVars, sched, mapping, inGroups>>

ListOf(lists, key) == IF key \in DOMAIN lists THEN lists[key] ELSE <<>>

WithGroupAppended(lists, g, group, n) ==
    FoldLeft(LAMBDA acc, k :
                LET key == <<Successors(g, n)[k], EdgeLabel(g, n, Successors(g, n)[k])>>
                IN  (key :> Append(ListOf(acc, key), group)) @@ acc,
             lists, [k \in DOMAIN Successors(g, n) |-> k])

(* setup_groups for one node: its group is prepended to the lists of each  *)
(* of its successors.                                                      *)
WithGroupOf(lists, g, group, n) ==
    FoldLeft(LAMBDA acc, k :
                LET key == <<Successors(g, n)[k], EdgeLabel(g, n, Successors(g, n)[k])>>
                IN  (key :> (<<group>> \o ListOf(acc, key))) @@ acc,
             lists, [k \in DOMAIN Successors(g, n) |-> k])

(* Whatever produces items has somebody to send them to.  IsAlright wants  *)
(* every leaf to be a sink, so a run never ends here.                      *)
CorrectConnections == \A n \in ToSet(graph.nodes) \ Sinks : Successors(graph, n) # <<>>

SetupGroups ==
    /\ run.state = "setup"
    /\ CorrectConnections
    /\ IsSetUp
    /\ graph.nodes # <<>>
    /\ inGroups' = FoldLeft(LAMBDA acc, i : WithGroupOf(acc, graph, <<run.number, graph.nodes[i]>>,
                                                        graph.nodes[i]),
                            inGroups, [i \in DOMAIN graph.nodes |-> i])
    /\ run' = [run EXCEPT !.state = "running"]
    /\ UNCHANGED <<buildVars, kind, resourceVars, sched, mapping>>

(* ufo_task_node_reset, for every node of the graph. *)
ResetMappingKept == mapping
ResetMapping == Kept(mapping, ToSet(graph.nodes))
ResetInGroupsKept == inGroups
ResetInGroups == Kept(inGroups, {key \in DOMAIN inGroups : key[1] \in ToSet(graph.nodes)})

(* The threads have been joined. *)
Finish ==
    /\ run.state = "running"
    /\ mapping' = ResetMapping
    /\ inGroups' = ResetInGroups
    /\ sched' = [sched EXCEPT ![run.scheduler].ran = TRUE]
    /\ run' = [NoRun EXCEPT !.number = run.number]
    /\ UNCHANGED <<buildVars, kind, resourceVars>>

RunStep == SetupTask \/ SetupGpuTask \/ FailSetup \/ NothingToRun \/ SetupGroups \/ Finish

----------------------------------------------------------------------------
(* Properties of graphs *)

(* Nodes are part of a graph only if an edge has them as an end            *)
(* (ufo-graph.c, ufo_graph_get_num_nodes), also after edges were removed   *)
(* and after a graph was read from JSON.                                   *)
NodesOnEdges ==
    \A n \in ToSet(graph.nodes) :
        \E i \in DOMAIN graph.edges : n \in {graph.edges[i].source, graph.edges[i].target}

HasParallelEdges(g) ==
    \E i, j \in DOMAIN g.edges : /\ i # j
                                 /\ g.edges[i].source = g.edges[j].source
                                 /\ g.edges[i].target = g.edges[j].target

ListsEnds(g) ==
    \A i \in DOMAIN g.edges : {g.edges[i].source, g.edges[i].target} \subseteq ToSet(g.nodes)

SameGraph(g, h) == ToSet(g.nodes) = ToSet(h.nodes) /\ ToSet(g.edges) = ToSet(h.edges)

(* A graph that was saved and is read again has the nodes, the edges and   *)
(* the inputs it had (unless two edges join the same nodes, or an edge was *)
(* removed whose ends had others); a file that cannot be read completely   *)
(* leaves no edge of it in the graph.                                      *)
RoundTrip ==
    [][/\ ReadJson(TRUE, {}) /\ ~HasParallelEdges(saved) /\ ListsEnds(saved)
             => SameGraph(graph', saved)
       /\ \A n \in ToSet(json.nodes) : ReadJson(TRUE, {n}) => graph' = EmptyGraph]_sessionVars

TaskName(env, n) == Text(env, n[1])

EdgesBuilt(env) ==
    {[source |-> TaskName(env, e.source), target |-> TaskName(env, e.target), label |-> e.label] :
        e \in ToSet(env.graph.edges)}

PropertiesSet(env) == {<<TaskName(env, p[1]), p[2], p[3]>> : p \in env.set}

(* ufo-launch comes back with the graph its arguments describe: tasks are  *)
(* connected in a row, the parameters in brackets to the inputs of the     *)
(* task behind them, in order, and properties are set on their task.       *)
LaunchBuilds ==
    launched # <<>> =>
        /\ launched[2].outcome = "ok"
        /\ EdgesBuilt(launched[2]) = Edges(launched[1], <<>>)
        /\ PropertiesSet(launched[2]) = Properties(launched[1], <<>>)

----------------------------------------------------------------------------
(* Properties of runs: what is true while the threads run *)

Running == run.state = "running"

Projected(e) == [e EXCEPT !.source = <<@[1], 0>>, !.target = <<@[1], 0>>]

(* Expansion keeps every edge, adds only edges between tasks that were     *)
(* connected, with the same input, and no new root or leaf.                *)
ExpansionFits ==
    Running =>
        /\ ToSet(built.edges) \subseteq ToSet(graph.edges)
        /\ \A e \in ToSet(graph.edges) : Projected(e) \in ToSet(built.edges)
        /\ ToSet(Roots(graph)) = ToSet(Roots(built))
        /\ ToSet(Leaves(graph)) = ToSet(Leaves(built))

Copies(n) == {m \in ToSet(graph.nodes) : m[1] = n[1]}

GpusOfRun == GpuNodes(Held, resources[Held])

(* The end of the branch that starts with n. *)
RECURSIVE EndOfBranch(_)
EndOfBranch(n) ==
    LET next == Successors(graph, n)
    IN  IF Len(next) = 1 /\ Len(Predecessors(graph, next[1])) = 1
          THEN EndOfBranch(next[1]) ELSE n

(* The branches from h to its copies, in the order h serves them.          *)
Branches(h) ==
    SelectSeq(Successors(graph, h), LAMBDA n : Cardinality(Copies(n)) > 1)

(* The order in which a task that collects from copies reads them is the   *)
(* order in which the task in front of the copies serves them.             *)
TurnsMatch ==
    Running /\ ~HasParallelEdges(graph) => \A h \in ToSet(graph.nodes) :
        LET ends == [k \in DOMAIN Branches(h) |-> EndOfBranch(Branches(h)[k])]
            groups == [k \in DOMAIN ends |-> <<run.number, ends[k]>>]
        IN  \A key \in DOMAIN inGroups :
                ToSet(groups) \subseteq ToSet(inGroups[key])
                    => SelectSeq(inGroups[key], LAMBDA g : g \in ToSet(groups)) = groups

(* The GPUs are all used: where no task of the graph has several           *)
(* successors, the copies of a task run on different GPUs and the tasks of *)
(* one copy of the path on the same.                                       *)
SpreadOverGpus ==
    Running /\ (\A n \in ToSet(built.nodes) : Len(Successors(built, n)) <= 1) =>
        /\ \A n \in Needing : \A m \in Copies(n) \ {n} :
              Cardinality(Copies(n)) <= Len(GpusOfRun) => mapping[n] # mapping[m]
        /\ \A n \in Needing : \A m \in Needing \cap ToSet(Successors(graph, n)) :
              Len(Successors(graph, n)) = 1 /\ Len(Predecessors(graph, m)) = 1
                  => mapping[n] = mapping[m]

(* Every input is fed by the groups of this run and of the tasks connected *)
(* to it, each once; nothing is left of earlier runs.                      *)
GroupsOfThisRun ==
    Running =>
        \A key \in DOMAIN inGroups \cup {<<n, i>> : n \in ToSet(graph.nodes), i \in {0, 1}} :
            LET feeding == {n \in ToSet(graph.nodes) :
                                /\ IsConnected(graph, n, key[1])
                                /\ EdgeLabel(graph, n, key[1]) = key[2]}
            IN  ~HasParallelEdges(graph) =>
                    /\ ToSet(ListOf(inGroups, key)) = {<<run.number, n>> : n \in feeding}
                    /\ Len(ListOf(inGroups, key)) = Cardinality(feeding)

(* Tasks run on GPUs of the resources of this run, with kernels from them. *)
GpusOfThisRun ==
    Running => /\ ~Unused(Held)
               /\ \A n \in Needing : mapping[n] \in ToSet(GpusOfRun)
               /\ \A n \in DOMAIN run.kernels : run.kernels[n][1] = Held

(* If the caller wants to know of errors, threads only start when all      *)
(* tasks have what they need.                                              *)
RunsEquipped ==
    Running /\ run.report =>
        \A n \in GpuTasks : n \in DOMAIN run.kernels /\ run.kernels[n][2] # NoKernel

----------------------------------------------------------------------------
(* Properties of kernels *)

(* What a request must find: the file of the first directory that has it.  *)
FoundIn(R, file) ==
    {i \in DOMAIN Directories(R, file) :
        /\ files[<<Directories(R, file)[i], file>>] # NoFile
        /\ \A j \in 1..i - 1 : files[<<Directories(R, file)[j], file>>] = NoFile}

Offered(R, file) ==
    {files[<<Directories(R, file)[i], file>>] : i \in FoundIn(R, file)} \ {Unreadable}

Fits(kernel, R, file, name) ==
    /\ kernel.source \in Offered(R, file)
    /\ IF name = AnyName THEN kernel.name = KernelsIn[kernel.source][1] ELSE kernel.name = name

Available(R, file, name) ==
    \E s \in Offered(R, file) :
        /\ ToSet(R.devices) \subseteq CompilesOn[s]
        /\ IF name = AnyName THEN KernelsIn[s] # <<>> ELSE name \in ToSet(KernelsIn[s])

(* A request that the cache does not answer gets the kernel that the file  *)
(* found first has under this name now, and gets one whenever there is     *)
(* one, whatever was built, or failed to build, before.                    *)
KernelFits ==
    granted # <<>> /\ ~granted.hit =>
        LET R == resources[granted.from]
        IN  IF granted.kernel = NoKernel THEN ~Available(R, granted.file, granted.name)
            ELSE Fits(granted.kernel, R, granted.file, granted.name)

(* Every kernel can run on every GPU of its resources. *)
BuiltForAll ==
    \A r \in DOMAIN resources :
        \A k \in ToSet(resources[r].kernels) :
            ToSet(resources[r].devices) \subseteq CompilesOn[k.source]

=============================================================================
