----------------------------- MODULE MCSession ------------------------------
(***************************************************************************)
(* Small sessions.  A profile is how often an application does what, from  *)
(* which start; without a bound it would go on for ever.                   *)
(***************************************************************************)
EXTENDS Session

CONSTANTS Manager, Library, Exports, EnvPath, PluginDir, File

VARIABLES
    left,   (* left[op]: how often op may still be done, or a scheduler run *)
    installed, loaded, managers, asked, given, aborted

Plugins == INSTANCE PluginManager

pluginVars == <<installed, loaded, managers, asked, given, aborted>>

vars == <<sessionVars, pluginVars, left>>

----------------------------------------------------------------------------
(* The world: one platform with a CPU, one with three GPUs. *)

MCDevice == {"cpu0", "gpu0", "gpu1", "gpu2"}
MCTypeOf == [d \in MCDevice |-> IF d = "cpu0" THEN "cpu" ELSE "gpu"]
MCPlatforms == <<<<"cpu0">>, <<"gpu0", "gpu1", "gpu2">>>>
AllDevices == [devices |-> <<>>, types |-> {}]

(* Two sources that compile everywhere, one that fails on the second GPU.  *)
MCSource == {"s1", "s2", "bad"}
MCKernelsIn == [s \in MCSource |-> IF s = "s2" THEN <<"g", "f">> ELSE <<"f">>]
MCCompilesOn == [s \in MCSource |-> IF s = "bad" THEN MCDevice \ {"gpu1"} ELSE MCDevice]

Name4 == {"a", "b", "c", "d"}
MCKernelFile == [n \in Name4 |-> "file"]
MCSearchPaths == <<".", "kernels">>
Dirs == {".", "kernels", "added"}
Contents == MCSource \cup {NoFile, Unreadable}

FilesWith(d, content) ==
    [p \in Dirs \X {"file"} |-> IF p[1] = d THEN content ELSE NoFile]

----------------------------------------------------------------------------
(* Descriptions for ufo-launch *)

Key(k) == <<"key", k>>
MCArrayProperty == {Key("shape")}
MCPlugin == {Name(a) : a \in UNION {[1..n -> {-2, -1, 1, 2}] : n \in 0..3}}

(* Plugins: two whose names differ in the separator only, both with a      *)
(* function of the same name, a name without one, and a task of a package, *)
(* whose file has no separators; and a file with an absolute path.         *)
Hyphen == <<"a", "-", "b">>
Low == <<"a", "_", "b">>
Both == <<"a", "b">>
Ir == <<"i">>

AbsoluteFile == [package |-> <<"/">>, name |-> Hyphen]
MCFile ==
    {[package |-> <<>>, name |-> n] : n \in {Hyphen, Low, Both}}
        \cup {[package |-> Ir, name |-> Both], AbsoluteFile}

MCLibrary == {"filters", "both", "old"}
MCExports == [l \in MCLibrary |->
    CASE l = "filters" -> {Low}                       (* ufo_a_b_task_new    *)
      [] l = "both" -> {Low, <<"i", "_", "a", "_", "b">>}
      [] l = "old" -> {}]
MCEnvPath == <<"", "own">>

Updates == MCLibrary \cup {Plugins!NoFile, Plugins!Broken}

Places == ({"own", "lib"} \X (MCFile \ {AbsoluteFile})) \cup {<<Plugins!Root, AbsoluteFile>>}

Bare == [key |-> NoTask, values |-> <<>>]
Scalar == [key |-> Key("path"), values |-> <<<<"value", 1>>>>]
Array == [key |-> Key("shape"), values |-> <<<<"value", 1>>, <<"value", 2>>>>]

Rows == {[params |-> <<>>, tasks |-> t] :
            t \in {<<Bare>>, <<Scalar>>, <<Array>>, <<Array, Scalar>>, <<Bare, Bare>>}}
Brackets(P) == {[params |-> p, tasks |-> t] :
                   p \in {<<q>> : q \in P} \cup {<<q, r>> : q \in P, r \in Rows},
                   t \in {<<Bare>>, <<Scalar, Array>>}}
Pipes == Rows \cup Brackets(Rows) \cup Brackets({p \in Brackets(Rows) : Len(p.params) = 2})

Styles == [comma : BOOLEAN, exclamation : BOOLEAN, open : BOOLEAN, close : {TRUE}]

----------------------------------------------------------------------------
(* Profiles *)

Ops == {"connect", "remove", "save", "read", "launch", "create", "path", "write",
        "kernel", "set", "s1", "s2", "silent", "manager", "install", "ask"}

Budget(ops) == [op \in Ops |-> IF op \in DOMAIN ops THEN ops[op] ELSE 0]

Edge(a, b) == [source |-> <<a, 0>>, target |-> <<b, 0>>, label |-> 0]
Pipeline == [nodes |-> <<<<"a", 0>>, <<"b", 0>>, <<"d", 0>>>>, edges |-> <<Edge("a", "b"), Edge("b", "d")>>]

Kinds(k) == [n \in Name4 |-> IF n = "d" THEN "sink" ELSE IF n \in DOMAIN k THEN k[n] ELSE "cpu"]

SchedulerWith(expand) == [ran |-> FALSE, expand |-> expand, resources |-> NoResources]

Start0(g, k, f, s1, s2, ops) ==
    /\ graph = g
    /\ built = g
    /\ kind = Kinds(k)
    /\ files = f
    /\ sched = [s \in Sched |-> IF s = "s1" THEN SchedulerWith(s1) ELSE SchedulerWith(s2)]
    /\ left = Budget(ops)

Good == FilesWith("kernels", "s1")

(* Any graph of four tasks and up to four edges, run once. *)
Graphs ==
    \E k \in {[a |-> "gpu", b |-> "gpu", c |-> "gpu"], [a |-> "input", c |-> "gpu"]} :
        Start0(EmptyGraph, k, Good, TRUE, TRUE, [connect |-> 4, s1 |-> 1])

(* Graphs that are edited, saved, and then read. *)
Files ==
    Start0(EmptyGraph, [a |-> "cpu"], Good, TRUE, TRUE,
           [connect |-> 3, remove |-> 1, save |-> 1, read |-> 2])

Launches == Start0(EmptyGraph, [a |-> "cpu"], Good, TRUE, TRUE, [launch |-> 1])

(* A graph that is run three times, on a scheduler that expands it and one *)
(* that does not, with other resources in between and a task added.        *)
Reruns ==
    \E k \in {[b |-> "gpu"], [a |-> "input", b |-> "gpu"]} :
        Start0(Pipeline, k, Good, TRUE, FALSE, [connect |-> 1, create |-> 1, set |-> 2, s1 |-> 2, s2 |-> 1])

(* A graph that is run on one scheduler and then another, which expands it *)
(* once more.                                                              *)
Twice ==
    \E k \in {[b |-> "gpu"], [a |-> "input", b |-> "gpu"]} :
        Start0(Pipeline, k, Good, TRUE, TRUE, [s1 |-> 1, s2 |-> 1])

(* Kernels that are missing or broken when a run starts, whose caller may  *)
(* not want to know of errors.  A run that was given up has expanded the   *)
(* graph, and the next one does it again.                                  *)
Failures ==
    \E content \in Contents, expand \in BOOLEAN :
        Start0(Pipeline, [b |-> "gpu"], FilesWith("kernels", content), expand, FALSE,
               [write |-> 2, path |-> 1, s1 |-> 2, silent |-> 1])

Kernels ==
    Start0(EmptyGraph, [a |-> "cpu"], FilesWith("kernels", "s1"), TRUE, TRUE,
           [create |-> 1, write |-> 2, path |-> 1, kernel |-> 3])

(* Tasks asked for again and again while plugins are installed, replaced   *)
(* and deleted, by two managers of one program.                            *)
PluginUses ==
    Start0(EmptyGraph, [a |-> "cpu"], Good, TRUE, TRUE, [manager |-> 2, install |-> 2, ask |-> 3])

NothingInstalled == installed = [p \in Places |-> Plugins!NoFile]
SomeInstalled ==
    installed \in {[p \in Places |-> IF p[1] = "own" THEN c ELSE d] :
                        c \in {Plugins!NoFile, Plugins!Broken}, d \in {"both", "old"}}

MCInit ==
    /\ InitSession
    /\ Plugins!InitPlugins
    /\ \/ NothingInstalled /\ (Graphs \/ Files \/ Launches \/ Twice \/ Reruns \/ Failures \/ Kernels)
       \/ SomeInstalled /\ PluginUses

Take(op) == left[op] > 0 /\ left' = [left EXCEPT ![op] = @ - 1]

Edits ==
    \/ \E a, b \in Name4, label \in {0, 1} :
          /\ Take("connect")
          /\ left["read"] > 0 => left["save"] > 0
          /\ <<a, b>> \in {<<"a", "b">>, <<"a", "c">>, <<"a", "d">>, <<"b", "c">>, <<"b", "d">>, <<"c", "d">>}
          /\ label <= Len(Predecessors(built, <<b, 0>>))
          /\ IsConnected(graph, <<a, 0>>, <<b, 0>>) => left["read"] > 0
          /\ ConnectNodes(<<a, 0>>, <<b, 0>>, label)
    \/ \E a, b \in ToSet(graph.nodes) : Take("remove") /\ left["save"] > 0 /\ DisconnectNodes(a, b)
    \/ Take("save") /\ graph # EmptyGraph /\ SaveToJson
    \/ \E isNew \in BOOLEAN, missing \in {{}} \cup {{n} : n \in ToSet(json.nodes)} :
          Take("read") /\ json # EmptyGraph /\ ReadJson(isNew, missing)

Launchings ==
    /\ Take("launch")
    /\ \E pipe \in Pipes, style \in Styles : LaunchDescription(pipe, style)

Uses ==
    \/ \E r \in ResourcesId : Take("create") /\ CreateResources(r)
    \/ \E r \in ResourcesId : Take("path") /\ AddPath(r, "added")
    \/ \E d \in {".", "added"}, content \in Contents : Take("write") /\ WriteFile(d, "file", content)
    \/ \E r \in ResourcesId, name \in {"f", "g", AnyName} :
          \/ Take("kernel") /\ GetKernel(r, "file", name, NoOptions)
          \/ Take("kernel") /\ GetCachedKernel(r, "file", name)
    \/ \E s \in Sched, r \in ResourcesId : Take("set") /\ SetResources(s, r)

Runs ==
    \/ \E s \in Sched : Take(s) /\ Refuse(s)
    \/ \E s \in Sched, r \in ResourcesId, report \in {TRUE, left["silent"] = 0} :
          Take(s) /\ Start(s, r, report)
    \/ RunStep /\ UNCHANGED left

PluginSteps ==
    /\ UNCHANGED sessionVars
    /\ \/ \E m \in Manager :
             /\ Take("manager")
             /\ \/ (managers = <<>> => m = "m1") /\ Plugins!NewManager(m)
                \/ Plugins!ReleaseManager(m)
       \/ \E d \in {"own", "lib"}, content \in Updates :
             Take("install") /\ left["ask"] < 3 /\ Plugins!Install(d, Plugins!FilterFile(Hyphen), content)
       \/ \E m \in Manager :
             \/ \E name \in {Hyphen, Low, Plugins!Dummy} :
                  /\ Take("ask")
                  /\ name = Plugins!Dummy => left["ask"] = 3
                  /\ Plugins!GetTask(m, name)
             \/ \E name \in {Hyphen, Both} : Take("ask") /\ Plugins!GetTaskFromPackage(m, Ir, name)
             \/ Take("ask") /\ Plugins!GetPlugin(m, Plugins!FilterFunction(Hyphen), AbsoluteFile)

SessionSteps == Edits \/ Launchings \/ Uses \/ Runs

MCNext == PluginSteps \/ (SessionSteps /\ UNCHANGED pluginVars)

MCSpec == MCInit /\ [][MCNext]_vars

PluginFits == Plugins!PluginFits

=============================================================================
