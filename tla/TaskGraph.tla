----------------------------- MODULE TaskGraph ------------------------------
(***************************************************************************)
(* The task graph as data (ufo/ufo-graph.c, ufo/ufo-task-graph.c) and how  *)
(* the default scheduler wires groups from it (setup_groups).              *)
(*                                                                         *)
(* A graph is a record of two lists in insertion order, its nodes and its  *)
(* labelled edges.  The order matters: it decides in which order a group   *)
(* serves its targets and a task reads its in-groups.  A node is a pair    *)
(* <<name, index>>; copies of <<name, 0>> get the indices 1, 2, ...        *)
(***************************************************************************)
EXTENDS Naturals, FiniteSets, SequencesExt

EmptyGraph == [nodes |-> <<>>, edges |-> <<>>]

EdgesBetween(g, a, b) == SelectSeq(g.edges, LAMBDA e : e.source = a /\ e.target = b)

IsConnected(g, a, b) == EdgesBetween(g, a, b) # <<>>

(* find_edge returns the first edge: of two edges that join the same nodes *)
(* only the label of the older one is ever seen.                           *)
EdgeLabel(g, a, b) == EdgesBetween(g, a, b)[1].label

AddNode(nodes, n) == IF n \in ToSet(nodes) THEN nodes ELSE Append(nodes, n)

Connect(g, a, b, label) ==
    IF IsConnected(g, a, b) /\ EdgeLabel(g, a, b) = label
      THEN g
      ELSE [nodes |-> AddNode(AddNode(g.nodes, a), b),
            edges |-> Append(g.edges, [source |-> a, target |-> b, label |-> label])]

(* ufo_graph_remove_edge takes both ends off the list of nodes, whatever   *)
(* other edges they have.                                                  *)
RemoveEdgeOnly(g, a, b) ==
    [g EXCEPT !.edges = RemoveFirst(@, EdgesBetween(g, a, b)[1])]

RemoveEdge(g, a, b) ==
    [nodes |-> RemoveFirst(RemoveFirst(g.nodes, a), b),
     edges |-> RemoveFirst(g.edges, EdgesBetween(g, a, b)[1])]

(* g_list_find_all_data prepends what it finds, ufo_graph_get_successors   *)
(* appends and ufo_graph_get_predecessors prepends: the youngest successor *)
(* comes first and the oldest predecessor does.                            *)
Successors(g, n) ==
    LET out == SelectSeq(g.edges, LAMBDA e : e.source = n)
    IN  Reverse([i \in DOMAIN out |-> out[i].target])

Predecessors(g, n) ==
    LET in == SelectSeq(g.edges, LAMBDA e : e.target = n)
    IN  [i \in DOMAIN in |-> in[i].source]

Roots(g) == SelectSeq(g.nodes, LAMBDA n : Predecessors(g, n) = <<>>)

Leaves(g) == SelectSeq(g.nodes, LAMBDA n : Successors(g, n) = <<>>)

(* ufo_task_graph_is_alright: only what it returns, not what it logs. *)
IsAlright(g, sinks) == ToSet(Leaves(g)) \subseteq sinks

----------------------------------------------------------------------------
(* Graphs as JSON *)

(* get_json_representation: the edges node by node, each with the label    *)
(* that is found for its ends.                                             *)
EdgesOut(g, n) ==
    LET to == Successors(g, n)
    IN  [i \in DOMAIN to |-> [source |-> n, target |-> to[i], label |-> EdgeLabel(g, n, to[i])]]

Saved(g) ==
    [nodes |-> g.nodes,
     edges |-> FlattenSeq([i \in DOMAIN g.nodes |-> EdgesOut(g, g.nodes[i])])]

(* add_nodes_from_json stops at the first node that has no plugin or has   *)
(* the name of a node read earlier.                                        *)
IsUnreadable(json, known, i, missing) ==
    json.nodes[i] \in missing \cup known

NodesRead(json, known, missing) ==
    {json.nodes[i] : i \in {j \in DOMAIN json.nodes :
        \A k \in 1..j : ~IsUnreadable(json, known, k, missing)}}

IsReadable(json, known, missing) == ToSet(json.nodes) \cap (missing \cup known) = {}

WithEdgesUnlabelled(g, json) ==
    FoldLeft(LAMBDA h, i : Connect(h, json.edges[i].source, json.edges[i].target, 0),
             g, [i \in DOMAIN json.edges |-> i])

(* handle_json_task_edge, for each edge: only when all nodes were read. *)
WithEdges(g, json) ==
    FoldLeft(LAMBDA h, i : Connect(h, json.edges[i].source, json.edges[i].target,
                                   json.edges[i].label),
             g, [i \in DOMAIN json.edges |-> i])

----------------------------------------------------------------------------
(* Paths of tasks that run on a GPU *)

NoNode == <<>>

(* find_first_match: depth first, the start included. *)
RECURSIVE FirstMatch(_, _, _)
FirstMatch(g, n, S) ==
    IF n \in S THEN n
    ELSE LET below == [i \in DOMAIN Successors(g, n) |-> FirstMatch(g, Successors(g, n)[i], S)]
             found == SelectSeq(below, LAMBDA m : m # NoNode)
         IN  IF found = <<>> THEN NoNode ELSE found[1]

(* follow_path: to the first successor in S, as long as there is one. *)
RECURSIVE FollowPath(_, _, _)
FollowPath(g, path, S) ==
    LET next == SelectSeq(Successors(g, path[Len(path)]), LAMBDA m : m \in S)
    IN  IF next = <<>> THEN path ELSE FollowPath(g, Append(path, next[1]), S)

(* ufo_graph_find_longest_path.  The starting points are the keys of a     *)
(* hash table of pointers, so which of several longest paths is returned   *)
(* depends on addresses: the result is one of this set.                    *)
LongestPaths(g, S) ==
    LET starts == {FirstMatch(g, r, S) : r \in ToSet(Roots(g))} \ {NoNode}
        paths == {FollowPath(g, <<s>>, S) : s \in starts}
    IN  {p \in paths : \A o \in paths : Len(o) <= Len(p)}

----------------------------------------------------------------------------
(* Expansion for several GPUs *)

CopyOf(g, n) == <<n[1], Cardinality({m \in ToSet(g.nodes) : m[1] = n[1]})>>

DuplicateUnlabelled(g, path) ==
    LET step(acc, i) ==
            LET node == IF Len(Predecessors(acc.graph, path[i])) <= 1
                          THEN CopyOf(acc.graph, path[i]) ELSE path[i]
            IN  [graph |-> Connect(acc.graph, acc.node, node, 0), node |-> node]
        inner == FoldLeft(step, [graph |-> g, node |-> path[1]],
                          [i \in 1..Len(path) - 2 |-> i + 1])
    IN  IF Len(path) <= 1 THEN g ELSE Connect(inner.graph, inner.node, path[Len(path)], 0)

(* ufo_graph_expand: a second path from the head to the tail of path, over *)
(* copies of the nodes in between.                                         *)
Duplicate(g, path) ==
    LET step(acc, i) ==
            LET next == path[i]
                node == IF Len(Predecessors(acc.graph, next)) <= 1
                          THEN CopyOf(acc.graph, next) ELSE next
                label == EdgeLabel(acc.graph, path[i - 1], next)
            IN  [graph |-> Connect(acc.graph, acc.node, node, label), node |-> node]
        inner == FoldLeft(step, [graph |-> g, node |-> path[1]],
                          [i \in 1..Len(path) - 2 |-> i + 1])
        tail == path[Len(path)]
    IN  IF Len(path) <= 1 THEN g
        ELSE Connect(inner.graph, inner.node, tail, EdgeLabel(g, path[Len(path) - 1], tail))

Joins(g, path) == SelectSeq(path, LAMBDA n : Len(Predecessors(g, n)) > 1)

(* What is left of a path behind the node n. *)
Behind(path, n) ==
    LET i == CHOOSE j \in DOMAIN path : path[j] = n
    IN  SubSeq(path, i + 1, Len(path))

WithEnds(g, path) ==
    LET before == Predecessors(g, path[1])
        after == Successors(g, path[Len(path)])
    IN  (IF before = <<>> THEN <<>> ELSE <<before[1]>>)
        \o path
        \o (IF after = <<>> THEN <<>> ELSE <<after[1]>>)

(* ufo_task_graph_expand, for one of the longest GPU paths. *)
ExpandAlong(g, longest, nGpus) ==
    LET joins == Joins(g, longest)
        path == IF joins = <<>> THEN longest ELSE Behind(longest, joins[1])
    IN  IF Len(joins) > 1 \/ path = <<>> THEN g
        ELSE FoldLeft(LAMBDA h, i : Duplicate(h, WithEnds(g, path)), g,
                      [i \in 1..nGpus - 1 |-> i])

Expansions(g, gpuTasks, nGpus) ==
    IF LongestPaths(g, gpuTasks) = {} THEN {g}
    ELSE {ExpandAlong(g, p, nGpus) : p \in LongestPaths(g, gpuTasks)}

----------------------------------------------------------------------------
(* Mapping to GPUs *)

(* map_proc_node: a task that needs a GPU and has none gets the one at     *)
(* index; the successors of any task take turns from there.                *)
RECURSIVE MapProcNode(_, _, _, _, _, _)
MapProcNode(g, n, index, gpus, needing, mapping) ==
    LET own == IF n \in needing \ DOMAIN mapping /\ gpus # <<>>
                 THEN (n :> gpus[index + 1]) @@ mapping ELSE mapping
        next == Successors(g, n)
        turn(k) == IF gpus = <<>> THEN 0 ELSE (index + k - 1) % Len(gpus)
    IN  FoldLeft(LAMBDA m, k : MapProcNode(g, next[k], turn(k), gpus, needing, m),
                 own, [k \in DOMAIN next |-> k])

MappedToFirst(g, gpus, needing, mapping) ==
    FoldLeft(LAMBDA m, k : MapProcNode(g, Roots(g)[k], 0, SubSeq(gpus, 1, 1), needing, m),
             mapping, [k \in DOMAIN Roots(g) |-> k])

(* ufo_task_graph_map: every root starts with the first GPU. *)
Mapped(g, gpus, needing, mapping) ==
    FoldLeft(LAMBDA m, k : MapProcNode(g, Roots(g)[k], 0, gpus, needing, m),
             mapping, [k \in DOMAIN Roots(g) |-> k])

----------------------------------------------------------------------------
(* setup_groups: every node gets a group whose targets are its successors; *)
(* nodes are visited in list order and each prepends its group to the      *)
(* in-groups of its targets.  Labels count inputs from 0, this from 1.     *)

GroupQueues(g) ==
    {<<n, k>> : n \in ToSet(g.nodes), k \in 1..Len(g.edges)}

QueuesOf(g) == {q \in GroupQueues(g) : q[2] <= Len(Successors(g, q[1]))}

(* g_list_index: the first position of a target in the group. *)
QueueTo(g, n, target) ==
    <<n, CHOOSE k \in DOMAIN Successors(g, n) :
            /\ Successors(g, n)[k] = target
            /\ \A j \in 1..k - 1 : Successors(g, n)[j] # target>>

(* in_groups of the given input, as the queues a pop from them goes to. *)
InGroups(g, target, input) ==
    LET feeding == SelectSeq(g.nodes, LAMBDA n : /\ IsConnected(g, n, target)
                                                 /\ EdgeLabel(g, n, target) = input - 1)
    IN  Reverse([i \in DOMAIN feeding |-> QueueTo(g, feeding[i], target)])

=============================================================================
