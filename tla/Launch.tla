------------------------------- MODULE Launch -------------------------------
(***************************************************************************)
(* How ufo-launch (bin/ufo-launch.c) turns its arguments into a task       *)
(* graph: the recursive descent over the tokens of descriptions such as    *)
(*                                                                         *)
(*     [read path=a, read path=b ! blur] ! subtract ! write                *)
(*                                                                         *)
(* A token is a record with a type and, for strings, a text.  The state of *)
(* the parser (struct Environment) is a record: the tokens, the position   *)
(* of the current one, the graph, the properties that were set, and how    *)
(* it went ("ok", "error", or "hangs" when the parser does not return).    *)
(* Past the last token the current one is NULL.                            *)
(***************************************************************************)
EXTENDS TaskGraph, Integers

CONSTANTS
    Plugin,        (* texts that name an installed plugin                     *)
    ArrayProperty  (* texts that name a property that holds several values    *)

NoTask == <<>>

Parser(tokens) ==
    [tokens |-> tokens, pos |-> 1, graph |-> EmptyGraph, set |-> {}, outcome |-> "ok"]

AtEnd(env) == env.pos > Len(env.tokens)
TypeAt(env, pos) == IF pos \in DOMAIN env.tokens THEN env.tokens[pos].type ELSE "null"
Peek(env) == TypeAt(env, env.pos)
Skip(env) == [env EXCEPT !.pos = @ + 1]

(* consume_spaces *)
SkipSpaces(env) ==
    LET stops == {p \in env.pos..Len(env.tokens) : TypeAt(env, p) # "space"}
    IN  [env EXCEPT !.pos = IF stops = {} THEN Len(env.tokens) + 1
                            ELSE CHOOSE p \in stops : \A o \in stops : p <= o]

Text(env, pos) == env.tokens[pos].str

(* consume_maybe: the spaces are gone in any case. *)
IsNext(env, type) == Peek(SkipSpaces(env)) = type

----------------------------------------------------------------------------
(* Tasks and their properties *)

(* The positions of the values from first on.  Of an array, each value is  *)
(* followed by a comma but the last.                                       *)
ValuesFrom(env, first) ==
    LET last == CHOOSE n \in 0..Len(env.tokens) :
                    /\ TypeAt(env, first + 2 * n + 1) # "comma"
                    /\ \A m \in 0..n - 1 : TypeAt(env, first + 2 * m + 1) = "comma"
    IN  [k \in 1..last + 1 |-> first + 2 * (k - 1)]

IsArray(env) == Text(env, env.pos) \in ArrayProperty

ValuePositions(env) ==
    IF IsArray(env) THEN ValuesFrom(env, env.pos + 2) ELSE <<env.pos + 2>>

IsAssignment(env) ==
    /\ Peek(env) = "string"
    /\ TypeAt(env, env.pos + 1) = "assignment"
    /\ \A p \in ToSet(ValuePositions(env)) : TypeAt(env, p) = "string"

(* try_consume_assignment.  Whatever follows the last value of an array is *)
(* consumed with it.                                                       *)
Assigned(env, task) ==
    LET at == ValuePositions(env)
        values == [k \in DOMAIN at |-> Text(env, at[k])]
    IN  [env EXCEPT !.pos = at[Len(at)] + (IF IsArray(env) THEN 2 ELSE 1),
                    !.set = @ \cup {<<task, Text(env, env.pos), values>>}]

RECURSIVE Assignments(_, _)
Assignments(env, task) ==
    LET here == SkipSpaces(env)
    IN  IF IsAssignment(here) THEN Assignments(Assigned(here, task), task) ELSE here

(* try_consume_task: the token is consumed whatever it is.  A task is      *)
(* known by the position of its name.                                      *)
TaskRead(env) ==
    IF Peek(env) # "string" THEN [env |-> Skip(env), node |-> NoTask]
    ELSE IF Text(env, env.pos) \notin Plugin
      THEN [env |-> [Skip(env) EXCEPT !.outcome = "error"], node |-> NoTask]
    ELSE [env |-> Assignments(Skip(env), <<env.pos, 0>>), node |-> <<env.pos, 0>>]

----------------------------------------------------------------------------
(* Connections *)

ConnectOne(env, from, to) == [env EXCEPT !.graph = Connect(@, from, to, 0)]

ConnectParamsToFirst(env, params, to) ==
    FoldLeft(LAMBDA e, i : [e EXCEPT !.graph = Connect(@, params[i], to, 0)],
             env, [i \in DOMAIN params |-> i])

ConnectParams(env, params, to) ==
    FoldLeft(LAMBDA e, i : [e EXCEPT !.graph = Connect(@, params[i], to, i - 1)],
             env, [i \in DOMAIN params |-> i])

(* The loop over "! task" of read_connection. *)
RECURSIVE Chain(_, _, _)
Chain(env, previous, params) ==
    LET here == SkipSpaces(env)
        next == TaskRead(SkipSpaces(Skip(here)))
        connected == IF params = <<>> THEN ConnectOne(next.env, previous, next.node)
                     ELSE ConnectParams(next.env, params, next.node)
    IN  IF ~IsNext(env, "exclamation") THEN [env |-> here, node |-> previous]
        ELSE IF next.node = NoTask THEN [env |-> next.env, node |-> previous]
        ELSE Chain(connected, next.node, <<>>)

RECURSIVE ReadConnection(_), ReadParams(_, _), LastOfParam(_, _)

ReadConnection(env) ==
    LET here == SkipSpaces(env)
        params == IF Peek(here) = "open" THEN ReadParams(Skip(here), <<>>)
                  ELSE [env |-> here, nodes |-> <<>>]
        first == TaskRead(params.env)
    IN  IF AtEnd(env) THEN [env |-> env, node |-> NoTask]
        ELSE IF Peek(here) \notin {"open", "string"} THEN [env |-> here, node |-> NoTask]
        ELSE IF params.env.outcome # "ok" THEN [env |-> params.env, node |-> NoTask]
        ELSE IF first.env.outcome # "ok" THEN [env |-> first.env, node |-> NoTask]
        ELSE Chain(first.env, first.node, params.nodes)

(* One parameter may be several connections in a row: the last one counts. *)
LastOfParam(env, last) ==
    LET one == ReadConnection(env)
    IN  IF one.node = NoTask \/ one.env.outcome # "ok" THEN [env |-> one.env, node |-> last]
        ELSE LastOfParam(one.env, one.node)

(* The loop of read_params.  A token it has no use for is never consumed.  *)
ReadParams(env, nodes) ==
    LET param == LastOfParam(env, NoTask)
    IN  IF env.outcome # "ok" THEN [env |-> env, nodes |-> nodes]
        ELSE IF Peek(env) = "stop"
          THEN [env |-> [env EXCEPT !.outcome = "error"], nodes |-> nodes]
        ELSE IF Peek(env) = "close" THEN [env |-> Skip(env), nodes |-> nodes]
        ELSE IF Peek(env) = "comma" THEN ReadParams(Skip(env), nodes)
        ELSE IF param.env = env
          THEN [env |-> [env EXCEPT !.outcome = "hangs"], nodes |-> nodes]
        ELSE ReadParams(param.env, Append(nodes, param.node))

(* parse: connections until there are no more. *)
Parsed(tokens) == LastOfParam(Parser(tokens), NoTask).env

----------------------------------------------------------------------------
(* What a description means.  A pipeline has parameters, which are         *)
(* pipelines, and tasks in a row; a task has properties.  address tells    *)
(* the tasks of a description apart: parameter i of the pipeline at        *)
(* address a is at Append(a, i), its task j at Append(a, -j).              *)

Name(address) == <<"task", address>>

TaskAt(address, j) == Append(address, -j)

RECURSIVE Edges(_, _)
Edges(pipe, address) ==
    LET end(i) == TaskAt(Append(address, i), Len(pipe.params[i].tasks))
    IN  {[source |-> Name(TaskAt(address, j)), target |-> Name(TaskAt(address, j + 1)),
          label |-> 0] : j \in 1..Len(pipe.tasks) - 1}
        \cup {[source |-> Name(end(i)), target |-> Name(TaskAt(address, 1)),
               label |-> i - 1] : i \in DOMAIN pipe.params}
        \cup UNION {Edges(pipe.params[i], Append(address, i)) : i \in DOMAIN pipe.params}

RECURSIVE Properties(_, _)
Properties(pipe, address) ==
    {<<Name(TaskAt(address, j)), pipe.tasks[j].key, pipe.tasks[j].values>> :
        j \in {k \in DOMAIN pipe.tasks : pipe.tasks[k].key # NoTask}}
    \cup UNION {Properties(pipe.params[i], Append(address, i)) : i \in DOMAIN pipe.params}

(* The same as tokens, written as in the manual page.  style tells where   *)
(* there is a space that need not be.                                      *)
Token(type) == [type |-> type, str |-> NoTask]
StringToken(text) == [type |-> "string", str |-> text]

SpaceIf(b) == IF b THEN <<Token("space")>> ELSE <<>>

Joined(parts, separator) ==
    FoldLeft(LAMBDA acc, i : acc \o (IF i = 1 THEN <<>> ELSE separator) \o parts[i],
             <<>>, [i \in DOMAIN parts |-> i])

TaskTokens(task, address) ==
    <<StringToken(Name(address))>>
    \o (IF task.key = NoTask THEN <<>>
        ELSE <<Token("space"), StringToken(task.key), Token("assignment")>>
             \o Joined([k \in DOMAIN task.values |-> <<StringToken(task.values[k])>>],
                       <<Token("comma")>>)
             \o SpaceIf(task.key \in ArrayProperty))

RECURSIVE Tokens(_, _, _)
Tokens(pipe, address, style) ==
    LET params == Joined([i \in DOMAIN pipe.params |-> Tokens(pipe.params[i], Append(address, i), style)],
                         <<Token("comma")>> \o SpaceIf(style.comma))
        tasks == Joined([j \in DOMAIN pipe.tasks |-> TaskTokens(pipe.tasks[j], TaskAt(address, j))],
                        SpaceIf(style.exclamation) \o <<Token("exclamation")>>
                        \o SpaceIf(style.exclamation))
    IN  IF pipe.params = <<>> THEN tasks
        ELSE <<Token("open")>> \o SpaceIf(style.open) \o params \o <<Token("close")>>
             \o SpaceIf(style.close) \o <<Token("exclamation"), Token("space")>> \o tasks

Description(pipe, style) == Tokens(pipe, <<>>, style) \o <<Token("stop")>>

=============================================================================
