------------------------------ MODULE BasicOps ------------------------------
(***************************************************************************)
(* Element-wise operations on the GPU (ufo/ufo-basic-ops.c), called by the *)
(* threads of tasks.  All threads get the same kernel object out of the    *)
(* cache of the resources, and an OpenCL kernel remembers one value for    *)
(* each of its parameters: setting them one by one and queueing the kernel *)
(* must not mix with what another thread does.                             *)
(*                                                                         *)
(* An operation is a record: the static mutex of the C function that does  *)
(* the work, the kernel, and which of the caller's arguments is set as the *)
(* i-th parameter.  What a kernel computes is not part of the model, its   *)
(* list of parameters (ufo/ufo-basic-ops.cl) is.                           *)
(***************************************************************************)
EXTENDS Naturals, Sequences, FiniteSets, SequencesExt

CONSTANT Thread

Operation(mutex, kernel, sets) == [mutex |-> mutex, kernel |-> kernel, sets |-> sets]

ThreeImages == <<"arg1", "arg2", "out">>
Modified == <<"arg1", "arg2", "modifier", "out">>

Set == Operation("set", "operation_set", <<"out", "value">>)
Inv == Operation("inv", "operation_inv", <<"out", "out">>)
MulRows == Operation("mul_rows", "op_mulRows", <<"arg1", "arg2", "out", "offset">>)
Elementwise(kernel) == Operation("operation", kernel, ThreeImages)
WithModifier(kernel) == Operation("operation2", kernel, Modified)
GradientMagnitudes ==
    Operation("gradient_magnitudes", "operation_gradient_magnitude", <<"arg1", "out">>)
GradientDirections ==
    Operation("gradient_directions", "operation_gradient_direction", ThreeImages)
Positive == Operation("POSC", "POSC", <<"arg1", "out">>)
GradientDescent == Operation("gradient_descent", "descent_grad", <<"arg1", "out">>)

Mul == Elementwise("operation_mul")
Add == Elementwise("operation_add")
Deduction == Elementwise("operation_deduction")
Add2 == WithModifier("operation_add2")
Deduction2 == WithModifier("operation_deduction2")

Operations == {Set, Inv, Mul, Add, Add2, Deduction, Deduction2, MulRows, GradientMagnitudes,
               GradientDirections, Positive, GradientDescent}

(* How a kernel declares its parameters. *)
Binary == <<"read", "read", "write">>
Unary == <<"read", "write">>

Signature(kernel) ==
    CASE kernel = "operation_set" -> <<"write", "number">>
      [] kernel \in {"operation_mul", "operation_add", "operation_deduction",
                     "operation_gradient_direction"} -> Binary
      [] kernel \in {"operation_add2", "operation_deduction2"} ->
            <<"read", "read", "number", "write">>
      [] kernel = "op_mulRows" -> <<"read", "read", "write", "number">>
      [] OTHER -> Unary

VARIABLES
    pc,          (* where in its operation a thread is                       *)
    op,          (* op[t]: the operation t has called                        *)
    next,        (* next[t]: the next parameter t sets                       *)
    using,       (* using[t]: the kernel object t got                        *)
    objects,     (* kernel objects, by where they come from: their name, and *)
                 (* what their parameters hold                               *)
    cached,      (* kernel_cache: objects by name                            *)
    owner,       (* the mutexes that are held, and by whom                   *)
    commands     (* command queue: thread, operation, values of parameters   *)

vars == <<pc, op, next, using, objects, cached, owner, commands>>

(* A kernel that somebody used before holds what it was given then. *)
Old == <<"nobody", "old">>
NewObject(kernel, value) ==
    [name |-> kernel, holds |-> [i \in DOMAIN Signature(kernel) |-> value]]

NoObject == <<>>

Init ==
    /\ pc = [t \in Thread |-> "lookup"]
    /\ op \in [Thread -> Operations]
    /\ next = [t \in Thread |-> 1]
    /\ using = [t \in Thread |-> NoObject]
    /\ \E before \in SUBSET {op[t].kernel : t \in Thread} :
          /\ objects = [o \in {<<"before", k>> : k \in before} |-> NewObject(o[2], Old)]
          /\ cached = [k \in before |-> <<"before", k>>]
    /\ owner = <<>>
    /\ commands = <<>>

At(t, here, there) == pc[t] = here /\ pc' = [pc EXCEPT ![t] = there]

(* ufo_resources_get_cached_kernel, which locks nothing: two threads may   *)
(* both miss the cache, and the object of the second replaces the first.   *)
Lookup(t) ==
    /\ IF op[t].kernel \in DOMAIN cached
         THEN At(t, "lookup", "lock") /\ using' = [using EXCEPT ![t] = cached[op[t].kernel]]
         ELSE At(t, "lookup", "create") /\ UNCHANGED using
    /\ UNCHANGED <<op, next, objects, cached, owner, commands>>

Create(t) ==
    /\ At(t, "create", "insert")
    /\ objects' = [o \in DOMAIN objects \cup {<<"by", t>>} |->
                      IF o = <<"by", t>> THEN NewObject(op[t].kernel, Old) ELSE objects[o]]
    /\ using' = [using EXCEPT ![t] = <<"by", t>>]
    /\ UNCHANGED <<op, next, cached, owner, commands>>

Insert(t) ==
    /\ At(t, "insert", "lock")
    /\ cached' = [k \in DOMAIN cached \cup {op[t].kernel} |->
                    IF k = op[t].kernel THEN using[t] ELSE cached[k]]
    /\ UNCHANGED <<op, next, using, objects, owner, commands>>

(* The kernel could not be had: g_error ends the program. *)
Die(t) ==
    /\ pc[t] = "create"
    /\ pc' = [u \in Thread |-> "dead"]
    /\ UNCHANGED <<op, next, using, objects, cached, owner, commands>>

(* The mutex is a static variable of the function.                         *)
TakenPerCall(t) == FALSE
Taken(t) == op[t].mutex \in DOMAIN owner

Lock(t) ==
    /\ At(t, "lock", "set")
    /\ ~Taken(t)
    /\ owner' = [m \in DOMAIN owner \cup {op[t].mutex} |->
                   IF m = op[t].mutex THEN t ELSE owner[m]]
    /\ UNCHANGED <<op, next, using, objects, cached, commands>>

(* clSetKernelArg for one parameter after the other, *)
SetArgument(t) ==
    /\ pc[t] = "set"
    /\ next[t] <= Len(op[t].sets)
    /\ objects' = [objects EXCEPT ![using[t]].holds[next[t]] = <<t, op[t].sets[next[t]]>>]
    /\ next' = [next EXCEPT ![t] = @ + 1]
    /\ UNCHANGED <<pc, op, using, cached, owner, commands>>

(* and clEnqueueNDRangeKernel, which takes a copy of what the kernel holds. *)
Enqueue(t) ==
    /\ next[t] > Len(op[t].sets)
    /\ At(t, "set", "unlock")
    /\ commands' = Append(commands, [thread |-> t, op |-> op[t],
                                     kernel |-> objects[using[t]].name,
                                     values |-> objects[using[t]].holds])
    /\ UNCHANGED <<op, using, next, objects, cached, owner>>

Unlock(t) ==
    /\ At(t, "unlock", "done")
    /\ owner' = [m \in DOMAIN owner \ {op[t].mutex} |-> owner[m]]
    /\ UNCHANGED <<op, using, next, objects, cached, commands>>

Call(t) ==
    Lookup(t) \/ Create(t) \/ Insert(t) \/ Die(t) \/ Lock(t) \/ SetArgument(t) \/ Enqueue(t)
        \/ Unlock(t)

Next == \E t \in Thread : Call(t)

Spec == Init /\ [][Next]_vars

----------------------------------------------------------------------------
Numbers == {"value", "modifier", "offset"}

(* What runs on the GPU is what the caller asked for: every parameter of   *)
(* the kernel holds an argument of this very call, numbers where the       *)
(* kernel declares numbers, and the output where it writes.                *)
LaunchedAsCalled ==
    \A l \in ToSet(commands) :
        /\ Len(l.values) = Len(l.op.sets)
        /\ l.kernel = l.op.kernel
        /\ \A i \in DOMAIN l.values :
              LET argument == l.op.sets[i]
              IN  /\ l.values[i] = <<l.thread, argument>>
                  /\ Signature(l.kernel)[i] = "number" <=> argument \in Numbers
                  /\ Signature(l.kernel)[i] = "write" => argument = "out"

=============================================================================
