----------------------------- MODULE InputTask ------------------------------
(***************************************************************************)
(* UfoInputTask (ufo/ufo-input-task.c): a generator that is fed by an      *)
(* application thread.  The application releases filled buffers to the     *)
(* task and gets them back once their contents were copied; the            *)
(* scheduler's thread takes one in get_requisition, where it may block,    *)
(* and hands it back in generate.                                          *)
(***************************************************************************)
EXTENDS Naturals, Sequences

CONSTANTS
    InTask,       (* the input tasks of the graph                           *)
    PoisonPill,   (* POISON_PILL, here and in the output task               *)
    NoBuffer      (* NULL                                                   *)

VARIABLES
    fed,          (* in_queue: released to the task, and the pill           *)
    spent,        (* out_queue: copied, to be filled again                  *)
    input         (* the buffer taken in get_requisition                    *)

InitInputTasks ==
    /\ fed = [t \in InTask |-> <<>>]
    /\ spent = [t \in InTask |-> <<>>]
    /\ input = [t \in InTask |-> NoBuffer]

(* The application's calls *)

ReleaseInputBuffer(t, b) ==
    /\ fed' = [fed EXCEPT ![t] = Append(@, b)]
    /\ UNCHANGED <<spent, input>>

StopInput(t) == ReleaseInputBuffer(t, PoisonPill)

GetInputBuffer(t) ==
    /\ spent[t] # <<>>
    /\ spent' = [spent EXCEPT ![t] = Tail(@)]
    /\ UNCHANGED <<fed, input>>

(* The task's own functions *)

GetRequisitionReleased(t) ==
    /\ fed[t] # <<>>
    /\ input' = [input EXCEPT ![t] = Head(fed[t])]
    /\ fed' = [fed EXCEPT ![t] = Tail(@)]
    /\ spent' = [spent EXCEPT ![t] = Append(@, Head(fed[t]))]

GetRequisition(t) ==
    /\ fed[t] # <<>>
    /\ input' = [input EXCEPT ![t] = Head(fed[t])]
    /\ fed' = [fed EXCEPT ![t] = Tail(@)]
    /\ UNCHANGED spent

(* generate returns FALSE *)
Exhausted(t) ==
    /\ input[t] = PoisonPill
    /\ UNCHANGED <<fed, spent, input>>

(* ... or copies the buffer to the output and gives it back. *)
Spend(t) ==
    /\ input[t] # PoisonPill
    /\ spent' = [spent EXCEPT ![t] = Append(@, input[t])]
    /\ UNCHANGED <<fed, input>>

=============================================================================
