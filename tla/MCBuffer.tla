------------------------------ MODULE MCBuffer ------------------------------
(***************************************************************************)
(* Work on a GPU, for TLC: an application that moves data about between    *)
(* host and device, or two threads that call an operation each.            *)
(*                                                                         *)
(* There are two buffers and two values.  Of the sizes two have an odd     *)
(* number of elements and one an even number; the differences between the  *)
(* first two cancel out.                                                   *)
(***************************************************************************)
EXTENDS BasicOps, Buffer, TLC

VARIABLE system      (* "buffers" or "operations" *)

MCRequisitions == {<<2, 2>>, <<3, 1>>, <<5, 1>>}

(* The largest profiles that do not combine what the code does not stand. *)
MCProfiles == {{"image", "swap", "discard", "convert"}, {"image", "lend", "convert"},
               {"resize", "convert"}}

(* Only applications that resize have buffers of different sizes. *)
InitBuffers ==
    /\ system = "buffers"
    /\ BufferInit
    /\ "resize" \notin may => \A b \in Buffers : requisition[b] = <<2, 2>>
    /\ pc = <<>> /\ op = <<>> /\ next = <<>> /\ using = <<>>
    /\ objects = <<>> /\ cached = <<>> /\ owner = <<>> /\ commands = <<>>

InitOperations ==
    /\ system = "operations"
    /\ Init
    /\ BufferInit
    /\ may = {"resize", "convert"}
    /\ \A b \in Buffers : requisition[b] = <<2, 2>>

MCNext ==
    /\ UNCHANGED system
    /\ \/ system = "buffers" /\ BufferNext /\ UNCHANGED vars
       \/ system = "operations" /\ Next /\ UNCHANGED bufferVars

MCSpec == (InitBuffers \/ InitOperations) /\ [][MCNext]_<<vars, system, bufferVars>>

Symmetric == Permutations(Value) \cup Permutations(Buffers)

=============================================================================
