----------------------------- MODULE OutputTask -----------------------------
(***************************************************************************)
(* UfoOutputTask (ufo/ufo-output-task.c): a sink that hands its input to   *)
(* an application thread.  It owns one copy, made at the first item: the   *)
(* application gets the copy, and process waits until it is released       *)
(* before it copies the next item.  The end of the input is announced by   *)
(* the handler of inputs_stopped.                                          *)
(***************************************************************************)
EXTENDS Naturals, Sequences

CONSTANTS
    Copy,         (* the buffer that the task owns                          *)
    PoisonPill

VARIABLES
    ready,        (* out_queue: for the application, and the pill           *)
    returned,     (* in_queue: released by the application                  *)
    copies,       (* n_copies                                               *)
    content       (* the tag of the item in the copy                        *)

InitOutputTask ==
    /\ ready = <<>>
    /\ returned = <<>>
    /\ copies = 0
    /\ content = 0

(* The task's own functions *)

ProcessOutputUnchecked(tag) ==
    /\ copies' = 1
    /\ content' = tag
    /\ ready' = Append(ready, Copy)
    /\ UNCHANGED returned

ProcessOutput(tag) ==
    /\ copies' = 1
    /\ content' = tag
    /\ ready' = Append(ready, Copy)
    /\ IF copies = 0
         THEN UNCHANGED returned
         ELSE /\ returned # <<>>
              /\ returned' = Tail(returned)

InputsStoppedUnheard == UNCHANGED <<ready, returned, copies, content>>

InputsStopped ==
    /\ ready' = Append(ready, PoisonPill)
    /\ UNCHANGED <<returned, copies, content>>

(* The application's calls; the pill is returned as NULL. *)

GetOutputBuffer ==
    /\ ready # <<>>
    /\ ready' = Tail(ready)
    /\ UNCHANGED <<returned, copies, content>>

ReleaseOutputBuffer ==
    /\ returned' = Append(returned, Copy)
    /\ UNCHANGED <<ready, copies, content>>

(* Both calls at once, when nobody else can come in between. *)
PassOn ==
    /\ ready # <<>>
    /\ ready' = Tail(ready)
    /\ returned' = Append(returned, Copy)
    /\ UNCHANGED <<copies, content>>

=============================================================================
