------------------------------- MODULE Stream -------------------------------
(***************************************************************************)
(* What one edge of a task graph promises the two tasks it joins, whatever *)
(* queues and buffers carry it: a reliable, ordered, bounded stream.       *)
(*                                                                         *)
(*   - the consumer receives exactly the items that were sent, unchanged   *)
(*     and in the order in which they were sent;                           *)
(*   - at most Bound items are in flight;                                  *)
(*   - once the end of the stream was sent no further item is, and once it *)
(*     was received nothing more is received.                              *)
(***************************************************************************)
EXTENDS Naturals, Sequences

CONSTANTS
    Item,   (* the contents a buffer can have *)
    End,    (* the end-of-stream marker       *)
    Bound   (* items in flight, at most       *)

VARIABLES
    sent,      (* everything the producer put on the stream, the End included *)
    received   (* what the consumer took from it                              *)

streamVars == <<sent, received>>

Has(s, x) == \E i \in 1..Len(s) : s[i] = x

Init == sent = <<>> /\ received = <<>>

(* t is s with one item of S appended *)
Appends(s, t, S) ==
    /\ Len(t) = Len(s) + 1
    /\ SubSeq(t, 1, Len(s)) = s
    /\ t[Len(t)] \in S

Send == /\ ~ Has(sent, End)
        /\ Len(sent) - Len(received) < Bound
        /\ Appends(sent, sent', Item)
        /\ UNCHANGED received

Close == /\ sent' = Append(sent, End)
         /\ UNCHANGED received

(* The last item of a sub-stream of known length and its End, in one step. *)
SendLast == /\ ~ Has(sent, End)
            /\ Len(sent) - Len(received) < Bound
            /\ Len(sent') = Len(sent) + 2
            /\ Appends(sent, SubSeq(sent', 1, Len(sent) + 1), Item)
            /\ sent'[Len(sent')] = End
            /\ UNCHANGED received

Receive == /\ Len(received) < Len(sent)
           /\ ~ Has(received, End)
           /\ received' = Append(received, sent[Len(received) + 1])
           /\ UNCHANGED sent

Next == Send \/ Close \/ SendLast \/ Receive

Spec == Init /\ [][Next]_streamVars

=============================================================================
