------------------------ MODULE SchedulerRunProofs --------------------------
(***************************************************************************)
(* What a whole run of the default scheduler comes to.                     *)
(*                                                                         *)
(* The inputs of a task are aligned, in every graph that satisfies the     *)
(* assumptions of modules Group and Scheduler: the k-th call of a task     *)
(* gets the k-th item of each of its inputs, and of an input that has      *)
(* ended its last one, unless its producer has written behind that.        *)
(*                                                                         *)
(* In every graph whose inputs have one queue each and whose edges close   *)
(* no circle the tasks never all wait for each other, and nothing is left  *)
(* in a queue at the end.                                                  *)
(***************************************************************************)
EXTENDS SchedulerStreamProofs

(* An input with a single queue that does not start over. *)
Alone(t, i) == Len(InQueues[t][i]) = 1 /\ ~ Wraps(InQueues[t][i][1][1])

Sole(t, i) == InQueues[t][i][1]

(* An item of this round was popped but not processed yet. *)
Pending(t, i) ==
    \/ pc[t] \in {"popout", "work", "reduce", "regenerate", "repush", "repopout"}
    \/ pc[t] \in {"get", "reget"} /\ i < idx[t]

Flushing == {"flush", "flushrelease", "done"}

(* The buffer b of q has got a new item that was not read yet. *)
Refilled(q, b) ==
    b \in Range(full[q]) \/ (pc[q[1]] \in {"push", "repush"} /\ out[q[1]] = b)

(* n items of an input were read, in m calls.                              *)
InStep(t, i, n, m) ==
    /\ pc[t] \notin Flushing =>
          IF finished[t][i] THEN n <= m ELSE n = IF Pending(t, i) THEN m + 1 ELSE m
    /\ ~ finished[t][i] => m <= n

(* Between the end of an input and the end of the task its last buffer     *)
(* keeps the last item, unless something was written behind it.            *)
LastRead(q, b, items, n) ==
    n > 0 =>
        /\ Range(got[q]) \cap Nat # {}
        /\ b \in Own(q)
        /\ Value(b) = items[n] \/ Refilled(q, b) \/ WrittenBehind(q)

Logged(calls, i, q, items, n, m) ==
    n > 0 =>
        \A k \in 1..m : k <= n \/ ~ WrittenBehind(q) =>
            calls[k][i] = items[IF k <= n THEN k ELSE n]

Paired(t, i, q, items, n, m) ==
    /\ InStep(t, i, n, m)
    /\ LastRead(q, inputs[t][i], items, n)
    /\ Logged(log[t], i, q, items, n, m)

InputPaired(t, i) ==
    LET items == Items(got[Sole(t, i)])
    IN  Paired(t, i, Sole(t, i), items, Len(items), Len(log[t]))

(* A task whose inputs have all ended starts no other call of process. *)
Unfinished(t) == pc[t] \in {"popout", "work", "reduce"} => ~ AllFinished(t)

LInv ==
    /\ SInv
    /\ AllRead
    /\ ReductorInv
    /\ \A t \in Task : Unfinished(t)
    /\ \A t \in Task : \A i \in 1..NInputs(t) : Alone(t, i) => InputPaired(t, i)

----------------------------------------------------------------------------
(* The items of a history *)

LEMMA ItemsFacts ==
    ASSUME NEW g \in Seq(Tag)
    PROVE  /\ Items(g) \in Seq(Tag) /\ Len(Items(g)) \in Nat
           /\ EndOfStream \notin Range(g) =>
                 /\ Items(g) = g /\ Items(Append(g, EndOfStream)) = g
                 /\ \A v \in Nat : Items(Append(g, v)) = Append(g, v)
  <1>1. EndOfStream \in Tag /\ EndOfStream \notin Nat /\ Nat \subseteq Tag
    BY GroupAssumption DEF Tag
  <1>2. PICK n \in Nat : n = Len(g) /\ DOMAIN g = 1..n
    BY LenProperties
  <1>3. Items(g) \in Seq(Tag)
    <2>1. CASE g = <<>>
      BY <2>1 DEF Items
    <2>2. CASE g # <<>>
      <3>1. n > 0
        BY <1>2, <2>2, EmptySeq
      <3>2. SubSeq(g, 1, n - 1) \in Seq(Tag)
        <4>1. \A i \in 1..n - 1 : g[i] \in Tag
          BY <1>2, <3>1
        <4> QED BY <1>2, <3>1, <4>1
      <3> QED BY <1>2, <3>2 DEF Items
    <2> QED BY <2>1, <2>2
  <1>4. ASSUME EndOfStream \notin Range(g) PROVE Items(g) = g
    <2>1. n > 0 => g[n] # EndOfStream
      BY <1>2, <1>4 DEF Range
    <2>2. g # <<>> => n > 0
      BY <1>2, EmptySeq
    <2> QED BY <1>2, <2>1, <2>2 DEF Items
  <1>5. PICK a : a = Append(g, EndOfStream)
    OBVIOUS
  <1>6. /\ a \in Seq(Tag) /\ Len(a) = n + 1 /\ a[Len(a)] = EndOfStream
        /\ SubSeq(a, 1, n) = g /\ a # <<>>
    BY <1>1, <1>2, <1>5, AppendsOne, AppendProperties, EmptySeq
  <1>7. Items(a) = g
    <2>1. Len(a) - 1 = n
      BY <1>6
    <2> QED BY <1>6, <2>1 DEF Items
  <1>8. ASSUME NEW v \in Nat PROVE Items(Append(g, v)) = Append(g, v)
    <2>1. PICK b : b = Append(g, v)
      OBVIOUS
    <2>2. b[Len(b)] = v
      BY <1>1, <2>1, AppendsOne
    <2>3. v # EndOfStream
      BY <1>1
    <2> QED BY <2>1, <2>2, <2>3 DEF Items
  <1> QED BY <1>3, <1>4, <1>5, <1>7, <1>8

----------------------------------------------------------------------------
(* Inputs with one queue *)

LEMMA SoleFacts ==
    ASSUME NEW t \in Task, NEW i \in 1..NInputs(t), Alone(t, i)
    PROVE  /\ Sole(t, i) \in Streams /\ Sole(t, i) \in Queue
           /\ Range(InQueues[t][i]) = {Sole(t, i)}
           /\ Open(Sole(t, i)) <=> ~ Outlived(t, i)
           /\ TypeInv => InQueue(t, i) = Sole(t, i)
           /\ \A u \in Task : \A j \in 1..NInputs(u) :
                 Sole(t, i) \in Range(InQueues[u][j]) => u = t /\ j = i
  <1>1. /\ InQueues[t][i] \in Seq(Queue)
        /\ DOMAIN InQueues[t][i] = 1..Len(InQueues[t][i])
        /\ Len(InQueues[t][i]) = 1
    BY WiringFacts DEF Alone
  <1>2. Range(InQueues[t][i]) = {Sole(t, i)}
    BY <1>1 DEF Range, Sole
  <1>3. Sole(t, i) \in Queue
    BY <1>2, WiringFacts
  <1>4. Sole(t, i) \in Streams
    BY <1>3 DEF Streams, Alone, Sole
  <1>5. Open(Sole(t, i)) <=> ~ Outlived(t, i)
    BY <1>2, OpenFacts
  <1>6. ASSUME TypeInv PROVE InQueue(t, i) = Sole(t, i)
    BY <1>2, <1>6, InQueueFacts
  <1>7. \A u \in Task : \A j \in 1..NInputs(u) :
           Sole(t, i) \in Range(InQueues[u][j]) => u = t /\ j = i
    BY <1>2, WiringFacts
  <1> QED BY <1>2, <1>3, <1>4, <1>5, <1>6, <1>7

(* The buffers of such a queue stay with it. *)
LEMMA ReachesSole ==
    ASSUME TypeInv, NEW t \in Task, NEW i \in 1..NInputs(t), Alone(t, i),
           NEW r \in Queue, NEW b \in Own(Sole(t, i)), b \in Reach(r) \/ b \in Reach(r)'
    PROVE  r = Sole(t, i)
  <1> DEFINE q == Sole(t, i)
  <1>1. /\ q \in Queue
        /\ \A u \in Task : \A j \in 1..NInputs(u) : q \in Range(InQueues[u][j]) => u = t /\ j = i
        /\ Range(InQueues[t][i]) = {q}
    BY SoleFacts
  <1>2. b[1] = q /\ b # NoBuffer
    BY <1>1, OwnFacts
  <1>3. SUFFICES ASSUME r # q PROVE FALSE
    OBVIOUS
  <1>4. b \notin Own(r) /\ b \notin Own(r)'
    BY <1>2, <1>3 DEF Own
  <1>5. \E s \in Siblings(r) : b \in Own(s) \/ b \in Own(s)'
    BY <1>2, <1>4 DEF Reach, Siblings
  <1>6. PICK s \in Siblings(r) : s = q
    BY <1>2, <1>5 DEF Own
  <1>7. PICK u \in Task : \E j \in 1..NInputs(u) : r \in Range(InQueues[u][j])
    BY <1>2, <1>4, OpenFacts DEF Reach
  <1>8. PICK j \in 1..NInputs(u) : r \in Range(InQueues[u][j])
    BY <1>7
  <1>9. Siblings(r) = Range(InQueues[u][j])
    BY <1>8, OpenFacts
  <1>10. u = t /\ j = i
    BY <1>1, <1>6, <1>9
  <1> QED BY <1>1, <1>3, <1>8, <1>10

(* A producer that has left a queue behind sends it nothing any more: no   *)
(* buffer of the queue has got a new item.                                 *)
LEMMA NotRefilled ==
    ASSUME IInv, NEW t \in Task, NEW i \in 1..NInputs(t), Alone(t, i), LeftBehind(Sole(t, i)),
           Range(full[Sole(t, i)]) \subseteq {EndOfStream}, NEW b \in Own(Sole(t, i))
    PROVE  ~ Refilled(Sole(t, i), b)
  <1> DEFINE q == Sole(t, i)
             p == q[1]
  <1>1. q \in Queue /\ p \in Task /\ TypeInv /\ b # EndOfStream
    BY SoleFacts, ConstantsType, OwnFacts DEF IInv
  <1>2. SUFFICES ASSUME pc[p] \in {"push", "repush"}, out[p] = b PROVE FALSE
    BY <1>1 DEF Refilled
  <1>3. Position(p)
    BY <1>1 DEF TypeInv, Positions
  <1>4. HoldsOutput(p)
    BY <1>2, <1>3 DEF HoldsOutput, Position, Reducing
  <1>5. OutQueue(p) \in Queue /\ b \in Reach(OutQueue(p))
    BY <1>1, <1>2, <1>4, PlacesType
  <1>6. OutQueue(p) = q
    BY <1>1, <1>5, ReachesSole
  <1>7. Pattern[p] = "sequential" /\ q[2] < current[p]
    BY <1>2 DEF LeftBehind
  <1>8. q[2] = current[p]
    BY <1>6, <1>7 DEF OutQueue
  <1>9. current[p] \in Nat
    BY <1>1 DEF TypeInv, TypeOK, GroupsOK
  <1> QED BY <1>7, <1>8, <1>9

(* Behind the end of an input there is nothing but end markers.            *)
LEMMA EndedInput ==
    ASSUME SInv, NEW t \in Task, NEW i \in 1..NInputs(t), Alone(t, i), NEW q, q = Sole(t, i),
           \/ finished[t][i]
           \/ ~ finished[t][i] /\ full[q] # <<>> /\ Head(full[q]) = EndOfStream
    PROVE  LeftBehind(q) /\ Range(full[q]) \subseteq {EndOfStream}
  <1>1. /\ q \in Streams /\ q \in Queue /\ Range(InQueues[t][i]) = {q}
        /\ Open(q) <=> ~ Outlived(t, i)
    BY SoleFacts
  <1>2. IInv /\ TypeInv /\ StreamInv(q) /\ EndInv
    BY <1>1 DEF SInv, IInv
  <1> DEFINE S == Pointer \cup {EndOfStream}
  <1>3. /\ full[q] \in Seq(S) /\ Maps(Read, S, Tag)
        /\ sent[q] \in Seq(Tag) /\ got[q] \in Seq(Tag)
    BY <1>1, <1>2, StreamTypes
  <1>4. \A y \in S : Read[y] = Content(y)
    BY DEF Read
  <1>5. \A y : Content(y) = EndOfStream <=> y = EndOfStream
    BY <1>1, <1>2, StreamTypes
  <1> HIDE DEF S
  <1>6. /\ Contents(q) \in Seq(Tag) /\ Len(Contents(q)) = Len(full[q])
        /\ \A k \in 1..Len(full[q]) : Contents(q)[k] = Read[full[q][k]] /\ full[q][k] \in S
    BY <1>3, MappedFacts DEF Contents
  <1>7. finished[t][i] <=> EndOfStream \in Range(got[q])
    BY <1>1, <1>2 DEF EndInv
  <1>8. ~ CutOff(q)
    BY <1>1, <1>7 DEF CutOff, Outlived
  <1>9. InTransit(sent[q], got[q], Contents(q)) /\ NothingBehind(EndOfStream, sent[q])
    BY <1>2, <1>8 DEF StreamInv
  <1>10. /\ EndOfStream \in Range(sent[q])
         /\ \A k \in 1..Len(Contents(q)) : Contents(q)[k] = EndOfStream
    <2>1. CASE finished[t][i]
      BY <2>1, <1>3, <1>6, <1>7, <1>9, TransitFacts
    <2>2. CASE full[q] # <<>> /\ Head(full[q]) = EndOfStream
      <3>1. /\ Contents(q) # <<>> /\ Head(Contents(q)) = Read[Head(full[q])]
            /\ Head(full[q]) \in S
        BY <2>2, <1>3, MappedTail DEF Contents
      <3>2. Head(Contents(q)) = EndOfStream
        BY <3>1, <2>2, <1>4, <1>5
      <3> QED BY <3>1, <3>2, <1>3, <1>6, <1>9, TransitEnd
    <2> QED BY <2>1, <2>2
  <1>11. LeftBehind(q)
    BY <1>2, <1>10 DEF StreamInv
  <1>12. \A k \in 1..Len(full[q]) : full[q][k] = EndOfStream
    BY <1>4, <1>5, <1>6, <1>10
  <1>13. DOMAIN full[q] = 1..Len(full[q])
    BY <1>3, LenProperties
  <1>14. Range(full[q]) \subseteq {EndOfStream}
    BY <1>12, <1>13 DEF Range
  <1> QED BY <1>11, <1>14

----------------------------------------------------------------------------
(* Who writes to a buffer, and who reads from a queue                      *)

(* What was written behind an item stays so. *)
LEMMA WrittenBehindStays ==
    ASSUME TypeInv, [Next]_vars, NEW q \in Queue, WrittenBehind(q)
    PROVE  WrittenBehind(q)'
  <1>1. q[1] \in Task
    BY ConstantsType
  <1>2. CASE \E u \in Task : Run(u)
    <2>1. PICK u \in Task : Run(u)
      BY <1>2
    <2>2. UNCHANGED aborted
      BY <2>1, OwnStep
    <2>3. ASSUME Quit(q[1]) PROVE Quit(q[1])'
      <3>1. pc[u] # "done"
        BY <2>1 DEF Run, PopInput, SkipInput, Stop, Proceed, Fail, GotInputs, PopOut, Generate,
           Process, Reduce, Reget, Regenerate, Push, BroadcastCopy, ReleaseInput, Flush, Getting,
           Releasing
      <3>2. pc'[q[1]] = pc[q[1]] /\ finished'[q[1]] = finished[q[1]]
        BY <1>1, <2>1, <2>3, <3>1, OwnStep DEF Quit
      <3> QED BY <2>3, <3>2 DEF Quit, AllFinished
    <2> QED BY <2>2, <2>3 DEF WrittenBehind
  <1>3. CASE Abort \/ UNCHANGED vars
    <2>1. UNCHANGED <<pc, finished>> /\ (aborted => aborted')
      BY <1>3 DEF Abort, vars, threadVars
    <2> QED BY <2>1 DEF WrittenBehind, Quit, AllFinished
  <1> QED BY <1>2, <1>3 DEF Next, Joined

(* What is not sent was not received. *)
LEMMA NothingRead ==
    ASSUME SInv, NEW t \in Task, NEW i \in 1..NInputs(t), Alone(t, i), NEW q, q = Sole(t, i),
           Range(sent[q]) \cap Nat = {}
    PROVE  Range(got[q]) \cap Nat = {}
  <1>1. /\ q \in Streams /\ q \in Queue /\ Range(InQueues[t][i]) = {q}
        /\ Open(q) <=> ~ Outlived(t, i)
    BY SoleFacts
  <1>2. TypeInv /\ StreamInv(q)
    BY <1>1 DEF SInv, IInv
  <1>3. finished[t][i] <=> EndOfStream \in Range(got[q])
    BY <1>1 DEF SInv, EndInv
  <1>4. InTransit(sent[q], got[q], Contents(q))
    BY <1>1, <1>2, <1>3 DEF StreamInv, CutOff, Outlived
  <1>5. /\ sent[q] \in Seq(Tag) /\ got[q] \in Seq(Tag)
        /\ full[q] \in Seq(Pointer \cup {EndOfStream})
        /\ Maps(Read, Pointer \cup {EndOfStream}, Tag)
    BY <1>1, <1>2, StreamTypes
  <1>6. Contents(q) \in Seq(Tag)
    BY <1>5, MappedFacts DEF Contents
  <1>7. Range(got[q]) \subseteq Range(sent[q])
    BY <1>4, <1>5, <1>6, TransitFacts
  <1> QED BY <1>7

(* A thread that has written to its output is about to push what it holds, *)
(* or has written behind its last item, or sent nothing yet.               *)
LEMMA WriterPushes ==
    ASSUME LInv, NEW u \in Task, Run(u), ~ BroadcastCopy(u)
    PROVE  \/ UNCHANGED data
           \/ pc'[u] \in {"push", "repush"} /\ out'[u] = out[u]
           \/ \A q \in Queue : q[1] = u =>
                 WrittenBehind(q)' \/ Range(sent[q]) \cap Nat = {}
  <1>1. /\ TypeInv /\ pc \in [Task -> PCs] /\ u \in Task /\ Unfinished(u)
        /\ UNCHANGED aborted
    BY OwnStep DEF LInv, SInv, IInv, TypeInv, TypeOK, ThreadsOK
  <1>2. CASE Generate(u) \/ Regenerate(u)
    <2>1. CASE Produce(u) /\ \E p \in {"push", "repush"} : pc' = [pc EXCEPT ![u] = p]
      <3>1. out' = out
        BY <2>1 DEF Produce
      <3>2. pc'[u] \in {"push", "repush"}
        BY <1>1, <2>1
      <3> QED BY <3>1, <3>2
    <2>2. CASE aborted
      BY <1>1, <2>2 DEF WrittenBehind
    <2>3. CASE UNCHANGED data
      BY <2>3
    <2> QED BY <1>2, <2>1, <2>2, <2>3 DEF Generate, Regenerate, NoMore
  <1>3. CASE Process(u)
    <2>1. CASE Leave(u)
      <3>1. ~ AllFinished(u) /\ UNCHANGED finished /\ pc'[u] = "done"
        BY <1>1, <1>3, <2>1 DEF Process, Leave, Unfinished
      <3>2. NInputs(u) > 0
        BY <1>3, ConstantsType, SchedulerAssumption DEF Process
      <3>3. Quit(u)'
        BY <3>1, <3>2 DEF Quit, AllFinished
      <3> QED BY <3>3 DEF WrittenBehind
    <2>2. CASE ~ Leave(u)
      BY <1>1, <1>3, <2>2 DEF Process
    <2> QED BY <2>1, <2>2
  <1>4. CASE Reduce(u)
    <2>1. Mode[u] = "reductor" /\ ~ AllFinished(u)
      BY <1>1, <1>4 DEF Reduce, Unfinished, TypeInv, Positions, Position, Reducing
    <2>2. CASE u \in MayStop
      BY <2>1, <2>2 DEF WrittenBehind
    <2>3. CASE u \notin MayStop
      <3>1. ReadsAll(u)
        BY <2>1, <2>3 DEF LInv, ReductorInv, Patient
      <3> QED BY <2>1, <3>1 DEF ReadsAll
    <2> QED BY <2>2, <2>3
  <1>5. CASE ~ (Generate(u) \/ Regenerate(u) \/ Process(u) \/ Reduce(u))
    BY <1>5 DEF Run, PopInput, PopInputBuffer, SkipInput, Stop, Proceed, Fail, PopOut, Reget,
       Push, PushScatter, PushSequential, PushOriginal, ReleaseInput, PushInputBuffer, Flush,
       groupVars
  <1> QED BY <1>2, <1>3, <1>4, <1>5

(* What is written to a buffer of q is on its way to the reader of q, or   *)
(* it was written behind the last item, or the reader had none yet.        *)
LEMMA Rewritten ==
    ASSUME LInv, TypeInv', NEW u \in Task, Run(u),
           NEW t \in Task, NEW i \in 1..NInputs(t), Alone(t, i), NEW q, q = Sole(t, i),
           NEW b \in Own(q), Value(b)' # Value(b)
    PROVE  Refilled(q, b)' \/ WrittenBehind(q)' \/ Range(got[q]) \cap Nat = {}
  <1>1. q \in Queue /\ TypeInv /\ [Next]_vars /\ IInv /\ SInv
    BY SoleFacts DEF LInv, SInv, IInv, Next
  <1>2. b \in Buffer /\ b[1] = q
    BY <1>1, OwnFacts
  <1>3. PICK w : Writes(u, w) /\ \E v : data' = [data EXCEPT ![w] = v]
    BY <1>1, <1>2, WrittenTo DEF Value
  <1>4. w = b
    BY <1>2, <1>3 DEF Value, TypeInv, TypeOK, GroupsOK
  <1>5. CASE b = out[u] /\ HoldsOutput(u)
    <2>1. OutQueue(u) \in Queue /\ OutQueue(u)[1] = u /\ b \in Reach(OutQueue(u))
      BY <1>1, <1>5, PlacesType
    <2>2. OutQueue(u) = q
      BY <1>1, <2>1, ReachesSole
    <2>3. CASE BroadcastCopy(u)
      BY <1>1, <1>5, <2>1, <2>2, <2>3 DEF BroadcastCopy, Refilled
    <2>4. CASE pc'[u] \in {"push", "repush"} /\ out'[u] = out[u]
      BY <1>5, <2>1, <2>2, <2>4 DEF Refilled
    <2>5. CASE WrittenBehind(q)' \/ Range(sent[q]) \cap Nat = {}
      BY <1>1, <2>5, NothingRead
    <2> QED BY <1>1, <1>2, <2>1, <2>2, <2>3, <2>4, <2>5, WriterPushes DEF Value
  <1>6. CASE BroadcastCopy(u) /\ b = Head(Grown(<<u, idx[u]>>, Limit(u)))
    <2>1. PICK o \in Queue : o = <<u, idx[u]>> /\ o[1] = u
      BY <1>1, <1>6, ConstantsType DEF BroadcastCopy, TypeInv, TypeOK, ThreadsOK
    <2>2. /\ ProducerPop(o, Limit(o[1])) /\ ProducerPush(o, <<b>>)
          /\ UNCHANGED finished /\ b = Head(Grown(o, Limit(o[1])))
      BY <1>6, <2>1 DEF BroadcastCopy, PushCopy
    <2>3. b \in Reach(o)'
      BY <1>1, <2>1, <2>2, PoppedFacts
    <2>4. o = q
      BY <1>1, <2>1, <2>3, ReachesSole
    <2> DEFINE S == Pointer \cup {EndOfStream}
    <2>5. full[q] \in Seq(S) /\ full \in [Queue -> Seq(S)]
      BY <1>1 DEF TypeInv, TypeOK, QueuesOK
    <2>6. full'[q] = full[q] \o <<b>>
      BY <1>1, <2>2, <2>4, <2>5 DEF ProducerPush
    <2>7. b \in S
      BY <1>2 DEF Pointer
    <2> HIDE DEF S
    <2>8. b \in Range(full'[q])
      <3>1. full'[q] = Append(full[q], b) /\ Range(Append(full[q], b)) = Range(full[q]) \cup {b}
        BY <2>5, <2>6, <2>7, AppendRange
      <3> QED BY <3>1
    <2> QED BY <2>8 DEF Refilled
  <1> QED BY <1>3, <1>4, <1>5, <1>6 DEF Writes

(* Only the pop of an input reads from a queue. *)
LEMMA ReadByPop ==
    ASSUME TypeInv, NEW u \in Task, Run(u), NEW q \in Queue, got'[q] # got[q]
    PROVE  PopInput(u) /\ idx[u] \in 1..NInputs(u) /\ InQueue(u, idx[u]) = q
  <1>1. PopInput(u)
    BY DEF Run, SkipInput, Stop, Proceed, Fail, PopOut, Generate, Produce, Process, Reduce, Reget,
       Regenerate, Push, PushScatter, PushSequential, PushOriginal, BroadcastCopy, PushCopy,
       ReleaseInput, PushInputBuffer, Flush, Leave, Finish, FinishTo, groupVars
  <1>2. got \in [Queue -> Seq(Tag)]
    BY DEF TypeInv, TypeOK, GroupsOK
  <1>3. InQueue(u, idx[u]) = q
    BY <1>1, <1>2 DEF PopInput, PopInputBuffer
  <1>4. idx[u] \in 1..NInputs(u)
    BY <1>1, ConstantsType DEF PopInput, TypeInv, TypeOK, ThreadsOK
  <1> QED BY <1>1, <1>3, <1>4

(* A new item stays on its way until its input is popped. *)
LEMMA RefilledStays ==
    ASSUME SInv, TypeInv', NEW u \in Task, Run(u),
           NEW t \in Task, NEW i \in 1..NInputs(t), Alone(t, i), NEW q, q = Sole(t, i),
           NEW b \in Own(q), Refilled(q, b), got'[q] = got[q]
    PROVE  Refilled(q, b)'
  <1>1. q \in Queue /\ TypeInv /\ IInv /\ q[1] \in Task
    BY SoleFacts, ConstantsType DEF IInv, SInv
  <1> DEFINE S == Pointer \cup {EndOfStream}
  <1>2. /\ full[q] \in Seq(S) /\ full \in [Queue -> Seq(S)]
        /\ got[q] \in Seq(Tag)
    BY <1>1 DEF TypeInv, TypeOK, QueuesOK, GroupsOK
  <1>3. b \in S /\ EndOfStream \in S /\ b # EndOfStream /\ Pointer \subseteq S
    BY <1>1, OwnFacts DEF Pointer
  <1> HIDE DEF S
  <1>4. CASE b \in Range(full[q])
    <2>1. Moves(u, q)
      BY <1>1, RunMoves
    <2>2. ~ Pops(u, q)
      <3>1. \A v \in Tag : Append(got[q], v) # got[q]
        BY <1>2
      <3>2. Content(Head(full[q])) \in Tag
        BY <1>1, StreamTypes
      <3> QED BY <3>1, <3>2 DEF Pops
    <2>3. CASE Idles(q)
      BY <1>4, <2>3 DEF Idles, Refilled
    <2>4. CASE Ends(u, q)
      <3>1. b \in Range(Append(full[q], EndOfStream))
        BY <1>2, <1>3, <1>4, AppendRange
      <3> QED BY <2>4, <3>1 DEF Ends, Refilled
    <2>5. CASE \E x, v : PushesTo(u, q, x, v)
      <3>1. PICK x : \E v : PushesTo(u, q, x, v)
        BY <2>5
      <3>2. x \in S
        BY <1>3, <3>1 DEF PushesTo
      <3>3. PICK f \in Seq(S) : f = Append(full[q], x)
        BY <1>2, <3>2, AppendRange
      <3>4. b \in Range(f)
        BY <1>2, <1>4, <3>2, <3>3, AppendRange
      <3>5. b \in Range(Append(f, EndOfStream))
        <4>1. Range(Append(f, EndOfStream)) = Range(f) \cup {EndOfStream}
          BY <1>3, AppendRange
        <4> QED BY <3>4, <4>1
      <3>6. full'[q] = f \/ full'[q] = Append(f, EndOfStream)
        BY <3>1, <3>3 DEF PushesTo
      <3> QED BY <3>4, <3>5, <3>6 DEF Refilled
    <2> QED BY <2>1, <2>2, <2>3, <2>4, <2>5 DEF Moves
  <1>5. CASE pc[q[1]] \in {"push", "repush"} /\ out[q[1]] = b
    <2>1. CASE u # q[1]
      <3>1. pc'[q[1]] = pc[q[1]] /\ out'[q[1]] = out[q[1]]
        BY <1>1, <2>1, OwnLocals
      <3> QED BY <1>5, <3>1 DEF Refilled
    <2>2. CASE u = q[1] /\ BroadcastCopy(u)
      BY <1>5, <2>2 DEF BroadcastCopy, Refilled
    <2>3. CASE u = q[1] /\ Push(u)
      <3>1. /\ HoldsOutput(u) /\ OutQueue(u) \in Queue
            /\ \E items \in {<<out[u]>>, <<out[u], EndOfStream>>} :
                 full' = [full EXCEPT ![OutQueue(u)] = @ \o items]
        BY <1>1, <2>3, PushedItems
      <3>2. b \in Reach(OutQueue(u))
        BY <1>1, <1>5, <2>3, <3>1, PlacesType
      <3>3. OutQueue(u) = q
        BY <1>1, <3>1, <3>2, ReachesSole
      <3>4. full'[q] = full[q] \o <<b>> \/ full'[q] = full[q] \o <<b, EndOfStream>>
        BY <1>1, <1>2, <1>5, <2>3, <3>1, <3>3
      <3>5. b \in Range(full'[q])
        <4>1. /\ full[q] \o <<b>> = Append(full[q], b)
              /\ full[q] \o <<b, EndOfStream>> = Append(Append(full[q], b), EndOfStream)
              /\ Range(Append(full[q], b)) = Range(full[q]) \cup {b}
              /\ Range(Append(Append(full[q], b), EndOfStream)) = Range(full[q]) \cup {b, EndOfStream}
          BY <1>2, <1>3, PushedOnce
        <4> QED BY <3>4, <4>1
      <3> QED BY <3>5 DEF Refilled
    <2>4. CASE u = q[1] /\ ~ BroadcastCopy(u) /\ ~ Push(u)
      BY <1>5, <2>4 DEF Run, PopInput, SkipInput, Stop, Proceed, Fail, PopOut, Generate, Process,
         Reduce, Reget, Regenerate, ReleaseInput, Flush, GotInputs, Getting, Releasing
    <2> QED BY <2>1, <2>2, <2>3, <2>4
  <1> QED BY <1>4, <1>5 DEF Refilled

----------------------------------------------------------------------------
(* What a step does to the rounds of a task                                *)

(* Only a call of process adds to the history of a task. *)
LEMMA LogStays ==
    ASSUME NEW t \in Task, Run(t), ~ Process(t), ~ Reduce(t)
    PROVE  UNCHANGED log
  BY DEF Run, PopInput, SkipInput, Stop, Proceed, Fail, PopOut, Generate, Produce, Reget,
     Regenerate, Push, BroadcastCopy, ReleaseInput, Flush, Leave, ghostVars

(* An input that is not popped stays what it is. *)
LEMMA InputStays ==
    ASSUME TypeInv, NEW t \in Task, Run(t), NEW i \in 1..NInputs(t),
           ~ (PopInput(t) /\ idx[t] = i)
    PROVE  inputs'[t][i] = inputs[t][i] /\ finished'[t][i] = finished[t][i]
  <1>1. CASE PopInput(t)
    <2>1. idx[t] # i
      BY <1>1
    <2>2. /\ DOMAIN finished = Task /\ DOMAIN inputs = Task
          /\ DOMAIN finished[t] = 1..NInputs(t) /\ DOMAIN inputs[t] = 1..NInputs(t)
      BY DEF TypeInv, TypeOK, InputsOK
    <2>3. inputs'[t][i] = inputs[t][i]
      BY <1>1, <2>1, <2>2 DEF PopInput
    <2>4. finished'[t][i] = finished[t][i]
      <3>1. CASE finished' = [finished EXCEPT ![t][idx[t]] = TRUE]
        BY <2>1, <2>2, <3>1
      <3>2. CASE UNCHANGED finished
        BY <3>2
      <3> QED BY <1>1, <3>1, <3>2 DEF PopInput
    <2> QED BY <2>3, <2>4
  <1>2. CASE ReleaseInput(t)
    BY <1>2 DEF ReleaseInput
  <1>3. CASE ~ PopInput(t) /\ ~ ReleaseInput(t)
    BY <1>3, InputsStay
  <1> QED BY <1>1, <1>2, <1>3

(* An item of an input is pending from its pop until it was processed.     *)
LEMMA PendingStays ==
    ASSUME TypeInv, NEW t \in Task, Run(t), ~ Process(t), ~ Reduce(t), NEW i \in 1..NInputs(t),
           ~ (PopInput(t) /\ idx[t] = i), pc'[t] \notin Flushing
    PROVE  /\ pc[t] \notin Flushing
           /\ ~ finished[t][i] => (Pending(t, i)' <=> Pending(t, i))
  <1>1. /\ pc \in [Task -> PCs] /\ idx \in [Task -> Nat \ {0}] /\ Position(t) /\ t \in Task
        /\ NInputs(t) \in Nat /\ NInputs(t) > 0
    BY ConstantsType DEF TypeInv, TypeOK, ThreadsOK, Positions
  <1>2. CASE PopInput(t) \/ SkipInput(t)
    <2>1. /\ pc[t] \in Getting /\ UNCHANGED pc
          /\ idx'[t] = idx[t] + 1
      BY <1>1, <1>2 DEF PopInput, SkipInput
    <2>2. finished[t][i] \/ idx[t] # i
      BY <1>2 DEF SkipInput
    <2>3. i < idx[t] + 1 <=> i < idx[t] \/ i = idx[t]
      BY <1>1
    <2> QED BY <1>1, <2>1, <2>2, <2>3 DEF Pending
  <1>3. CASE Stop(t) \/ Fail(t)
    <2>1. pc'[t] = "done" \/ pc'[t] = "flush"
      BY <1>1, <1>3 DEF Stop, Fail, Leave
    <2> QED BY <2>1 DEF Flushing
  <1>4. CASE Proceed(t)
    <2>1. pc[t] = "get" /\ i < idx[t] /\ pc'[t] \in {"work", "popout"}
      BY <1>1, <1>4 DEF Proceed, GotInputs
    <2> QED BY <2>1 DEF Pending, Flushing
  <1>5. CASE PopOut(t)
    <2>1. pc[t] \in {"popout", "repopout"}
      BY <1>5 DEF PopOut
    <2>2. pc[t] = "repopout" => pc'[t] = "regenerate"
      BY <1>1, <1>5 DEF PopOut
    <2>3. pc[t] = "popout" => pc'[t] \in {"reduce", "work"}
      BY <1>1, <1>5 DEF PopOut
    <2> QED BY <2>1, <2>2, <2>3 DEF Pending, Flushing
  <1>6. ~ Generate(t)
    BY <1>1, SchedulerAssumption DEF Generate
  <1>7. CASE Reget(t)
    <2>1. pc[t] = "reget" /\ i < idx[t] /\ pc'[t] \in {"reduce", "regenerate"}
      BY <1>1, <1>7 DEF Reget, GotInputs
    <2> QED BY <2>1 DEF Pending, Flushing
  <1>8. CASE Regenerate(t)
    <2>1. pc[t] = "regenerate" /\ pc'[t] \in {"repush", "reduce", "done"}
      BY <1>1, <1>8 DEF Regenerate, Leave
    <2> QED BY <2>1 DEF Pending, Flushing
  <1>9. CASE Push(t)
    <2>1. pc[t] \in {"push", "repush"} /\ pc'[t] = AfterPush(t)
      BY <1>1, <1>9 DEF Push
    <2>2. pc[t] = "push" => pc'[t] = "release"
      BY <1>1, <2>1 DEF AfterPush
    <2>3. pc[t] = "repush" => pc'[t] = "repopout"
      BY <1>1, <2>1 DEF AfterPush
    <2> QED BY <2>1, <2>2, <2>3 DEF Pending, Flushing
  <1>10. CASE BroadcastCopy(t)
    <2>1. pc[t] \in {"push", "repush"} /\ UNCHANGED pc
      BY <1>10 DEF BroadcastCopy
    <2> QED BY <2>1 DEF Pending, Flushing
  <1>11. CASE ReleaseInput(t)
    <2>1. pc[t] \in Releasing
      BY <1>11 DEF ReleaseInput
    <2>2. pc'[t] = pc[t] \/ (pc'[t] = AfterRelease(t) /\ idx'[t] = 1)
      BY <1>1, <1>11 DEF ReleaseInput
    <2>3. pc[t] = "flushrelease" => pc'[t] \in Flushing
      <3>1. pc[t] = "flushrelease" => AfterRelease(t) = "flush"
        BY DEF AfterRelease
      <3> QED BY <2>2, <3>1 DEF Flushing
    <2>4. pc[t] = "release" => AfterRelease(t) = "get"
      BY DEF AfterRelease
    <2>5. pc[t] = "rerelease" => AfterRelease(t) = "reget"
      BY DEF AfterRelease
    <2>6. ~ Pending(t, i) /\ pc[t] \notin Flushing
      BY <2>1, <2>3 DEF Pending, Releasing, Flushing
    <2>7. ~ (i < 1)
      BY <1>1
    <2>8. ~ Pending(t, i)'
      BY <2>1, <2>2, <2>3, <2>4, <2>5, <2>7 DEF Pending, Releasing
    <2> QED BY <2>6, <2>8
  <1>12. CASE Flush(t)
    <2>1. pc'[t] \in Flushing
      BY <1>1, <1>12 DEF Flush, Leave, Flushing
    <2> QED BY <2>1
  <1> QED BY <1>2, <1>3, <1>4, <1>5, <1>6, <1>7, <1>8, <1>9, <1>10, <1>11, <1>12 DEF Run

----------------------------------------------------------------------------
(* The inputs stay aligned                                                 *)

LEMMA GotStays ==
    ASSUME TypeInv, NEW u \in Task, Run(u), NEW t \in Task, NEW i \in 1..NInputs(t), Alone(t, i),
           ~ (u = t /\ PopInput(t) /\ idx[t] = i)
    PROVE  got'[Sole(t, i)] = got[Sole(t, i)]
  <1>1. SUFFICES ASSUME got'[Sole(t, i)] # got[Sole(t, i)] PROVE FALSE
    OBVIOUS
  <1>2. Sole(t, i) \in Queue
    BY SoleFacts
  <1>3. PopInput(u) /\ idx[u] \in 1..NInputs(u) /\ InQueue(u, idx[u]) = Sole(t, i)
    BY <1>1, <1>2, ReadByPop
  <1>4. Sole(t, i) \in Range(InQueues[u][idx[u]])
    BY <1>3, InQueueFacts
  <1>5. u = t /\ idx[u] = i
    BY <1>3, <1>4, SoleFacts
  <1> QED BY <1>3, <1>5

LEMMA LastReadStays ==
    ASSUME LInv, TypeInv', NEW u \in Task, Run(u),
           NEW t \in Task, NEW i \in 1..NInputs(t), Alone(t, i), NEW q, q = Sole(t, i),
           NEW b, NEW items, NEW n, LastRead(q, b, items, n),
           ~ (u = t /\ PopInput(t) /\ idx[t] = i)
    PROVE  LastRead(q, b, items, n)'
  <1>1. q \in Queue /\ TypeInv /\ IInv /\ SInv /\ [Next]_vars
    BY SoleFacts DEF LInv, IInv, SInv, Next
  <1>2. SUFFICES ASSUME n > 0
                 PROVE  /\ Range(got'[q]) \cap Nat # {}
                        /\ b \in Own(q)'
                        /\ Value(b)' = items[n] \/ Refilled(q, b)' \/ WrittenBehind(q)'
    BY DEF LastRead
  <1>3. /\ Range(got[q]) \cap Nat # {} /\ b \in Own(q)
        /\ Value(b) = items[n] \/ Refilled(q, b) \/ WrittenBehind(q)
    BY <1>2 DEF LastRead
  <1>4. b \in Own(q)'
    BY <1>1, <1>3, Grows
  <1>5. got'[q] = got[q]
    BY <1>1, GotStays
  <1>6. CASE Refilled(q, b)
    <2>1. Refilled(q, b)'
      BY <1>1, <1>3, <1>5, <1>6, RefilledStays
    <2> QED BY <1>3, <1>4, <1>5, <2>1
  <1>7. CASE Value(b)' # Value(b)
    BY <1>1, <1>3, <1>4, <1>5, <1>7, Rewritten
  <1>8. CASE WrittenBehind(q)
    BY <1>1, <1>3, <1>4, <1>5, <1>8, WrittenBehindStays
  <1> QED BY <1>3, <1>4, <1>5, <1>6, <1>7, <1>8

LEMMA LoggedStays ==
    ASSUME TypeInv, [Next]_vars, NEW q \in Queue, NEW calls, NEW i, NEW items, NEW n, NEW m,
           Logged(calls, i, q, items, n, m)
    PROVE  Logged(calls, i, q, items, n, m)'
  <1>1. WrittenBehind(q) => WrittenBehind(q)'
    BY WrittenBehindStays
  <1> QED BY <1>1 DEF Logged

(* Steps of other threads, and those of t that neither pop the input nor   *)
(* process it.                                                             *)
LEMMA KeepAligned ==
    ASSUME LInv, TypeInv', NEW u \in Task, Run(u),
           NEW t \in Task, NEW i \in 1..NInputs(t), Alone(t, i),
           u = t => ~ (PopInput(t) /\ idx[t] = i) /\ ~ Process(t) /\ ~ Reduce(t)
    PROVE  InputPaired(t, i)'
  <1>1. PICK q : q = Sole(t, i)
    OBVIOUS
  <1>2. SInv /\ IInv /\ TypeInv /\ InputPaired(t, i)
    BY DEF LInv, SInv, IInv
  <1>3. got'[q] = got[q]
    BY <1>1, <1>2, GotStays
  <1>4. PICK items : items = Items(got[q])
    OBVIOUS
  <1>5. PICK n : n = Len(items)
    OBVIOUS
  <1>6. PICK m : m = Len(log[t])
    OBVIOUS
  <1>7. PICK b : b = inputs[t][i]
    OBVIOUS
  <1>8. Paired(t, i, q, items, n, m)
    BY <1>1, <1>2, <1>4, <1>5, <1>6 DEF InputPaired
  <1>9. log'[t] = log[t] /\ inputs'[t][i] = b /\ finished'[t][i] = finished[t][i]
    <2>1. CASE u = t
      BY <1>2, <1>7, <2>1, LogStays, InputStays
    <2>2. CASE u # t
      BY <1>2, <1>7, <2>2, OwnLocals
    <2> QED BY <2>1, <2>2
  <1>10. LastRead(q, b, items, n)'
    <2>1. LastRead(q, b, items, n)
      BY <1>7, <1>8 DEF Paired
    <2> QED BY <1>1, <1>2, <2>1, LastReadStays
  <1>11. InStep(t, i, n, m)'
    <2>1. InStep(t, i, n, m)
      BY <1>8 DEF Paired
    <2>2. CASE u # t
      <3>1. pc'[t] = pc[t] /\ idx'[t] = idx[t]
        BY <1>2, <2>2, OwnLocals
      <3> QED BY <1>9, <2>1, <3>1 DEF InStep, Pending
    <2>3. CASE u = t
      <3>1. pc'[t] \notin Flushing => /\ pc[t] \notin Flushing
                                      /\ ~ finished[t][i] => (Pending(t, i)' <=> Pending(t, i))
        BY <1>2, <2>3, PendingStays
      <3> QED BY <1>9, <2>1, <3>1 DEF InStep
    <2> QED BY <2>2, <2>3
  <1>12. Logged(log[t], i, q, items, n, m)'
    <2>1. PICK calls : calls = log[t]
      OBVIOUS
    <2>2. Logged(calls, i, q, items, n, m)
      BY <1>8, <2>1 DEF Paired
    <2>3. q \in Queue /\ [Next]_vars
      BY <1>1, SoleFacts DEF Next
    <2>4. Logged(calls, i, q, items, n, m)'
      BY <1>2, <2>2, <2>3, LoggedStays
    <2> QED BY <1>9, <2>1, <2>4
  <1>13. Paired(t, i, q, items, n, m)'
    BY <1>9, <1>10, <1>11, <1>12 DEF Paired
  <1> QED BY <1>1, <1>3, <1>4, <1>5, <1>6, <1>9, <1>13 DEF InputPaired, Sole

(* The pop of an item begins a round, that of an end marker changes        *)
(* nothing: the last buffer, given back long ago, keeps the last item.     *)
LEMMA PopAligned ==
    ASSUME LInv, TypeInv', NEW t \in Task, PopInput(t), NEW i \in 1..NInputs(t), Alone(t, i),
           idx[t] = i
    PROVE  InputPaired(t, i)'
  <1>1. PICK q : q = Sole(t, i)
    OBVIOUS
  <1>2. /\ SInv /\ IInv /\ TypeInv /\ InputPaired(t, i)
        /\ q \in Queue /\ q \in Streams /\ InQueue(t, i) = q /\ Range(InQueues[t][i]) = {q}
        /\ Open(q) <=> ~ Outlived(t, i)
    BY <1>1, SoleFacts DEF LInv, SInv, IInv
  <1>3. /\ got \in [Queue -> Seq(Tag)] /\ log \in [Task -> Seq(Seq(Nat))]
        /\ idx \in [Task -> Nat \ {0}] /\ data \in [Buffer -> Nat]
        /\ DOMAIN finished = Task /\ DOMAIN inputs = Task
        /\ DOMAIN finished[t] = 1..NInputs(t) /\ DOMAIN inputs[t] = 1..NInputs(t)
        /\ \A j \in 1..NInputs(t) : finished[t][j] \in BOOLEAN
    BY <1>2 DEF TypeInv, TypeOK, GroupsOK, InputsOK, GhostsOK, ThreadsOK
  <1>4. PICK g \in Seq(Tag) : g = got[q]
    BY <1>2, <1>3
  <1>5. PICK items : items = Items(g)
    OBVIOUS
  <1>6. PICK n \in Nat : n = Len(items)
    BY <1>4, <1>5, ItemsFacts
  <1>7. PICK m \in Nat : m = Len(log[t])
    BY <1>3, LenProperties
  <1>8. PICK b : b = inputs[t][i]
    OBVIOUS
  <1>9. /\ InStep(t, i, n, m) /\ LastRead(q, b, items, n) /\ Logged(log[t], i, q, items, n, m)
    BY <1>1, <1>2, <1>4, <1>5, <1>6, <1>7, <1>8 DEF InputPaired, Paired
  <1>10. PICK x : x = Head(full[q])
    OBVIOUS
  <1>11. /\ ~ finished[t][i] /\ pc[t] \in Getting /\ full[q] # <<>>
         /\ got'[q] = Append(g, Content(x))
         /\ inputs'[t][i] = NewInput(b, x)
         /\ UNCHANGED <<pc, log, data, capacity>>
         /\ idx'[t] = i + 1
         /\ finished' = IF x = EndOfStream THEN [finished EXCEPT ![t][i] = TRUE] ELSE finished
    BY <1>2, <1>3, <1>4, <1>8, <1>10 DEF PopInput, PopInputBuffer, ConsumerPop, InBuffer
  <1>12. finished'[t][i] <=> x = EndOfStream
    BY <1>3, <1>11
  <1>13. Open(q) /\ EndOfStream \notin Range(g)
    BY <1>2, <1>4, <1>11 DEF SInv, EndInv, Outlived
  <1>14. /\ pc[t] \notin Flushing => n = m
         /\ m <= n
    <2>1. ~ Pending(t, i)
      BY <1>11, <1>3 DEF Pending, Getting
    <2> QED BY <1>9, <1>11, <2>1 DEF InStep
  <1>15. Own(q)' = Own(q)
    BY <1>11 DEF Own
  <1>18. Content(x) \in Tag /\ Range(Append(g, Content(x))) = Range(g) \cup {Content(x)}
    <2>1. Content(x) \in Tag
      BY <1>2, StreamTypes
    <2> QED BY <2>1, AppendRange
  <1>19. [Next]_vars
    BY DEF Next, Run
  <1>16. CASE x = EndOfStream
    <2>1. Items(got'[q]) = items /\ inputs'[t][i] = b
      BY <1>4, <1>5, <1>11, <1>13, <1>16, ItemsFacts DEF Content, NewInput
    <2>2. InStep(t, i, n, m)'
      BY <1>11, <1>12, <1>14, <1>16 DEF InStep
    <2>3. LastRead(q, b, items, n)'
      <3>1. SUFFICES ASSUME n > 0
                     PROVE  /\ Range(got'[q]) \cap Nat # {}
                            /\ b \in Own(q)'
                            /\ Value(b)' = items[n] \/ WrittenBehind(q)'
        BY DEF LastRead
      <3>2. /\ Range(g) \cap Nat # {} /\ b \in Own(q)
            /\ Value(b) = items[n] \/ Refilled(q, b) \/ WrittenBehind(q)
        BY <1>4, <1>9, <3>1 DEF LastRead
      <3>3. LeftBehind(q) /\ Range(full[q]) \subseteq {EndOfStream}
        BY <1>1, <1>2, <1>10, <1>11, <1>16, EndedInput
      <3>4. ~ Refilled(q, b)
        BY <1>1, <1>2, <3>2, <3>3, NotRefilled
      <3>5. Range(got'[q]) \cap Nat # {}
        BY <1>11, <1>18, <3>2
      <3> QED BY <1>2, <1>11, <1>15, <1>19, <3>2, <3>4, <3>5, WrittenBehindStays DEF Value
    <2>5. Logged(log[t], i, q, items, n, m)'
      <3>1. PICK calls : calls = log[t]
        OBVIOUS
      <3>2. Logged(calls, i, q, items, n, m)'
        BY <1>2, <1>9, <1>19, <3>1, LoggedStays
      <3> QED BY <1>11, <3>1, <3>2
    <2>4. Paired(t, i, q, items, n, m)'
      BY <1>11, <2>1, <2>2, <2>3, <2>5 DEF Paired
    <2> QED BY <1>1, <1>6, <1>7, <1>11, <2>1, <2>4 DEF InputPaired, Sole
  <1>17. CASE x # EndOfStream
    <2>1. x \in Own(q)
      <3>1. Range(full[q]) \subseteq Own(q) \cup {EndOfStream}
        BY <1>2, <1>13 DEF IInv, QueueInv
      <3>2. full[q] \in Seq(Pointer \cup {EndOfStream})
        BY <1>2 DEF TypeInv, TypeOK, QueuesOK
      <3>3. x \in Range(full[q])
        BY <1>10, <1>11, <3>2, TailRange
      <3> QED BY <1>17, <3>1, <3>3
    <2>2. PICK v \in Nat : v = Value(x)
      BY <1>2, ValueType DEF TypeInv
    <2>3. PICK items2 : items2 = Append(g, v)
      OBVIOUS
    <2>4. Items(got'[q]) = items2 /\ items = g /\ inputs'[t][i] = x
      BY <1>4, <1>5, <1>11, <1>13, <1>17, <2>2, <2>3, ItemsFacts DEF Content, NewInput
    <2>5. /\ Len(items2) = n + 1 /\ items2[n + 1] = v
          /\ \A k \in 1..n : items2[k] = items[k]
      <3>1. g \in Seq(Tag) /\ v \in Tag /\ n = Len(g)
        BY <1>6, <2>4 DEF Tag
      <3> QED BY <2>3, <2>4, <3>1, AppendProperties
    <2>6. InStep(t, i, n + 1, m)'
      <3>1. pc[t] \notin Flushing => Pending(t, i)'
        BY <1>3, <1>11 DEF Pending, Getting, Flushing
      <3> QED BY <1>11, <1>12, <1>14, <1>17, <3>1 DEF InStep
    <2>7. LastRead(q, x, items2, n + 1)'
      <3>1. Value(x)' = items2[n + 1]
        BY <1>11, <2>2, <2>5 DEF Value
      <3>2. Range(got'[q]) \cap Nat # {}
        BY <1>11, <1>17, <1>18, <2>2 DEF Content
      <3> QED BY <1>15, <2>1, <3>1, <3>2 DEF LastRead
    <2>8. Logged(log[t], i, q, items2, n + 1, m)'
      <3>1. SUFFICES ASSUME NEW k \in 1..m
                     PROVE  log[t][k][i] = items2[IF k <= n + 1 THEN k ELSE n + 1]
        BY <1>11 DEF Logged
      <3>2. k \in 1..n /\ n > 0 /\ k <= n + 1
        BY <1>14
      <3>3. log[t][k][i] = items[k]
        BY <1>9, <3>2 DEF Logged
      <3> QED BY <2>5, <3>2, <3>3
    <2>9. Paired(t, i, q, items2, n + 1, m)'
      BY <1>11, <2>4, <2>6, <2>7, <2>8 DEF Paired
    <2> QED BY <1>1, <1>7, <1>11, <2>4, <2>5, <2>9 DEF InputPaired, Sole
  <1> QED BY <1>16, <1>17

(* A call of process ends the round.                                       *)
LEMMA ProcessAligned ==
    ASSUME LInv, TypeInv', NEW t \in Task, Process(t) \/ Reduce(t), NEW i \in 1..NInputs(t),
           Alone(t, i)
    PROVE  InputPaired(t, i)'
  <1>1. PICK q : q = Sole(t, i)
    OBVIOUS
  <1>2. /\ SInv /\ IInv /\ TypeInv /\ InputPaired(t, i)
        /\ q \in Queue /\ q \in Streams /\ InQueue(t, i) = q /\ Range(InQueues[t][i]) = {q}
    BY <1>1, SoleFacts DEF LInv, SInv, IInv
  <1>3. /\ got \in [Queue -> Seq(Tag)] /\ log \in [Task -> Seq(Seq(Nat))]
        /\ pc \in [Task -> PCs]
    BY <1>2 DEF TypeInv, TypeOK, GroupsOK, ThreadsOK, GhostsOK
  <1>4. PICK g \in Seq(Tag) : g = got[q]
    BY <1>2, <1>3
  <1>5. PICK items : items = Items(g)
    OBVIOUS
  <1>6. PICK n \in Nat : n = Len(items)
    BY <1>4, <1>5, ItemsFacts
  <1>7. PICK m \in Nat : m = Len(log[t])
    BY <1>3, LenProperties
  <1>8. PICK b : b = inputs[t][i]
    OBVIOUS
  <1>9. /\ InStep(t, i, n, m) /\ LastRead(q, b, items, n) /\ Logged(log[t], i, q, items, n, m)
    BY <1>1, <1>2, <1>4, <1>5, <1>6, <1>7, <1>8 DEF InputPaired, Paired
  <1>10. Run(t) /\ ~ PopInput(t) /\ ~ ReleaseInput(t)
    BY DEF Run, Process, Reduce, PopInput, ReleaseInput, Getting, Releasing
  <1>11. /\ pc[t] \in {"work", "reduce"}
         /\ pc'[t] \in {"release", "push", "rerelease", "done"}
         /\ Consume(t)
    BY <1>3 DEF Process, Reduce, Leave
  <1>12. inputs'[t][i] = b /\ finished'[t][i] = finished[t][i] /\ got'[q] = g
    BY <1>1, <1>2, <1>4, <1>8, <1>10, InputsStay, GotStays
  <1>13. PICK call : call = [j \in 1..NInputs(t) |-> Value(inputs[t][j])]
    OBVIOUS
  <1>14. log'[t] = Append(log[t], call) /\ call[i] = Value(b) /\ call \in Seq(Nat)
    <2>1. log' = [log EXCEPT ![t] = Append(@, call)]
      BY <1>11, <1>13 DEF Consume
    <2>2. log'[t] = Append(log[t], call)
      BY <1>3, <2>1
    <2>3. call[i] = Value(b)
      BY <1>8, <1>13
    <2>4. call \in Seq(Nat)
      <3>1. NInputs(t) \in Nat /\ \A x : Value(x) \in Nat
        BY <1>2, ValueType, ConstantsType DEF TypeInv
      <3>2. \A j \in 1..NInputs(t) : Value(inputs[t][j]) \in Nat
        BY <3>1
      <3> QED BY <1>13, <3>1, <3>2
    <2> QED BY <2>2, <2>3, <2>4
  <1>15. Len(log'[t]) = m + 1 /\ log'[t][m + 1] = call /\ \A k \in 1..m : log'[t][k] = log[t][k]
    <2>1. PICK l \in Seq(Seq(Nat)) : l = log[t]
      BY <1>3
    <2> QED BY <1>7, <1>14, <2>1, AppendProperties
  <1>16. IF finished[t][i] THEN n <= m ELSE n = m + 1
    BY <1>9, <1>11 DEF InStep, Flushing, Pending
  <1>17. InStep(t, i, n, m + 1)'
    <2>1. ~ Pending(t, i)'
      BY <1>11 DEF Pending
    <2> QED BY <1>12, <1>16, <2>1 DEF InStep
  <1>18. LastRead(q, b, items, n)'
    BY <1>1, <1>2, <1>9, <1>10, LastReadStays
  <1>19. n > 0 /\ (finished[t][i] => ~ WrittenBehind(q)) => Value(b) = items[n]
    <2>1. CASE ~ finished[t][i]
      <3>1. Reading(t, i)
        BY <1>11, <2>1 DEF Reading, Getting, Releasing
      <3>2. g # <<>> /\ Value(b) = g[Len(g)]
        BY <1>2, <1>4, <1>8, <3>1 DEF LInv, AllRead, ReadInv
      <3>3. EndOfStream \notin Range(g)
        BY <1>2, <1>4, <2>1 DEF SInv, EndInv
      <3>4. items = g
        BY <1>4, <1>5, <3>3, ItemsFacts
      <3> QED BY <1>6, <3>2, <3>4
    <2>2. CASE finished[t][i] /\ n > 0 /\ ~ WrittenBehind(q)
      <3>1. b \in Own(q) /\ (Value(b) = items[n] \/ Refilled(q, b))
        BY <1>9, <2>2 DEF LastRead
      <3>2. LeftBehind(q) /\ Range(full[q]) \subseteq {EndOfStream}
        BY <1>1, <1>2, <2>2, EndedInput
      <3>3. ~ Refilled(q, b)
        BY <1>1, <1>2, <3>1, <3>2, NotRefilled
      <3> QED BY <3>1, <3>3
    <2> QED BY <2>1, <2>2
  <1>20. Logged(log[t], i, q, items, n, m + 1)'
    <2>1. SUFFICES ASSUME n > 0, NEW k \in 1..m + 1, k <= n \/ ~ WrittenBehind(q)'
                   PROVE  log'[t][k][i] = items[IF k <= n THEN k ELSE n]
      BY DEF Logged
    <2>4. k <= n \/ ~ WrittenBehind(q)
      BY <1>2, <1>10, <2>1, WrittenBehindStays DEF Next
    <2>2. CASE k = m + 1
      <3>1. (IF k <= n THEN k ELSE n) = n
        BY <1>16, <2>2
      <3>2. finished[t][i] => ~ WrittenBehind(q)
        BY <1>16, <2>2, <2>4
      <3> QED BY <1>14, <1>15, <1>19, <2>1, <2>2, <3>1, <3>2
    <2>3. CASE k \in 1..m
      BY <1>9, <1>15, <2>1, <2>3, <2>4 DEF Logged
    <2> QED BY <2>2, <2>3
  <1>21. Paired(t, i, q, items, n, m + 1)'
    BY <1>12, <1>17, <1>18, <1>20 DEF Paired
  <1> QED BY <1>1, <1>5, <1>6, <1>12, <1>15, <1>21 DEF InputPaired, Sole

LEMMA UnfinishedNext ==
    ASSUME TypeInv, [Next]_vars, NEW t \in Task, Unfinished(t)
    PROVE  Unfinished(t)'
  <1>1. CASE Abort \/ UNCHANGED vars
    BY <1>1 DEF Abort, vars, threadVars, Unfinished, AllFinished
  <1>2. ASSUME NEW u \in Task \ {t}, Run(u) PROVE Unfinished(t)'
    <2>1. pc'[t] = pc[t] /\ finished'[t] = finished[t]
      BY <1>2, OwnStep
    <2> QED BY <2>1 DEF Unfinished, AllFinished
  <1>3. ASSUME Run(t), pc'[t] \in {"popout", "work", "reduce"} PROVE ~ AllFinished(t)'
    <2>1. pc \in [Task -> PCs]
      BY DEF TypeInv, TypeOK, ThreadsOK
    <2>2. UNCHANGED finished /\ ~ AllFinished(t)
      <3>1. CASE Proceed(t) \/ Reget(t) \/ Regenerate(t)
        BY <1>3, <2>1, <3>1 DEF Proceed, Reget, Regenerate, Produce, Leave
      <3>2. CASE PopOut(t)
        BY <1>3, <2>1, <3>2 DEF PopOut, Unfinished
      <3>3. ~ (PopInput(t) \/ SkipInput(t) \/ Generate(t) \/ Process(t) \/ Reduce(t)
               \/ BroadcastCopy(t))
        BY <1>3, <2>1 DEF PopInput, SkipInput, Generate, Process, Reduce, BroadcastCopy, Getting,
           Leave
      <3>4. ~ (Stop(t) \/ Fail(t) \/ Push(t) \/ ReleaseInput(t) \/ Flush(t))
        BY <1>3, <2>1 DEF Stop, Fail, Push, AfterPush, ReleaseInput, AfterRelease, Flush, Leave,
           Releasing
      <3> QED BY <1>3, <3>1, <3>2, <3>3, <3>4 DEF Run
    <2> QED BY <2>2 DEF AllFinished
  <1> QED BY <1>1, <1>2, <1>3 DEF Next, Joined, Unfinished

LEMMA AlignInit == Init => LInv
  <1> SUFFICES ASSUME Init PROVE LInv
    OBVIOUS
  <1>1. SInv /\ AllRead /\ ReductorInv
    BY StreamInit, ReadInit, ReadsAllInit
  <1>3. \A t \in Task : Unfinished(t)
    BY DEF Init, InitOf, Unfinished
  <1>2. ASSUME NEW t \in Task, NEW i \in 1..NInputs(t), Alone(t, i) PROVE InputPaired(t, i)
    <2>1. PICK q : q = Sole(t, i)
      OBVIOUS
    <2>2. q \in Queue /\ NInputs(t) \in Nat
      BY <1>2, <2>1, SoleFacts, ConstantsType
    <2>3. got[q] = <<>> /\ log[t] = <<>> /\ pc[t] = "get" /\ idx[t] = 1 /\ ~ finished[t][i]
      BY <2>2 DEF Init, InitOf, InitGroups
    <2>4. Items(<<>>) = <<>> /\ Len(<<>>) = 0 /\ 1..0 = {}
      BY DEF Items
    <2>5. ~ Pending(t, i)
      BY <2>2, <2>3 DEF Pending
    <2>6. /\ InStep(t, i, 0, 0) /\ LastRead(q, inputs[t][i], <<>>, 0)
          /\ Logged(<<>>, i, q, <<>>, 0, 0)
      BY <2>3, <2>5 DEF InStep, LastRead, Logged
    <2> QED BY <2>1, <2>3, <2>4, <2>6 DEF InputPaired, Paired
  <1> QED BY <1>1, <1>2, <1>3 DEF LInv

LEMMA AlignNext == LInv /\ [Next]_vars => LInv'
  <1> SUFFICES ASSUME LInv, [Next]_vars PROVE LInv'
    OBVIOUS
  <1>1. SInv /\ AllRead /\ IInv
    BY DEF LInv, SInv
  <1>2. SInv' /\ AllRead' /\ ReductorInv' /\ \A t \in Task : Unfinished(t)'
    BY <1>1, StreamNext, ReadNext, ReadsAllNext, UnfinishedNext DEF LInv, IInv
  <1>3. TypeInv'
    BY <1>2 DEF SInv, IInv
  <1>4. ASSUME NEW t \in Task, NEW i \in 1..NInputs(t), Alone(t, i) PROVE InputPaired(t, i)'
    <2>1. InputPaired(t, i)
      BY <1>4 DEF LInv
    <2>2. CASE \E u \in Task : Run(u)
      <3>1. PICK u \in Task : Run(u)
        BY <2>2
      <3>2. CASE u = t /\ PopInput(t) /\ idx[t] = i
        BY <1>3, <1>4, <3>2, PopAligned
      <3>3. CASE u = t /\ (Process(t) \/ Reduce(t))
        BY <1>3, <1>4, <3>3, ProcessAligned
      <3>4. CASE u = t => ~ (PopInput(t) /\ idx[t] = i) /\ ~ Process(t) /\ ~ Reduce(t)
        BY <1>3, <1>4, <3>1, <3>4, KeepAligned
      <3> QED BY <3>2, <3>3, <3>4
    <2>3. CASE UNCHANGED <<queueVars, groupVars, threadVars, failed, ghostVars>>
      <3>1. WrittenBehind(Sole(t, i)) => WrittenBehind(Sole(t, i))'
        BY <1>1, <1>4, SoleFacts, WrittenBehindStays DEF IInv
      <3> QED BY <2>1, <2>3, <3>1 DEF InputPaired, Paired, InStep, LastRead, Logged, Pending,
              Refilled, Own, Value, Sole, queueVars, groupVars, threadVars, ghostVars
    <2> QED BY <2>2, <2>3 DEF Next, Abort, Joined, vars
  <1> QED BY <1>2, <1>4 DEF LInv

(* The inputs of a task are aligned, whatever the graph: in the k-th call  *)
(* of process each input with one queue holds its k-th item, or its last   *)
(* one when it has ended and nothing was written behind it (get_inputs,    *)
(* release_inputs).                                                        *)
THEOREM InputsAlignedCorrect == Spec => []InputsAligned
  <1>1. LInv => InputsAligned
    <2> SUFFICES ASSUME LInv, NEW t \in Task, NEW k \in DOMAIN log[t], NEW i \in 1..NInputs(t),
                        Len(InQueues[t][i]) = 1,
                        NEW q, q = InQueues[t][i][1], ~ Wraps(q[1]),
                        NEW items, items = Items(got[q]), items # <<>>,
                        ~ (k > Len(items) /\ WrittenBehind(q))
                 PROVE  log[t][k][i] = items[IF k <= Len(items) THEN k ELSE Len(items)]
      BY DEF InputsAligned
    <2>1. Alone(t, i) /\ q = Sole(t, i)
      BY DEF Alone, Sole
    <2>2. TypeInv /\ InputPaired(t, i) /\ q \in Queue
      BY <2>1, SoleFacts DEF LInv, SInv, IInv
    <2>3. log[t] \in Seq(Seq(Nat)) /\ got[q] \in Seq(Tag)
      BY <2>2 DEF TypeInv, TypeOK, GroupsOK, GhostsOK
    <2>4. k \in 1..Len(log[t])
      BY <2>3, LenProperties
    <2>5. items \in Seq(Tag) /\ Len(items) \in Nat /\ Len(items) > 0
      BY <2>3, ItemsFacts, EmptySeq
    <2>6. Logged(log[t], i, q, items, Len(items), Len(log[t]))
      BY <2>1, <2>2 DEF InputPaired, Paired
    <2>7. k <= Len(items) \/ ~ WrittenBehind(q)
      BY <2>4, <2>5
    <2> QED BY <2>4, <2>5, <2>6, <2>7 DEF Logged
  <1> QED BY <1>1, AlignInit, AlignNext, PTL DEF Spec

----------------------------------------------------------------------------
(* How a run ends                                                          *)

(* Every input has one queue, which does not start over, and every queue   *)
(* is an input.                                                            *)
Plain ==
    /\ \A t \in Task : \A i \in 1..NInputs(t) : Alone(t, i)
    /\ \A q \in Queue : \E t \in Task : \E i \in 1..NInputs(t) : q = Sole(t, i)

Reader(q) == Targets[q[1]][q[2]]

EdgesWithin(D) == {q \in Queue : q[1] \in D /\ Reader(q) \in D}

(* The graph is a finite forest: there are fewer edges between the tasks   *)
(* of any set than tasks in it.                                            *)
Forest ==
    /\ IsFiniteSet(Task) /\ IsFiniteSet(Queue)
    /\ \A D \in SUBSET Task : D # {} => Cardinality(EdgesWithin(D)) < Cardinality(D)

(* The buffers of an input that its task holds are the one it reads now    *)
(* and, when get_requisition has failed, x: the one it read then, which    *)
(* nobody gives back.                                                      *)
KeptBut(t, i, x) ==
    \A b \in held[t] :
        b[1] = Sole(t, i) => \/ Reading(t, i) /\ b = inputs[t][i]
                             \/ pc[t] \in Flushing /\ b = x

Kept(t, i) == pc[t] # "done" => \E x : KeptBut(t, i, x)

(* While its producer goes on, every buffer of a queue is at one of its    *)
(* four places.                                                            *)
Conserved(q) ==
    pc[q[1]] # "done" =>
        \A b \in Own(q) : \/ b \in Range(free[q])
                          \/ b \in Range(full[q])
                          \/ b \in held[Reader(q)]
                          \/ HoldsOutput(q[1]) /\ OutQueue(q[1]) = q /\ out[q[1]] = b

(* A task that has left has sent its end markers. *)
EndSent(q) == pc[q[1]] = "done" => EndOfStream \in Range(sent[q])

(* The first target of a broadcast gets no copy. *)
Copying(t) == pc[t] \in {"push", "repush"} => idx[t] >= FirstCopy

HInv ==
    /\ SInv
    /\ \A q \in Queue : Conserved(q) /\ EndSent(q)
    /\ \A t \in Task : Copying(t) /\ \A i \in 1..NInputs(t) : Kept(t, i)

----------------------------------------------------------------------------
(* What is left in the queues                                              *)

(* In a plain graph the reader of a queue reads it as an input. *)
LEMMA PlainFacts ==
    ASSUME Plain, NEW q \in Queue
    PROVE  /\ q \in Streams /\ q[1] \in Task /\ Reader(q) \in Task
           /\ \E i \in 1..NInputs(Reader(q)) : q = Sole(Reader(q), i) /\ Alone(Reader(q), i)
  <1>1. PICK t \in Task : \E i \in 1..NInputs(t) : q = Sole(t, i)
    BY DEF Plain
  <1>2. PICK i \in 1..NInputs(t) : q = Sole(t, i)
    BY <1>1
  <1>3. Alone(t, i)
    BY DEF Plain
  <1>4. q \in Streams /\ q \in Range(InQueues[t][i])
    BY <1>2, <1>3, SoleFacts
  <1>5. Reader(q) = t
    BY <1>4, WiringFacts DEF Reader
  <1> QED BY <1>2, <1>3, <1>4, <1>5, ConstantsType

(* When a run has ended, and every task has read its input to the end, no  *)
(* item is left in a queue: all that was produced was consumed, or drained *)
(* after an error (flush of run_task).                                     *)
THEOREM NothingLeftCorrect ==
    ASSUME Plain
    PROVE  Spec => []NothingLeft
  <1>1. SInv => NothingLeft
    <2> SUFFICES ASSUME SInv, AllDone, \A t \in Task : ~ Quit(t), NEW q \in Queue
                 PROVE  InFlight(q) = {}
      BY DEF NothingLeft
    <2>1. PICK t \in Task : t = Reader(q)
      BY PlainFacts
    <2>2. PICK i \in 1..NInputs(t) : q = Sole(t, i) /\ Alone(t, i)
      BY <2>1, PlainFacts
    <2>3. finished[t][i]
      <3>1. NInputs(t) > 0
        BY <2>2, ConstantsType
      <3> QED BY <3>1 DEF AllDone, Quit, AllFinished
    <2>4. Range(full[q]) \subseteq {EndOfStream}
      BY <2>2, <2>3, EndedInput
    <2> QED BY <2>4 DEF InFlight
  <1>2. SInv /\ [Next]_vars => SInv'
    BY StreamNext
  <1>3. Init => SInv
    BY StreamInit
  <1> QED BY <1>1, <1>2, <1>3, PTL DEF Spec

----------------------------------------------------------------------------
(* What a task holds                                                       *)

(* A task goes on reading an input until it has released it. *)
LEMMA ReadingGoesOn ==
    ASSUME TypeInv, NEW t \in Task, Run(t), NEW i \in 1..NInputs(t), Reading(t, i),
           pc'[t] # "done", ~ Fail(t), ~ (ReleaseInput(t) /\ idx[t] = i)
    PROVE  Reading(t, i)' /\ inputs'[t][i] = inputs[t][i]
  <1>1. /\ pc \in [Task -> PCs] /\ idx \in [Task -> Nat \ {0}] /\ NInputs(t) \in Nat
        /\ Position(t) /\ i \in Nat /\ i >= 1 /\ i <= NInputs(t) /\ idx[t] \in Nat \ {0}
    BY ConstantsType DEF TypeInv, TypeOK, ThreadsOK, Positions
  <1>2. ~ (PopInput(t) /\ idx[t] = i)
    <2>1. ASSUME PopInput(t), idx[t] = i PROVE FALSE
      <3>1. pc[t] \in Getting /\ ~ (i < idx[t])
        BY <1>1, <2>1 DEF PopInput
      <3> QED BY <3>1 DEF Reading, Getting, Releasing
    <2> QED BY <2>1
  <1>3. inputs'[t][i] = inputs[t][i] /\ finished'[t][i] = finished[t][i] /\ ~ finished[t][i]
    BY <1>2, InputStays DEF Reading
  <1>4. CASE PopInput(t) \/ SkipInput(t)
    <2>1. pc[t] \in Getting /\ pc'[t] = pc[t] /\ idx'[t] = idx[t] + 1
      BY <1>1, <1>4 DEF PopInput, SkipInput
    <2>2. i < idx[t]
      BY <2>1 DEF Reading, Getting, Releasing
    <2> QED BY <1>1, <1>3, <2>1, <2>2 DEF Reading, Getting, Releasing
  <1>5. CASE ReleaseInput(t)
    <2>1. pc[t] \in Releasing /\ i >= idx[t] /\ i # idx[t]
      BY <1>5 DEF ReleaseInput, Reading, Releasing, Getting
    <2>2. idx[t] # NInputs(t)
      BY <1>1, <2>1
    <2>3. pc'[t] = pc[t] /\ idx'[t] = idx[t] + 1
      BY <1>1, <1>5, <2>2 DEF ReleaseInput
    <2> QED BY <1>1, <1>3, <2>1, <2>3 DEF Reading, Releasing, Getting
  <1>6. CASE Stop(t) \/ Proceed(t) \/ Reget(t) \/ Flush(t)
    <2>1. \/ pc'[t] \in {"work", "popout", "reduce", "regenerate", "done"}
          \/ pc'[t] = "flushrelease" /\ idx'[t] = 1
      BY <1>1, <1>6 DEF Stop, Proceed, Reget, Flush, Leave
    <2> QED BY <1>1, <1>3, <2>1 DEF Reading, Releasing, Getting
  <1>7. CASE PopOut(t) \/ Generate(t) \/ Process(t) \/ Reduce(t) \/ Regenerate(t)
    <2>1. \/ pc'[t] \in {"work", "push", "reduce", "regenerate", "repush", "done"}
          \/ pc'[t] \in {"release", "rerelease"} /\ idx'[t] = 1
      <3>1. CASE PopOut(t)
        <4>1. pc[t] \in {"popout", "repopout"}
          BY <3>1 DEF PopOut
        <4> QED BY <1>1, <3>1, <4>1 DEF PopOut
      <3>2. CASE Generate(t) \/ Process(t) \/ Reduce(t) \/ Regenerate(t)
        BY <1>1, <3>2 DEF Generate, Process, Reduce, Regenerate, Leave
      <3> QED BY <1>7, <3>1, <3>2
    <2> QED BY <1>1, <1>3, <2>1 DEF Reading, Releasing, Getting
  <1>8. CASE Push(t)
    <2>1. pc[t] \in {"push", "repush"} /\ pc'[t] = AfterPush(t) /\ idx'[t] = 1
      BY <1>1, <1>8 DEF Push
    <2>2. AfterPush(t) \in {"repopout", "release"}
      BY <1>1, <2>1 DEF AfterPush
    <2> QED BY <1>1, <1>3, <2>1, <2>2 DEF Reading, Releasing, Getting
  <1>9. CASE BroadcastCopy(t)
    <2>1. pc[t] \in {"push", "repush"} /\ pc'[t] = pc[t]
      BY <1>9 DEF BroadcastCopy
    <2> QED BY <1>3, <2>1 DEF Reading, Releasing, Getting
  <1> QED BY <1>4, <1>5, <1>6, <1>7, <1>8, <1>9 DEF Run

(* A task that drains its input does so until it leaves, and only an error *)
(* makes it.                                                               *)
LEMMA FlushingGoesOn ==
    ASSUME TypeInv, NEW t \in Task, Run(t), pc'[t] # "done"
    PROVE  /\ pc[t] \in Flushing => pc'[t] \in Flushing /\ ~ Fail(t)
           /\ Fail(t) => pc'[t] = "flush" /\ idx'[t] = 1
  <1>1. pc \in [Task -> PCs] /\ idx \in [Task -> Nat \ {0}] /\ pc[t] # "done"
    BY DoneIsDone DEF TypeInv, TypeOK, ThreadsOK
  <1>2. Fail(t) => pc[t] = "get" /\ pc'[t] = "flush" /\ idx'[t] = 1
    BY <1>1 DEF Fail, GotInputs, Leave
  <1>3. ASSUME pc[t] \in Flushing, ~ Fail(t) PROVE pc'[t] \in Flushing
    <2>1. pc[t] \in {"flush", "flushrelease"}
      BY <1>1, <1>3 DEF Flushing
    <2>2. CASE ReleaseInput(t)
      <3>1. pc[t] = "flushrelease"
        BY <2>1, <2>2 DEF ReleaseInput, Releasing
      <3>2. AfterRelease(t) = "flush"
        BY <3>1 DEF AfterRelease
      <3> QED BY <1>1, <2>2, <3>1, <3>2 DEF ReleaseInput, Flushing
    <2>3. CASE PopInput(t) \/ SkipInput(t)
      BY <1>3, <2>3 DEF PopInput, SkipInput
    <2>4. CASE Flush(t)
      BY <1>1, <2>4 DEF Flush, Leave, Flushing
    <2>5. ~ (Stop(t) \/ Proceed(t) \/ PopOut(t) \/ Generate(t) \/ Process(t) \/ Reduce(t)
             \/ Reget(t) \/ Regenerate(t) \/ Push(t) \/ BroadcastCopy(t))
      BY <2>1 DEF Stop, Proceed, PopOut, Generate, Process, Reduce, Reget, Regenerate, Push,
                  BroadcastCopy, GotInputs
    <2> QED BY <1>3, <2>2, <2>3, <2>4, <2>5 DEF Run
  <1> QED BY <1>2, <1>3 DEF Flushing

(* A pop of an input is remembered. *)
LEMMA PopInputFrame ==
    ASSUME IInv, NEW t \in Task, PopInput(t)
    PROVE  \E q \in Queue : \E b :
              /\ idx[t] \in 1..NInputs(t) /\ q = InQueue(t, idx[t]) /\ b = Head(full[q])
              /\ ~ finished[t][idx[t]] /\ full[q] # <<>>
              /\ b \in Own(q) \cup {EndOfStream}
              /\ full' = [full EXCEPT ![q] = Tail(@)]
              /\ UNCHANGED <<free, capacity, current, pc, out, cur>>
              /\ idx' = [idx EXCEPT ![t] = idx[t] + 1]
              /\ IF b = EndOfStream THEN held' = held
                 ELSE /\ held' = [held EXCEPT ![t] = @ \cup {b}]
                      /\ finished' = finished /\ inputs'[t][idx[t]] = b
  <1>1. TypeInv
    BY DEF IInv
  <1>2. /\ idx[t] \in 1..NInputs(t) /\ ~ finished[t][idx[t]]
        /\ DOMAIN inputs = Task /\ inputs[t] \in [1..NInputs(t) -> Pointer]
    BY <1>1, ConstantsType DEF TypeInv, TypeOK, ThreadsOK, InputsOK, PopInput
  <1>3. PICK q \in Queue : q = InQueue(t, idx[t]) /\ q \in Range(InQueues[t][idx[t]])
    BY <1>1, <1>2, InQueueFacts
  <1>4. PICK b : b = Head(full[q])
    OBVIOUS
  <1>5. /\ full[q] # <<>> /\ full' = [full EXCEPT ![q] = Tail(@)]
        /\ UNCHANGED <<free, capacity, current, pc, out, cur>>
        /\ idx' = [idx EXCEPT ![t] = idx[t] + 1]
    BY <1>3 DEF PopInput, PopInputBuffer, ConsumerPop
  <1>6. b \in Own(q) \cup {EndOfStream}
    <2>1. Open(q)
      BY <1>2, <1>3, OpenFacts DEF Outlived
    <2>2. Range(full[q]) \subseteq Own(q) \cup {EndOfStream}
      BY <2>1 DEF IInv, QueueInv
    <2>3. full[q] \in Seq(Pointer \cup {EndOfStream})
      BY <1>1 DEF TypeInv, TypeOK, QueuesOK
    <2>4. b \in Range(full[q])
      BY <1>4, <1>5, <2>3, TailRange
    <2> QED BY <2>2, <2>4
  <1>7. IF b = EndOfStream THEN held' = held
        ELSE /\ held' = [held EXCEPT ![t] = @ \cup {b}]
             /\ finished' = finished /\ inputs'[t][idx[t]] = b
    <2>1. CASE b = EndOfStream
      BY <1>3, <1>4, <2>1 DEF PopInput, InBuffer
    <2>2. CASE b # EndOfStream
      <3>1. inputs' = [inputs EXCEPT ![t][idx[t]] = NewInput(@, b)]
        BY <1>3, <1>4 DEF PopInput, InBuffer
      <3>2. inputs'[t][idx[t]] = b
        BY <1>2, <2>2, <3>1 DEF NewInput
      <3> QED BY <1>3, <1>4, <2>2, <3>2 DEF PopInput, InBuffer
    <2> QED BY <2>1, <2>2
  <1> QED BY <1>2, <1>3, <1>4, <1>5, <1>6, <1>7

(* A release gives a buffer back to the queue of its input.                *)
LEMMA ReleaseInputFrame ==
    ASSUME TypeInv, NEW t \in Task, ReleaseInput(t)
    PROVE  \E q \in Queue : \E b :
              /\ idx[t] \in 1..NInputs(t) /\ q = InQueue(t, idx[t]) /\ b = inputs[t][idx[t]]
              /\ pc[t] \in Releasing /\ pc'[t] \in Releasing \cup Getting
              /\ free' = [free EXCEPT ![q] = Append(@, b)]
              /\ held' = [held EXCEPT ![t] = @ \ {b}]
              /\ UNCHANGED <<full, capacity, current, finished, inputs, out>>
  <1>1. idx[t] \in 1..NInputs(t) /\ pc[t] \in Releasing /\ pc \in [Task -> PCs]
    BY ConstantsType DEF TypeInv, TypeOK, ThreadsOK, Positions, Position, ReleaseInput
  <1>2. InQueue(t, idx[t]) \in Queue
    BY <1>1, InQueueFacts
  <1>3. pc'[t] \in Releasing \cup Getting
    <2>1. AfterRelease(t) \in Getting
      BY <1>1 DEF AfterRelease, Releasing, Getting
    <2> QED BY <1>1, <2>1 DEF ReleaseInput
  <1>4. /\ free' = [free EXCEPT ![InQueue(t, idx[t])] = Append(@, inputs[t][idx[t]])]
        /\ held' = [held EXCEPT ![t] = @ \ {inputs[t][idx[t]]}]
        /\ UNCHANGED <<full, capacity, current, finished, inputs, out>>
    BY DEF ReleaseInput, PushInputBuffer, ConsumerPush
  <1> QED BY <1>1, <1>2, <1>3, <1>4

(* What a task holds of an input changes with a pop and a release of that  *)
(* input only, and an error leaves it one buffer that is not released.     *)
LEMMA KeptStep ==
    ASSUME IInv, NEW u \in Task, Run(u),
           NEW t \in Task, NEW i \in 1..NInputs(t), Alone(t, i), Kept(t, i)
    PROVE  Kept(t, i)'
  <1>1. TypeInv /\ held \in [Task -> SUBSET Pointer]
    BY DEF IInv, TypeInv, TypeOK, GhostsOK
  <1>2. CASE u # t
    <2>1. /\ pc'[t] = pc[t] /\ idx'[t] = idx[t] /\ finished'[t] = finished[t]
          /\ inputs'[t] = inputs[t] /\ held'[t] = held[t]
      BY <1>1, <1>2, OwnLocals
    <2>2. Reading(t, i)' <=> Reading(t, i)
      BY <2>1 DEF Reading
    <2> QED BY <2>1, <2>2 DEF Kept, KeptBut, Sole
  <1>3. CASE u = t
    <2> SUFFICES ASSUME pc'[t] # "done" PROVE \E x : KeptBut(t, i, x)'
      BY DEF Kept, KeptBut, Sole
    <2>1. PICK x : KeptBut(t, i, x)
      BY <1>3, DoneIsDone DEF Kept
    <2>2. PICK q \in Queue : q = Sole(t, i)
      BY SoleFacts
    <2>3. SUFFICES ASSUME NEW y, y = (IF Fail(t) THEN inputs[t][i] ELSE x),
                          NEW b \in held'[t], b[1] = q
                   PROVE  \/ Reading(t, i)' /\ b = inputs'[t][i]
                          \/ pc'[t] \in Flushing /\ b = y
      BY <2>2 DEF KeptBut, Sole
    <2>4. \/ b \notin held[t]
          \/ Reading(t, i) /\ b = inputs[t][i]
          \/ pc[t] \in Flushing /\ b = x
      BY <2>1, <2>2, <2>3 DEF KeptBut
    <2>5. CASE b \notin held[t]
      <3>1. PopInput(t)
        <4>1. ReleaseInput(t) => held'[t] \subseteq held[t]
          <5>1. ReleaseInput(t) => \E c : held' = [held EXCEPT ![t] = @ \ {c}]
            BY DEF ReleaseInput
          <5> QED BY <1>1, <5>1
        <4> QED BY <1>3, <2>3, <2>5, <4>1, InputsStay
      <3>2. PICK r \in Queue : \E c :
              /\ idx[t] \in 1..NInputs(t) /\ r = InQueue(t, idx[t])
              /\ ~ finished[t][idx[t]]
              /\ c \in Own(r) \cup {EndOfStream}
              /\ UNCHANGED pc
              /\ idx' = [idx EXCEPT ![t] = idx[t] + 1]
              /\ IF c = EndOfStream THEN held' = held
                 ELSE /\ held' = [held EXCEPT ![t] = @ \cup {c}]
                      /\ finished' = finished /\ inputs'[t][idx[t]] = c
        BY <3>1, PopInputFrame
      <3>3. /\ b \in Own(r) /\ finished' = finished /\ inputs'[t][idx[t]] = b
            /\ UNCHANGED pc /\ idx' = [idx EXCEPT ![t] = idx[t] + 1]
            /\ r \in Range(InQueues[t][idx[t]])
        BY <1>1, <2>3, <2>5, <3>2, InQueueFacts
      <3>4. r = q
        BY <2>3, <3>3 DEF Own
      <3>5. idx[t] = i
        BY <2>2, <3>2, <3>3, <3>4, SoleFacts
      <3>6. pc[t] \in Getting /\ idx[t] \in Nat /\ idx'[t] = idx[t] + 1
        BY <1>1, <3>1, <3>3 DEF PopInput, TypeInv, TypeOK, ThreadsOK
      <3>7. Reading(t, i)'
        BY <3>2, <3>3, <3>5, <3>6 DEF Reading, Getting, Releasing
      <3> QED BY <3>3, <3>5, <3>7
    <2>6. CASE Reading(t, i) /\ b = inputs[t][i]
      <3>1. CASE Fail(t)
        BY <1>1, <1>3, <2>3, <2>6, <3>1, FlushingGoesOn DEF Flushing
      <3>2. CASE ReleaseInput(t) /\ idx[t] = i
        BY <1>1, <2>3, <2>6, <3>2 DEF ReleaseInput
      <3>3. CASE ~ Fail(t) /\ ~ (ReleaseInput(t) /\ idx[t] = i)
        BY <1>1, <1>3, <2>6, <3>3, ReadingGoesOn
      <3> QED BY <3>1, <3>2, <3>3
    <2>7. CASE pc[t] \in Flushing /\ b = x
      BY <1>1, <1>3, <2>3, <2>7, FlushingGoesOn
    <2> QED BY <2>4, <2>5, <2>6, <2>7
  <1> QED BY <1>2, <1>3

(* A task that leaves sends its end markers, and they are never taken back. *)
LEMMA EndSentStep ==
    ASSUME SInv, TypeInv', NEW u \in Task, Run(u), NEW q \in Queue, EndSent(q)
    PROVE  EndSent(q)'
  <1>1. TypeInv /\ q[1] \in Task
    BY ConstantsType DEF SInv, IInv
  <1>2. sent[q] \in Seq(Tag) /\ EndOfStream \in Tag
    BY <1>1, StreamTypes DEF Tag
  <1>3. CASE pc[q[1]] = "done"
    <2>1. Moves(u, q)
      BY RunMoves
    <2>2. \/ sent'[q] = sent[q]
          \/ \E v \in Tag : sent'[q] = Append(sent[q], v)
          \/ \E v \in Tag : sent'[q] = Append(Append(sent[q], v), EndOfStream)
      BY <1>2, <2>1 DEF Moves, Idles, Ends, Pops, PushesTo, Tag
    <2>3. Range(sent[q]) \subseteq Range(sent'[q])
      <3>1. ASSUME NEW v \in Tag
            PROVE  /\ Range(Append(sent[q], v)) = Range(sent[q]) \cup {v}
                   /\ Range(Append(Append(sent[q], v), EndOfStream)) = Range(sent[q]) \cup {v, EndOfStream}
        <4>1. PICK s : s = Append(sent[q], v)
          OBVIOUS
        <4>2. s \in Seq(Tag) /\ Range(s) = Range(sent[q]) \cup {v}
          BY <1>2, <4>1, AppendRange
        <4>3. Range(Append(s, EndOfStream)) = Range(s) \cup {EndOfStream}
          BY <1>2, <4>2, AppendRange
        <4> QED BY <4>1, <4>2, <4>3
      <3> QED BY <2>2, <3>1
    <2> QED BY <1>3, <2>3 DEF EndSent
  <1>4. CASE pc[q[1]] # "done" /\ pc'[q[1]] = "done"
    <2>1. u = q[1]
      BY <1>1, <1>4, OwnLocals
    <2>2. Leave(u)
      <3>1. pc \in [Task -> PCs]
        BY <1>1 DEF TypeInv, TypeOK, ThreadsOK
      <3>2. ~ PopInput(u) /\ ~ SkipInput(u) /\ ~ BroadcastCopy(u)
        BY <1>4, <2>1 DEF PopInput, SkipInput, BroadcastCopy
      <3>3. ~ ReleaseInput(u)
        <4>1. ReleaseInput(u) => pc'[u] \in Releasing \cup Getting
          BY <1>1, ReleaseInputFrame
        <4> QED BY <1>4, <2>1, <4>1 DEF Releasing, Getting
      <3>4. ~ Push(u)
        <4>1. Push(u) => pc'[u] = AfterPush(u) /\ AfterPush(u) \in {"repopout", "get", "release"}
          BY <3>1 DEF Push, AfterPush
        <4> QED BY <1>4, <2>1, <4>1
      <3>5. ~ PopOut(u)
        <4>1. PopOut(u) => pc[u] \in {"popout", "repopout"}
          BY DEF PopOut
        <4>2. PopOut(u) => pc'[u] \in {"regenerate", "reduce", "work"}
          BY <3>1, <4>1 DEF PopOut
        <4> QED BY <1>4, <2>1, <4>2
      <3>6. CASE Stop(u) \/ Proceed(u) \/ Fail(u) \/ Reget(u) \/ Flush(u)
        BY <1>4, <2>1, <3>1, <3>6 DEF Stop, Proceed, Fail, Reget, Flush
      <3>7. CASE Generate(u) \/ Process(u) \/ Reduce(u) \/ Regenerate(u)
        BY <1>4, <2>1, <3>1, <3>7 DEF Generate, Process, Reduce, Regenerate
      <3> QED BY <3>2, <3>3, <3>4, <3>5, <3>6, <3>7 DEF Run
    <2>3. sent'[q] = Append(sent[q], EndOfStream)
      BY <2>1, <2>2 DEF Leave, Finish, FinishTo
    <2> QED BY <1>2, <2>3, AppendRange DEF EndSent
  <1> QED BY <1>3, <1>4 DEF EndSent

(* The copies of a broadcast are counted from the second target on. *)
LEMMA CopyingStep ==
    ASSUME TypeInv, NEW u \in Task, Run(u), NEW t \in Task, Copying(t)
    PROVE  Copying(t)'
  <1>1. pc \in [Task -> PCs] /\ idx \in [Task -> Nat \ {0}]
    BY DEF TypeInv, TypeOK, ThreadsOK
  <1>2. CASE u # t
    BY <1>2, OwnLocals DEF Copying, FirstCopy
  <1>3. CASE u = t
    <2> SUFFICES ASSUME pc'[t] \in {"push", "repush"} PROVE idx'[t] >= 2
      BY DEF Copying, FirstCopy
    <2>1. ~ PopInput(t) /\ ~ SkipInput(t)
      BY DEF PopInput, SkipInput, Getting
    <2>2. ~ ReleaseInput(t)
      <3>1. ReleaseInput(t) => pc'[t] \in Releasing \cup Getting
        BY ReleaseInputFrame
      <3> QED BY <3>1 DEF Releasing, Getting
    <2>3. ~ Push(t)
      <3>1. Push(t) => pc'[t] = AfterPush(t) /\ AfterPush(t) \in {"repopout", "get", "release"}
        BY <1>1 DEF Push, AfterPush
      <3> QED BY <3>1
    <2>4. ~ PopOut(t)
      <3>1. PopOut(t) => pc[t] \in {"popout", "repopout"}
        BY DEF PopOut
      <3>2. PopOut(t) => pc'[t] \in {"regenerate", "reduce", "work"}
        BY <1>1, <3>1 DEF PopOut
      <3> QED BY <3>2
    <2>5. ~ (Stop(t) \/ Proceed(t) \/ Fail(t) \/ Reget(t) \/ Flush(t) \/ Reduce(t))
      BY <1>1 DEF Stop, Proceed, Fail, Reget, Flush, Leave, Reduce
    <2>6. CASE Generate(t) \/ Process(t) \/ Regenerate(t)
      BY <1>1, <2>6 DEF Generate, Process, Regenerate, Produce, FirstCopy, Leave
    <2>7. CASE BroadcastCopy(t)
      <3>1. pc[t] \in {"push", "repush"} /\ idx'[t] = idx[t] + 1
        BY <1>1, <2>7 DEF BroadcastCopy
      <3> QED BY <1>1, <1>3, <3>1 DEF Copying, FirstCopy
    <2> QED BY <1>3, <2>1, <2>2, <2>3, <2>4, <2>5, <2>6, <2>7 DEF Run
  <1> QED BY <1>2, <1>3

----------------------------------------------------------------------------
(* Where the buffers of a queue are                                        *)

(* A task holds its output buffer until it has pushed it. *)
LEMMA HoldingGoesOn ==
    ASSUME TypeInv, NEW t \in Task, Run(t), HoldsOutput(t), pc'[t] # "done", ~ Push(t)
    PROVE  HoldsOutput(t)' /\ out'[t] = out[t] /\ OutQueue(t)' = OutQueue(t)
  <1>1. pc \in [Task -> PCs] /\ Mode[t] # "sink"
    BY DEF TypeInv, TypeOK, ThreadsOK, HoldsOutput
  <1>2. ~ PopOut(t) /\ ~ Stop(t) /\ ~ Proceed(t) /\ ~ Fail(t) /\ ~ Flush(t)
    BY DEF HoldsOutput, PopOut, Stop, Proceed, Fail, Flush, GotInputs
  <1>3. UNCHANGED <<out, current>>
    BY <1>2 DEF groupVars, Run, PopInput, PopInputBuffer, SkipInput, Generate, Produce, Process,
           Reduce, Reget, Regenerate, Leave, Finish, FinishTo, BroadcastCopy, PushCopy,
           ReleaseInput, PushInputBuffer
  <1>4. HoldsOutput(t)'
    <2>1. CASE PopInput(t) \/ SkipInput(t) \/ BroadcastCopy(t)
      BY <2>1 DEF PopInput, SkipInput, BroadcastCopy, HoldsOutput
    <2>2. CASE ReleaseInput(t)
      <3>1. pc[t] = "rerelease"
        BY <2>2 DEF ReleaseInput, Releasing, HoldsOutput
      <3>2. AfterRelease(t) = "reget"
        BY <3>1 DEF AfterRelease
      <3>3. pc'[t] \in {"rerelease", "reget"}
        BY <1>1, <2>2, <3>1, <3>2 DEF ReleaseInput
      <3> QED BY <1>1, <3>3 DEF HoldsOutput
    <2>3. CASE Generate(t) \/ Process(t) \/ Reduce(t) \/ Reget(t) \/ Regenerate(t)
      BY <1>1, <2>3 DEF Generate, Process, Reduce, Reget, Regenerate, Leave, HoldsOutput
    <2> QED BY <1>2, <2>1, <2>2, <2>3 DEF Run
  <1> QED BY <1>3, <1>4 DEF OutQueue

(* A queue keeps its buffers in a step that finds a place for each that    *)
(* was on a side of it or was read, and for those that are new.            *)
Placed(q, b) ==
    b \in Range(free[q]) \/ b \in Range(full[q]) \/ b \in held[Reader(q)]

Filled(q, b) == HoldsOutput(q[1]) /\ OutQueue(q[1]) = q /\ out[q[1]] = b

LEMMA ConservedKeeps ==
    ASSUME TypeInv, NEW u \in Task, Run(u), NEW q \in Queue, Conserved(q), pc'[q[1]] # "done",
           u = q[1] => ~ Push(u),
           \A b \in Own(q)' : Placed(q, b) \/ b \notin Own(q) => Placed(q, b)' \/ Filled(q, b)'
    PROVE  Conserved(q)'
  <1>1. q[1] \in Task
    BY ConstantsType
  <1>2. pc[q[1]] # "done"
    BY <1>1, OwnLocals, DoneIsDone
  <1>3. ASSUME NEW b, Filled(q, b) PROVE Filled(q, b)'
    <2>1. CASE u = q[1]
      BY <1>2, <1>3, <2>1, HoldingGoesOn DEF Filled
    <2>2. CASE u # q[1]
      BY <1>1, <1>3, <2>2, OwnLocals DEF Filled, HoldsOutput, OutQueue
    <2> QED BY <2>1, <2>2
  <1>4. ASSUME NEW b \in Own(q)' PROVE Placed(q, b)' \/ Filled(q, b)'
    <2>1. b \in Own(q) => Placed(q, b) \/ Filled(q, b)
      BY <1>2 DEF Conserved, Placed, Filled
    <2> QED BY <1>3, <2>1
  <1> QED BY <1>4 DEF Conserved, Placed, Filled

(* Steps that at most append end markers. *)
LEMMA ConservedStill ==
    ASSUME TypeInv, NEW u \in Task, Run(u), NEW q \in Queue, Conserved(q), pc'[q[1]] # "done",
           ~ PopInput(u), ~ ReleaseInput(u), ~ PopOut(u), ~ Push(u), ~ BroadcastCopy(u)
    PROVE  Conserved(q)'
  <1>1. UNCHANGED queueVars \/ Finish(u)
    BY DEF Run, SkipInput, Stop, Proceed, Fail, Generate, Produce, Process, Reduce, Reget,
           Regenerate, Flush, Leave
  <1>2. UNCHANGED <<free, capacity, held>>
    BY <1>1, InputsStay DEF queueVars, Finish, FinishTo
  <1>3. full'[q] = full[q] \/ full'[q] = Append(full[q], EndOfStream)
    BY <1>1, Zenon DEF queueVars, Finish, FinishTo
  <1>4. Range(full[q]) \subseteq Range(full'[q])
    <2> DEFINE S == Pointer \cup {EndOfStream}
    <2>1. full[q] \in Seq(S) /\ EndOfStream \in S
      BY DEF TypeInv, TypeOK, QueuesOK
    <2> HIDE DEF S
    <2>2. Range(Append(full[q], EndOfStream)) = Range(full[q]) \cup {EndOfStream}
      BY <2>1, AppendRange
    <2> QED BY <1>3, <2>2
  <1> QED BY <1>2, <1>4, ConservedKeeps DEF Own, Placed, Reader

(* A popped input buffer is held by the reader, ... *)
LEMMA ConservedPopInput ==
    ASSUME Plain, IInv, NEW u \in Task, PopInput(u), NEW q \in Queue, Conserved(q),
           pc'[q[1]] # "done"
    PROVE  Conserved(q)'
  <1>1. TypeInv /\ Run(u)
    BY DEF IInv, Run
  <1>2. PICK r \in Queue : \E b :
           /\ idx[u] \in 1..NInputs(u) /\ r = InQueue(u, idx[u]) /\ b = Head(full[r])
           /\ full[r] # <<>>
           /\ b \in Own(r) \cup {EndOfStream}
           /\ full' = [full EXCEPT ![r] = Tail(@)]
           /\ UNCHANGED <<free, capacity>>
           /\ IF b = EndOfStream THEN held' = held
              ELSE held' = [held EXCEPT ![u] = @ \cup {b}]
    BY PopInputFrame
  <1>3. PICK b : /\ b = Head(full[r]) /\ full[r] # <<>>
                 /\ full' = [full EXCEPT ![r] = Tail(@)]
                 /\ UNCHANGED <<free, capacity>>
                 /\ IF b = EndOfStream THEN held' = held
                    ELSE held' = [held EXCEPT ![u] = @ \cup {b}]
    BY <1>2
  <1>4. PICK j \in 1..NInputs(u) : j = idx[u] /\ r = InQueue(u, j)
    BY <1>2
  <1>5. /\ held \in [Task -> SUBSET Pointer] /\ DOMAIN full = Queue
        /\ full[r] \in Seq(Pointer \cup {EndOfStream})
    BY <1>1 DEF TypeInv, TypeOK, QueuesOK, GhostsOK
  <1>6. ~ Push(u)
    BY DEF Push, PopInput, Getting
  <1>7. ASSUME NEW c \in Own(q), Placed(q, c) PROVE Placed(q, c)'
    <2>1. held[Reader(q)] \subseteq held'[Reader(q)]
      BY <1>3, <1>5, PlainFacts
    <2>2. CASE r # q
      <3>1. full'[q] = full[q]
        BY <1>3, <1>5, <2>2
      <3> QED BY <1>3, <1>7, <2>1, <3>1 DEF Placed, Reader
    <2>3. CASE r = q
      <3>1. Range(full[q]) = Range(full'[q]) \cup {b}
        BY <1>3, <1>5, <2>3, TailRange
      <3>2. c # EndOfStream
        BY <1>1, OwnFacts
      <3>3. Reader(q) = u
        <4>1. q \in Range(InQueues[u][j])
          BY <1>1, <1>4, <2>3, InQueueFacts
        <4> QED BY <1>4, <4>1, WiringFacts DEF Reader
      <3>4. c = b => c \in held'[Reader(q)]
        BY <1>3, <1>5, <3>2, <3>3
      <3> QED BY <1>3, <1>7, <2>1, <3>1, <3>4 DEF Placed, Reader
    <2> QED BY <2>2, <2>3
  <1> QED BY <1>1, <1>3, <1>6, <1>7, ConservedKeeps DEF Own

(* ... and a released one is back on the free side. *)
LEMMA ConservedRelease ==
    ASSUME Plain, IInv, NEW u \in Task, ReleaseInput(u), NEW q \in Queue, Conserved(q),
           pc'[q[1]] # "done"
    PROVE  Conserved(q)'
  <1>1. TypeInv /\ Run(u)
    BY DEF IInv, Run
  <1>2. PICK r \in Queue : \E b :
           /\ idx[u] \in 1..NInputs(u) /\ r = InQueue(u, idx[u]) /\ b = inputs[u][idx[u]]
           /\ free' = [free EXCEPT ![r] = Append(@, b)]
           /\ held' = [held EXCEPT ![u] = @ \ {b}]
           /\ UNCHANGED <<full, capacity>>
    BY <1>1, ReleaseInputFrame
  <1>3. PICK b : /\ b = inputs[u][idx[u]]
                 /\ free' = [free EXCEPT ![r] = Append(@, b)]
                 /\ held' = [held EXCEPT ![u] = @ \ {b}]
                 /\ UNCHANGED <<full, capacity>>
    BY <1>2
  <1>4. PICK j \in 1..NInputs(u) : j = idx[u] /\ r = InQueue(u, j) /\ b = inputs[u][j]
    BY <1>2, <1>3
  <1>5. /\ held \in [Task -> SUBSET Pointer] /\ DOMAIN free = Queue
        /\ free[r] \in Seq(Pointer) /\ b \in Pointer
    BY <1>1, <1>4 DEF TypeInv, TypeOK, QueuesOK, GhostsOK, InputsOK
  <1>6. ~ Push(u)
    BY DEF Push, ReleaseInput, Releasing
  <1>7. Range(free'[r]) = Range(free[r]) \cup {b} /\ (r # q => free'[q] = free[q])
    <2>1. free'[r] = Append(free[r], b)
      BY <1>3, <1>5
    <2> QED BY <1>3, <1>5, <2>1, AppendRange
  <1>8. ASSUME b \in Own(q) PROVE r = q
    <2>1. b[1] = q /\ b # NoBuffer
      BY <1>1, <1>8, OwnFacts
    <2>2. InputInv(u, j)
      BY <1>4 DEF IInv, TaskInv
    <2>3. PICK s \in Range(InQueues[u][j]) : b \in Own(s)
      BY <1>4, <2>1, <2>2 DEF InputInv
    <2>4. s = q
      BY <2>1, <2>3 DEF Own
    <2>5. Alone(u, j)
      BY <1>4 DEF Plain
    <2> QED BY <1>1, <1>4, <2>3, <2>4, <2>5, SoleFacts
  <1>9. ASSUME NEW c \in Own(q), Placed(q, c) PROVE Placed(q, c)'
    <2>1. Range(free[q]) \subseteq Range(free'[q])
      BY <1>7
    <2>2. c # b => (c \in held[Reader(q)] => c \in held'[Reader(q)])
      BY <1>3, <1>5, PlainFacts
    <2>3. c = b => c \in Range(free'[q])
      BY <1>7, <1>8
    <2> QED BY <1>3, <1>9, <2>1, <2>2, <2>3 DEF Placed, Reader
  <1> QED BY <1>1, <1>3, <1>6, <1>9, ConservedKeeps DEF Own

(* What the producer's queue holds after a pop, with the buffer popped, is *)
(* what was on the free side and the new buffer, if there is one.          *)
LEMMA ProducerPopPlaces ==
    ASSUME TypeInv, NEW q \in Queue, ProducerPop(q, Limit(q[1])),
           NEW x, x = Head(Grown(q, Limit(q[1])))
    PROVE  /\ \A b \in Own(q)' : b \in Range(free[q]) \/ b \notin Own(q) =>
                  b = x \/ b \in Range(free'[q])
           /\ \A r \in Queue \ {q} : free'[r] = free[r] /\ Own(r)' = Own(r)
  <1>1. PICK s : s = Grown(q, Limit(q[1]))
    OBVIOUS
  <1>2. PICK m : m = Limit(q[1])
    OBVIOUS
  <1>3. /\ free \in [Queue -> Seq(Pointer)] /\ capacity \in [Queue -> Nat]
        /\ q[1] \in Task /\ m \in Nat /\ capacity[q] <= m
    BY <1>2, ConstantsType DEF TypeInv, TypeOK, QueuesOK
  <1>4. /\ s # <<>> /\ free' = [free EXCEPT ![q] = Tail(s)]
        /\ capacity' = [capacity EXCEPT ![q] = IF @ < m THEN @ + 1 ELSE @]
    BY <1>1, <1>2 DEF ProducerPop
  <1>5. s \in Seq(Pointer)
    BY <1>1, GrownType DEF TypeInv
  <1>6. free'[q] = Tail(s) /\ x = Head(s)
    BY <1>1, <1>3, <1>4
  <1>7. Range(s) = Range(free'[q]) \cup {x}
    BY <1>4, <1>5, <1>6, TailRange
  <1>8. ASSUME NEW b \in Own(q)', b \in Range(free[q]) \/ b \notin Own(q) PROVE b \in Range(s)
    <2>1. PICK n \in 1..capacity'[q] : b = <<q, n>>
      BY <1>8 DEF Own
    <2>2. CASE capacity[q] < m
      <3>1. s = Append(free[q], <<q, capacity[q] + 1>>)
        BY <1>1, <1>2, <2>2 DEF Grown
      <3>2. <<q, capacity[q] + 1>> \in Pointer
        <4>1. capacity[q] + 1 \in 1..m
          BY <1>3, <2>2
        <4>2. <<q, capacity[q] + 1>> \in Buffer
          BY <1>2, <4>1, ConstantsType
        <4> QED BY <4>2 DEF Pointer
      <3>3. Range(s) = Range(free[q]) \cup {<<q, capacity[q] + 1>>}
        BY <1>3, <3>1, <3>2, AppendRange, SMTT(30)
      <3>4. capacity'[q] = capacity[q] + 1
        BY <1>3, <1>4, <2>2
      <3>5. b \notin Own(q) => n = capacity[q] + 1
        BY <1>3, <2>1, <3>4 DEF Own
      <3> QED BY <1>8, <2>1, <3>3, <3>5
    <2>3. CASE ~ (capacity[q] < m)
      <3>1. s = free[q]
        BY <1>1, <1>2, <2>3 DEF Grown
      <3>2. capacity'[q] = capacity[q]
        BY <1>3, <1>4, <2>3
      <3>3. b \in Own(q)
        BY <2>1, <3>2 DEF Own
      <3> QED BY <1>8, <3>1, <3>3
    <2> QED BY <2>2, <2>3
  <1>9. \A r \in Queue \ {q} : free'[r] = free[r] /\ Own(r)' = Own(r)
    BY <1>3, <1>4 DEF Own
  <1> QED BY <1>7, <1>8, <1>9

(* A popped output buffer is filled by its task. *)
LEMMA ConservedPopOut ==
    ASSUME IInv, TypeInv', NEW u \in Task, PopOut(u), NEW q \in Queue, Conserved(q),
           pc'[q[1]] # "done"
    PROVE  Conserved(q)'
  <1>1. TypeInv /\ Run(u)
    BY DEF IInv, Run
  <1>2. pc[u] \in {"popout", "repopout"} /\ Mode[u] # "sink" /\ pc \in [Task -> PCs]
    BY <1>1 DEF PopOut, TypeInv, TypeOK, ThreadsOK, Positions, Position, Reducing
  <1>3. PICK r \in Queue : r = OutQueue(u) /\ r[1] = u
    BY <1>1, <1>2, OutQueueType
  <1>4. PICK x : x = Head(Grown(r, Limit(r[1])))
    OBVIOUS
  <1>5. /\ ProducerPop(r, Limit(r[1])) /\ out' = [out EXCEPT ![u] = x]
        /\ UNCHANGED <<full, current, held>>
    BY <1>3, <1>4 DEF PopOut, PopOutput, OutBuffer, groupVars, ghostVars
  <1>6. /\ \A b \in Own(r)' : b \in Range(free[r]) \/ b \notin Own(r) =>
               b = x \/ b \in Range(free'[r])
        /\ \A p \in Queue \ {r} : free'[p] = free[p] /\ Own(p)' = Own(p)
    BY <1>1, <1>4, <1>5, ProducerPopPlaces
  <1>7. Filled(r, x)'
    <2>1. pc'[u] \in {"regenerate", "reduce", "work"}
      BY <1>2 DEF PopOut
    <2>2. out'[u] = x
      BY <1>1, <1>5 DEF TypeInv, TypeOK, ThreadsOK
    <2>3. OutQueue(u)' = r
      BY <1>3, <1>5 DEF OutQueue
    <2> QED BY <1>2, <1>3, <2>1, <2>2, <2>3 DEF Filled, HoldsOutput
  <1>8. ASSUME NEW b \in Own(q)', Placed(q, b) \/ b \notin Own(q)
        PROVE  Placed(q, b)' \/ Filled(q, b)'
    <2>1. CASE q = r
      BY <1>5, <1>6, <1>7, <1>8, <2>1 DEF Placed, Reader
    <2>2. CASE q # r
      BY <1>5, <1>6, <1>8, <2>2 DEF Placed, Reader
    <2> QED BY <2>1, <2>2
  <1>9. ~ Push(u)
    BY <1>2 DEF Push
  <1> QED BY <1>1, <1>8, <1>9, ConservedKeeps

(* A copy of a broadcast goes from the free side to the full side. *)
LEMMA ConservedCopy ==
    ASSUME IInv, TypeInv', NEW u \in Task, BroadcastCopy(u), NEW q \in Queue, Conserved(q),
           pc'[q[1]] # "done"
    PROVE  Conserved(q)'
  <1>1. TypeInv /\ Run(u)
    BY DEF IInv, Run
  <1>2. pc[u] \in {"push", "repush"} /\ idx[u] \in 1..NTargets(u)
    BY <1>1, ConstantsType DEF BroadcastCopy, TypeInv, TypeOK, ThreadsOK
  <1>3. PICK r \in Queue : r = <<u, idx[u]>> /\ r[1] = u
    BY <1>2, ConstantsType
  <1>4. PICK x : x = Head(Grown(r, Limit(r[1])))
    OBVIOUS
  <1>5. /\ ProducerPop(r, Limit(r[1])) /\ full' = [full EXCEPT ![r] = @ \o <<x>>]
        /\ UNCHANGED <<held, pc>>
    BY <1>3, <1>4 DEF BroadcastCopy, PushCopy, ProducerPop, ProducerPush, ghostVars
  <1>6. /\ \A b \in Own(r)' : b \in Range(free[r]) \/ b \notin Own(r) =>
               b = x \/ b \in Range(free'[r])
        /\ \A p \in Queue \ {r} : free'[p] = free[p] /\ Own(p)' = Own(p)
    BY <1>1, <1>4, <1>5, ProducerPopPlaces
  <1>7. /\ \A p \in Queue \ {r} : full'[p] = full[p]
        /\ full[r] \in Seq(Pointer \cup {EndOfStream}) /\ full'[r] = full[r] \o <<x>>
    BY <1>1, <1>5 DEF TypeInv, TypeOK, QueuesOK
  <1>8. x \in Pointer
    BY <1>1, <1>4, <1>5, GrownType DEF TypeInv, ProducerPop
  <1>9. Range(full'[r]) = Range(full[r]) \cup {x}
    <2> DEFINE S == Pointer \cup {EndOfStream}
    <2>1. x \in S /\ full[r] \in Seq(S)
      BY <1>7, <1>8
    <2> HIDE DEF S
    <2>2. full'[r] = Append(full[r], x)
      BY <1>7, <2>1, AppendRange
    <2> QED BY <2>1, <2>2, AppendRange
  <1>10. ASSUME NEW b \in Own(q)', Placed(q, b) \/ b \notin Own(q)
         PROVE  Placed(q, b)'
    <2>1. CASE q = r
      BY <1>5, <1>6, <1>9, <1>10, <2>1 DEF Placed, Reader
    <2>2. CASE q # r
      BY <1>5, <1>6, <1>7, <1>10, <2>2 DEF Placed, Reader
    <2> QED BY <2>1, <2>2
  <1>11. CASE ~ Push(u)
    BY <1>1, <1>10, <1>11, ConservedKeeps
  <1>12. ~ Push(u)
    <2>1. Push(u) => pc'[u] = AfterPush(u) /\ AfterPush(u) \in {"repopout", "get", "release"}
      BY <1>1, <1>2 DEF Push, AfterPush, TypeInv, TypeOK, ThreadsOK
    <2> QED BY <1>2, <1>5, <2>1
  <1> QED BY <1>11, <1>12

(* A pushed buffer is on the full side. *)
LEMMA ConservedPush ==
    ASSUME IInv, NEW u \in Task, Push(u), NEW q \in Queue, Conserved(q), pc'[q[1]] # "done"
    PROVE  Conserved(q)'
  <1>1. TypeInv /\ Run(u) /\ q[1] \in Task
    BY ConstantsType DEF IInv, Run
  <1>2. PICK r \in Queue : r = OutQueue(u) /\ r[1] = u
    BY <1>1, PushedItems
  <1>3. PICK x : x = out[u]
    OBVIOUS
  <1>4. PICK items \in {<<x>>, <<x, EndOfStream>>} : full' = [full EXCEPT ![r] = @ \o items]
    BY <1>1, <1>2, <1>3, PushedItems
  <1>5. UNCHANGED <<free, capacity, held>>
    BY <1>1, PushedItems
  <1>6. /\ \A p \in Queue \ {r} : full'[p] = full[p]
        /\ full[r] \in Seq(Pointer \cup {EndOfStream}) /\ full'[r] = full[r] \o items
        /\ x \in Pointer
    BY <1>1, <1>3, <1>4 DEF TypeInv, TypeOK, QueuesOK, ThreadsOK
  <1>7. Range(full[r]) \cup {x} \subseteq Range(full'[r])
    <2> DEFINE S == Pointer \cup {EndOfStream}
    <2>1. x \in S /\ full[r] \in Seq(S) /\ EndOfStream \in S /\ x # EndOfStream
      <3>1. x # EndOfStream
        BY <1>6, SchedulerAssumption, GroupAssumption DEF Pointer
      <3> QED BY <1>6, <3>1
    <2> HIDE DEF S
    <2>2. /\ full[r] \o <<x>> = Append(full[r], x)
          /\ full[r] \o <<x, EndOfStream>> = Append(Append(full[r], x), EndOfStream)
          /\ Range(Append(full[r], x)) = Range(full[r]) \cup {x}
          /\ Range(Append(Append(full[r], x), EndOfStream)) = Range(full[r]) \cup {x, EndOfStream}
      BY <2>1, PushedOnce
    <2> QED BY <1>6, <2>2
  <1>8. ASSUME NEW b \in Own(q)', Placed(q, b) PROVE Placed(q, b)'
    <2>1. CASE q = r
      BY <1>5, <1>7, <1>8, <2>1 DEF Placed, Reader
    <2>2. CASE q # r
      BY <1>5, <1>6, <1>8, <2>2 DEF Placed, Reader
    <2> QED BY <2>1, <2>2
  <1>9. Own(q)' = Own(q)
    BY <1>5 DEF Own
  <1>10. CASE q[1] # u
    BY <1>1, <1>8, <1>9, <1>10, ConservedKeeps
  <1>11. CASE q[1] = u
    <2>1. pc[u] # "done"
      BY <1>1, DoneIsDone
    <2>2. ASSUME NEW b \in Own(q), Filled(q, b) PROVE Placed(q, b)'
      <3>1. q = r /\ b = x
        BY <1>2, <1>3, <1>11, <2>2 DEF Filled
      <3> QED BY <1>7, <3>1 DEF Placed
    <2>3. \A b \in Own(q) : Placed(q, b) \/ Filled(q, b)
      BY <1>11, <2>1 DEF Conserved, Placed, Filled
    <2>4. \A b \in Own(q) : Placed(q, b)'
      BY <1>8, <1>9, <2>2, <2>3
    <2> QED BY <1>9, <2>4 DEF Conserved, Placed
  <1> QED BY <1>10, <1>11

LEMMA HangInit == Plain /\ Init => HInv
  <1> SUFFICES ASSUME Plain, Init PROVE HInv
    OBVIOUS
  <1>1. SInv
    BY StreamInit
  <1>2. \A t \in Task : pc[t] = "get" /\ held[t] = {}
    BY DEF Init, InitOf
  <1>3. ASSUME NEW q \in Queue PROVE Conserved(q) /\ EndSent(q)
    <2>1. capacity[q] = 0 /\ 1..0 = {}
      BY DEF Init, InitOf, InitGroups, InitQueues
    <2>2. Own(q) = {}
      BY <2>1 DEF Own
    <2>3. pc[q[1]] = "get"
      BY <1>2, ConstantsType
    <2> QED BY <2>2, <2>3 DEF Conserved, EndSent
  <1>4. \A t \in Task : Copying(t) /\ \A i \in 1..NInputs(t) : Kept(t, i)
    BY <1>2 DEF Copying, Kept, KeptBut
  <1> QED BY <1>1, <1>3, <1>4 DEF HInv

LEMMA HangNext == Plain /\ HInv /\ [Next]_vars => HInv'
  <1> SUFFICES ASSUME Plain, HInv, [Next]_vars PROVE HInv'
    OBVIOUS
  <1>1. SInv /\ SInv' /\ IInv /\ TypeInv /\ TypeInv'
    BY StreamNext DEF HInv, SInv, IInv
  <1>2. CASE UNCHANGED <<queueVars, groupVars, threadVars, failed, ghostVars>>
    <2>1. UNCHANGED <<free, full, capacity, current, sent, pc, idx, finished, inputs, out, held>>
      BY <1>2 DEF queueVars, groupVars, threadVars, ghostVars
    <2>2. /\ \A q \in Queue : Conserved(q)' <=> Conserved(q)
          /\ \A q \in Queue : EndSent(q)' <=> EndSent(q)
      BY <2>1 DEF Conserved, EndSent, Own, Reader, HoldsOutput, OutQueue
    <2>3. \A t \in Task : /\ Copying(t)' <=> Copying(t)
                          /\ \A i \in 1..NInputs(t) : Kept(t, i)' <=> Kept(t, i)
      BY <2>1 DEF Copying, Kept, KeptBut, Reading, Sole
    <2> QED BY <1>1, <2>2, <2>3 DEF HInv
  <1>3. ASSUME NEW u \in Task, Run(u) PROVE HInv'
    <2>1. ASSUME NEW q \in Queue PROVE Conserved(q)' /\ EndSent(q)'
      <3>1. Conserved(q) /\ EndSent(q)
        BY DEF HInv
      <3>2. Conserved(q)'
        <4>1. CASE pc'[q[1]] = "done"
          BY <4>1 DEF Conserved
        <4>2. CASE pc'[q[1]] # "done"
          BY <1>1, <1>3, <3>1, <4>2, ConservedStill, ConservedPopInput, ConservedRelease,
             ConservedPopOut, ConservedPush, ConservedCopy
        <4> QED BY <4>1, <4>2
      <3> QED BY <1>1, <1>3, <3>1, <3>2, EndSentStep
    <2>2. ASSUME NEW t \in Task PROVE Copying(t)' /\ \A i \in 1..NInputs(t) : Kept(t, i)'
      <3>1. Copying(t) /\ \A i \in 1..NInputs(t) : Kept(t, i) /\ Alone(t, i)
        BY DEF HInv, Plain
      <3> QED BY <1>1, <1>3, <3>1, CopyingStep, KeptStep
    <2> QED BY <1>1, <2>1, <2>2 DEF HInv
  <1> QED BY <1>2, <1>3 DEF Next, Abort, Joined, vars

----------------------------------------------------------------------------
(* The tasks never all wait for each other                                 *)

(* t waits for an item of q, or for a buffer of q to fill. *)
WaitsToRead(t, q) ==
    \E i \in 1..NInputs(t) :
        /\ q = Sole(t, i) /\ Alone(t, i)
        /\ pc[t] \in Getting /\ idx[t] = i /\ ~ finished[t][i]
        /\ full[q] = <<>>

WaitsToFill(t, q) ==
    /\ q[1] = t
    /\ pc[t] \in {"popout", "repopout", "push", "repush"}
    /\ Grown(q, Limit(t)) = <<>>
    /\ ~ (HoldsOutput(t) /\ OutQueue(t) = q)
    /\ ~ LeftBehind(q)

LEMMA WaitsForQueue ==
    ASSUME Plain, HInv, NEW t \in Task, Waits(t)
    PROVE  \E q \in Queue : WaitsToRead(t, q) \/ WaitsToFill(t, q)
  <1>1. /\ TypeInv /\ Position(t) /\ pc[t] \in PCs /\ idx[t] \in Nat \ {0}
        /\ NInputs(t) \in Nat /\ NTargets(t) \in Nat
    BY ConstantsType DEF HInv, SInv, IInv, TypeInv, TypeOK, ThreadsOK, Positions
  <1>2. CASE /\ pc[t] \in Getting /\ ~ GotInputs(t, pc[t]) /\ ~ finished[t][idx[t]]
             /\ full[InQueue(t, idx[t])] = <<>>
    <2>1. PICK i \in 1..NInputs(t) : i = idx[t]
      BY <1>1, <1>2 DEF GotInputs
    <2>2. Alone(t, i)
      BY DEF Plain
    <2>3. PICK q \in Queue : q = Sole(t, i) /\ InQueue(t, i) = q
      BY <1>1, <2>2, SoleFacts
    <2> QED BY <1>2, <2>1, <2>2, <2>3 DEF WaitsToRead
  <1>3. CASE pc[t] \in {"popout", "repopout"} /\ Grown(OutQueue(t), Limit(t)) = <<>>
    <2>1. Mode[t] # "sink" /\ ~ HoldsOutput(t)
      BY <1>1, <1>3 DEF Position, Reducing, HoldsOutput
    <2>2. PICK q \in Queue : q = OutQueue(t) /\ q[1] = t
      BY <1>1, <2>1, OutQueueType
    <2>3. ~ LeftBehind(q)
      <3>1. Pattern[t] = "sequential" => q[2] = current[t] /\ current[t] \in Nat
        BY <1>1, <2>1, <2>2 DEF OutQueue, Position
      <3> QED BY <1>3, <2>2, <3>1 DEF LeftBehind
    <2> QED BY <1>3, <2>1, <2>2, <2>3 DEF WaitsToFill
  <1>4. CASE /\ pc[t] \in {"push", "repush"} /\ Pattern[t] = "broadcast" /\ idx[t] <= NTargets(t)
             /\ Grown(<<t, idx[t]>>, Limit(t)) = <<>>
    <2>1. PICK q \in Queue : q = <<t, idx[t]>> /\ q[1] = t /\ q[2] = idx[t]
      BY <1>1, <1>4, ConstantsType
    <2>2. idx[t] >= 2
      BY <1>4 DEF HInv, Copying, FirstCopy
    <2>3. OutQueue(t) # q
      BY <1>4, <2>1, <2>2 DEF OutQueue
    <2>4. ~ LeftBehind(q)
      BY <1>4, <2>1 DEF LeftBehind
    <2> QED BY <1>4, <2>1, <2>3, <2>4 DEF WaitsToFill
  <1> QED BY <1>2, <1>3, <1>4 DEF Waits

(* Who waits for an item waits for a task that goes on: one that has left  *)
(* has sent an end marker, which is neither on its way nor read.           *)
LEMMA ReadsFromLive ==
    ASSUME Plain, HInv, NEW t \in Task, NEW q \in Queue, WaitsToRead(t, q)
    PROVE  t = Reader(q) /\ pc[q[1]] # "done"
  <1>1. PICK i \in 1..NInputs(t) :
           /\ q = Sole(t, i) /\ Alone(t, i)
           /\ ~ finished[t][i] /\ full[q] = <<>>
    BY DEF WaitsToRead
  <1>2. /\ q \in Streams /\ Range(InQueues[t][i]) = {q}
        /\ Open(q) <=> ~ Outlived(t, i)
    BY <1>1, SoleFacts
  <1>3. t = Reader(q)
    BY <1>2, WiringFacts DEF Reader
  <1>4. ASSUME pc[q[1]] = "done" PROVE FALSE
    <2>1. EndOfStream \in Range(sent[q])
      BY <1>4 DEF HInv, EndSent
    <2>2. Open(q) /\ SInv /\ TypeInv
      BY <1>1, <1>2 DEF Outlived, HInv, SInv, IInv
    <2>3. EndOfStream \notin Range(got[q])
      BY <1>1, <1>2, <2>2 DEF SInv, EndInv
    <2>4. InTransit(sent[q], got[q], Contents(q))
      BY <1>2, <2>2 DEF SInv, StreamInv, CutOff
    <2>5. Len(Contents(q)) = 0
      BY <1>1, <2>2, StreamTypes, MappedFacts DEF Contents
    <2>6. sent[q] \in Seq(Tag) /\ got[q] \in Seq(Tag)
      BY <2>2, StreamTypes
    <2>7. Range(sent[q]) \subseteq Range(got[q])
      <3>1. Len(sent[q]) = Len(got[q]) /\ \A k \in 1..Len(got[q]) : sent[q][k] = got[q][k]
        BY <2>4, <2>5, <2>6, LenProperties DEF InTransit
      <3> QED BY <2>6, <3>1, LenProperties DEF Range
    <2> QED BY <2>1, <2>3, <2>7
  <1> QED BY <1>3, <1>4

(* Who waits for a buffer waits for a task that goes on: one that has read *)
(* its end markers does so after its producer has done with the queue.     *)
LEMMA FillsForLive ==
    ASSUME Plain, HInv, NEW t \in Task, NEW q \in Queue, WaitsToFill(t, q), ~ Quit(Reader(q))
    PROVE  pc[Reader(q)] # "done"
  <1>1. PICK u \in Task : u = Reader(q)
    BY PlainFacts
  <1>2. PICK i \in 1..NInputs(u) : q = Sole(u, i) /\ Alone(u, i)
    BY <1>1, PlainFacts
  <1>3. ASSUME pc[u] = "done" PROVE FALSE
    <2>1. SInv
      BY DEF HInv
    <2>2. finished[u][i]
      <3>1. NInputs(u) > 0
        BY <1>2, ConstantsType
      <3> QED BY <1>1, <1>3, <3>1 DEF Quit, AllFinished
    <2>3. LeftBehind(q)
      BY <1>2, <2>1, <2>2, EndedInput
    <2> QED BY <2>3 DEF WaitsToFill
  <1> QED BY <1>1, <1>3

(* The two ends of a queue do not wait for each other: of its two or more  *)
(* buffers, a failed reader keeps one.                                     *)
LEMMA EndsMeet ==
    ASSUME Plain, HInv, NEW q \in Queue, NEW t \in Task, WaitsToRead(t, q),
           NEW u \in Task, WaitsToFill(u, q)
    PROVE  FALSE
  <1>1. PICK i \in 1..NInputs(t) :
           /\ q = Sole(t, i)
           /\ pc[t] \in Getting /\ idx[t] = i /\ ~ finished[t][i]
           /\ full[q] = <<>>
    BY DEF WaitsToRead
  <1>2. q[1] = u /\ pc[u] # "done" /\ Grown(q, Limit(u)) = <<>>
    BY DEF WaitsToFill
  <1>3. /\ TypeInv /\ free[q] \in Seq(Pointer) /\ capacity[q] \in Nat
        /\ NTargets(u) \in Nat /\ Limit(u) \in Nat /\ idx[t] \in Nat
    BY ConstantsType DEF HInv, SInv, IInv, TypeInv, TypeOK, QueuesOK, ThreadsOK
  <1>4. free[q] = <<>> /\ ~ (capacity[q] < Limit(u))
    <2>1. Append(free[q], <<q, capacity[q] + 1>>) # <<>>
      BY <1>3, AppendProperties, EmptySeq
    <2> QED BY <1>2, <2>1 DEF Grown
  <1>5. capacity[q] >= 2
    <2>1. NTargets(u) >= 1
      BY <1>2, <1>3, GroupAssumption DEF TaskQueue
    <2> QED BY <1>3, <1>4, <2>1 DEF Limit
  <1>6. <<q, 1>> \in Own(q) /\ <<q, 2>> \in Own(q)
    BY <1>3, <1>5 DEF Own
  <1>7. Range(free[q]) = {} /\ Range(full[q]) = {}
    BY <1>1, <1>4, EmptyRange
  <1>8. Reader(q) = t
    BY ReadsFromLive
  <1>9. <<q, 1>> \in held[t] /\ <<q, 2>> \in held[t]
    BY <1>2, <1>6, <1>7, <1>8 DEF HInv, Conserved, WaitsToFill
  <1>10. ~ Reading(t, i) /\ pc[t] # "done"
    BY <1>1, <1>3 DEF Reading, Getting, Releasing
  <1>11. PICK x : KeptBut(t, i, x)
    BY <1>10 DEF HInv, Kept
  <1>12. <<q, 1>> = x /\ <<q, 2>> = x
    BY <1>1, <1>9, <1>10, <1>11 DEF KeptBut
  <1> QED BY <1>12

(* In a forest not every task of a set can have an edge within the set for *)
(* itself.                                                                 *)
LEMMA TooFewEdges ==
    ASSUME Forest, NEW D, D \subseteq Task, D # {}, NEW W, W \in [D -> EdgesWithin(D)]
    PROVE  \E t, u \in D : t # u /\ W[t] = W[u]
  <1>1. IsFiniteSet(D) /\ IsFiniteSet(EdgesWithin(D))
    BY FS_Subset DEF Forest, EdgesWithin
  <1>2. Cardinality(EdgesWithin(D)) < Cardinality(D)
    BY DEF Forest
  <1> QED BY <1>1, <1>2, FS_PigeonHole

(* Whatever the graph, if it is a forest of plain edges: as long as nobody *)
(* aborts the run and no process returns FALSE, some task that has not     *)
(* left can take a step, also when get_requisition of some tasks failed.   *)
THEOREM NoHangCorrect ==
    ASSUME Plain, Forest
    PROVE  Spec => []NoHang
  <1>1. HInv => NoHang
    <2> SUFFICES ASSUME HInv, \A t \in Task : pc[t] = "done" \/ Waits(t),
                        ~ AllDone, \A t \in Task : ~ Quit(t)
                 PROVE  FALSE
      BY DEF NoHang
    <2>1. PICK D : D = {t \in Task : pc[t] # "done"}
      OBVIOUS
    <2>2. D \subseteq Task /\ D # {}
      BY <2>1 DEF AllDone
    <2>3. ASSUME NEW t \in D
          PROVE  \E q \in EdgesWithin(D) : WaitsToRead(t, q) \/ WaitsToFill(t, q)
      <3>1. t \in Task /\ Waits(t)
        BY <2>1
      <3>2. PICK q \in Queue : WaitsToRead(t, q) \/ WaitsToFill(t, q)
        BY <3>1, WaitsForQueue
      <3>3. q[1] \in Task /\ Reader(q) \in Task
        BY PlainFacts
      <3>4. CASE WaitsToRead(t, q)
        <4>1. t = Reader(q) /\ pc[q[1]] # "done"
          BY <3>1, <3>4, ReadsFromLive
        <4> QED BY <2>1, <3>3, <3>4, <4>1 DEF EdgesWithin
      <3>5. CASE WaitsToFill(t, q)
        <4>1. q[1] = t
          BY <3>5 DEF WaitsToFill
        <4>2. pc[Reader(q)] # "done"
          BY <3>1, <3>3, <3>5, FillsForLive
        <4> QED BY <2>1, <3>3, <3>5, <4>1, <4>2 DEF EdgesWithin
      <3> QED BY <3>2, <3>4, <3>5
    <2>4. PICK W : W = [t \in D |-> CHOOSE q \in EdgesWithin(D) :
                                        WaitsToRead(t, q) \/ WaitsToFill(t, q)]
      OBVIOUS
    <2>5. \A t \in D : W[t] \in EdgesWithin(D) /\ (WaitsToRead(t, W[t]) \/ WaitsToFill(t, W[t]))
      BY <2>3, <2>4
    <2>6. PICK t \in D, u \in D : t # u /\ W[t] = W[u]
      <3>1. W \in [D -> EdgesWithin(D)]
        BY <2>4, <2>5
      <3> QED BY <2>2, <3>1, TooFewEdges
    <2>7. PICK q \in Queue : q = W[t]
      BY <2>5 DEF EdgesWithin
    <2>8. t \in Task /\ u \in Task
      BY <2>2
    <2>9. CASE WaitsToRead(t, q) /\ WaitsToRead(u, q)
      BY <2>6, <2>8, <2>9, ReadsFromLive
    <2>10. CASE WaitsToFill(t, q) /\ WaitsToFill(u, q)
      BY <2>6, <2>10 DEF WaitsToFill
    <2>11. CASE \/ WaitsToRead(t, q) /\ WaitsToFill(u, q)
                \/ WaitsToRead(u, q) /\ WaitsToFill(t, q)
      BY <2>8, <2>11, EndsMeet
    <2> QED BY <2>5, <2>6, <2>7, <2>9, <2>10, <2>11
  <1>2. Init => HInv
    BY HangInit
  <1>3. HInv /\ [Next]_vars => HInv'
    BY HangNext
  <1> QED BY <1>1, <1>2, <1>3, PTL DEF Spec

=============================================================================
