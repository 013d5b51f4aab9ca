--------------------------- MODULE SchedulerProofs ---------------------------
(***************************************************************************)
(* Theorems about the default scheduler, for every graph that satisfies    *)
(* the assumptions of modules Group and Scheduler.                         *)
(***************************************************************************)
EXTENDS Scheduler, SequenceTheorems, TLAPS

(* Where the thread of t may be, given its mode, and what its loop counter *)
(* and the position in its group then are.                                 *)
Reducing == {"reduce", "rerelease", "reget", "regenerate", "repush", "repopout"}

Position(t) ==
    /\ pc[t] \in {"popout", "push"} => Mode[t] # "sink"
    /\ pc[t] \in Reducing => Mode[t] = "reductor"
    /\ pc[t] \in {"work", "push"} => Mode[t] # "reductor"
    /\ pc[t] = "flush" => NInputs(t) > 0
    /\ pc[t] \in Releasing => idx[t] <= NInputs(t)
    /\ Mode[t] # "sink" => current[t] \in 1..NTargets(t)

Positions == \A t \in Task : Position(t)

TypeInv == TypeOK /\ Positions

----------------------------------------------------------------------------
(* What the assumptions say about queues, buffers and inputs *)

LEMMA ConstantsType ==
    /\ \A t \in Task : NTargets(t) \in Nat /\ NInputs(t) \in Nat /\ Limit(t) \in Nat
    /\ \A t \in Task : \A k \in 1..NTargets(t) : <<t, k>> \in Queue
    /\ \A q \in Queue : q[1] \in Task /\ q = <<q[1], q[2]>>
    /\ \A q \in Queue : \A n \in 1..Limit(q[1]) : <<q, n>> \in Buffer
  <1>1. \A t \in Task : NTargets(t) \in Nat /\ NInputs(t) \in Nat /\ Limit(t) \in Nat
    BY GroupAssumption, SchedulerAssumption DEF NTargets, NInputs, Limit
  <1>2. \A t \in Task : \A k \in 1..NTargets(t) : <<t, k>> \in Queue
    BY GroupAssumption DEF TaskQueue
  <1>3. \A q \in Queue : q[1] \in Task /\ q = <<q[1], q[2]>>
    BY GroupAssumption DEF TaskQueue
  <1>4. \A q \in Queue : \A n \in 1..Limit(q[1]) : <<q, n>> \in Buffer
    BY DEF Buffer
  <1> QED BY <1>1, <1>2, <1>3, <1>4

(* The queue a task reads next from one of its inputs exists. *)
LEMMA InQueueType ==
    ASSUME TypeOK, NEW t \in Task, NEW i \in 1..NInputs(t)
    PROVE  InQueue(t, i) \in Queue
  <1>1. cur[t] \in [1..NInputs(t) -> Nat \ {0}] /\ cur[t][i] <= Len(InQueues[t][i])
    BY DEF TypeOK, InputsOK
  <1>2. InQueues[t] \in Seq(Seq(Queue)) /\ i \in 1..Len(InQueues[t])
    BY SchedulerAssumption DEF NInputs
  <1>3. InQueues[t][i] \in Seq(Queue)
    BY <1>2
  <1>4. cur[t][i] \in Nat \ {0}
    BY <1>1
  <1>5. cur[t][i] \in 1..Len(InQueues[t][i])
    BY <1>1, <1>3, <1>4
  <1> QED BY <1>3, <1>5, ElementOfSeq DEF InQueue

(* The queue a task that is no sink sends to next exists. *)
LEMMA OutQueueType ==
    ASSUME TypeInv, NEW t \in Task, Mode[t] # "sink"
    PROVE  OutQueue(t) \in Queue /\ OutQueue(t)[1] = t
  <1>1. NTargets(t) > 0 /\ NTargets(t) \in Nat
    BY ConstantsType, SchedulerAssumption
  <1>2. current[t] \in 1..NTargets(t)
    BY DEF TypeInv, Positions, Position
  <1> QED BY <1>1, <1>2, ConstantsType DEF OutQueue

LEMMA ValueType ==
    ASSUME TypeOK, NEW b PROVE Value(b) \in Nat
  BY DEF TypeOK, GroupsOK, Value

(* What the producer's queue holds right before a pop, and what is left.   *)
LEMMA GrownType ==
    ASSUME TypeOK, NEW q \in Queue
    PROVE  /\ Grown(q, Limit(q[1])) \in Seq(Pointer)
           /\ Grown(q, Limit(q[1])) # <<>> =>
                /\ Head(Grown(q, Limit(q[1]))) \in Pointer
                /\ Tail(Grown(q, Limit(q[1]))) \in Seq(Pointer)
  <1> DEFINE lim == Limit(q[1])
  <1>1. free[q] \in Seq(Pointer) /\ capacity[q] \in Nat /\ lim \in Nat
    BY ConstantsType DEF TypeOK, QueuesOK
  <1>2. capacity[q] < lim => <<q, capacity[q] + 1>> \in Pointer
    BY <1>1, ConstantsType DEF Pointer
  <1>3. Grown(q, lim) \in Seq(Pointer)
    BY <1>1, <1>2 DEF Grown
  <1> HIDE DEF lim
  <1>4. Grown(q, lim) # <<>> => /\ Head(Grown(q, lim)) \in Pointer
                                /\ Tail(Grown(q, lim)) \in Seq(Pointer)
    BY <1>3, HeadTailProperties
  <1> QED BY <1>3, <1>4 DEF lim

----------------------------------------------------------------------------
(* The operations of a group keep queues and buffers well-typed.           *)

LEMMA ExtendOne ==
    ASSUME NEW D, NEW S, NEW f \in [D -> Seq(S)], NEW x, NEW s \in Seq(S), NEW e \in S
    PROVE  /\ [f EXCEPT ![x] = @ \o s] \in [D -> Seq(S)]
           /\ [f EXCEPT ![x] = Append(@, e)] \in [D -> Seq(S)]
  <1>1. \A d \in D : f[d] \o s \in Seq(S) /\ Append(f[d], e) \in Seq(S)
    BY ConcatProperties, AppendProperties
  <1> QED BY <1>1

LEMMA PopOutputType ==
    ASSUME TypeInv, NEW t \in Task, Mode[t] # "sink", PopOutput(t), UNCHANGED full
    PROVE  QueuesOK' /\ OutBuffer(t) \in Pointer
  <1> DEFINE q == OutQueue(t)
  <1>1. q \in Queue /\ q[1] = t
    BY OutQueueType
  <1>2. TypeOK
    BY DEF TypeInv
  <1>3. /\ Grown(q, Limit(t)) # <<>>
        /\ free' = [free EXCEPT ![q] = Tail(Grown(q, Limit(t)))]
        /\ capacity' = [capacity EXCEPT ![q] = IF @ < Limit(t) THEN @ + 1 ELSE @]
    BY DEF PopOutput, ProducerPop
  <1>4. /\ Head(Grown(q, Limit(t))) \in Pointer
        /\ Tail(Grown(q, Limit(t))) \in Seq(Pointer)
    BY <1>1, <1>2, <1>3, GrownType
  <1>5. Limit(t) \in Nat
    BY ConstantsType
  <1> HIDE DEF q
  <1>6. free' \in [Queue -> Seq(Pointer)]
    BY <1>1, <1>2, <1>3, <1>4 DEF TypeOK, QueuesOK
  <1>7. capacity' \in [Queue -> Nat] /\ \A r \in Queue : capacity'[r] <= Limit(r[1])
    BY <1>1, <1>2, <1>3, <1>5 DEF TypeOK, QueuesOK
  <1>8. QueuesOK'
    BY <1>2, <1>6, <1>7 DEF TypeOK, QueuesOK
  <1> QED BY <1>4, <1>8 DEF OutBuffer, q

LEMMA FinishType ==
    ASSUME TypeOK, NEW t \in Task, Finish(t), data' \in [Buffer -> Nat]
    PROVE  QueuesOK' /\ GroupsOK'
  <1> DEFINE mine == {q \in Queue : q[1] = t}
  <1>1. full' \in [Queue -> Seq(Pointer \cup {EndOfStream})]
    BY DEF Finish, FinishTo, TypeOK, QueuesOK
  <1>2. sent' \in [Queue -> Seq(Tag)]
    BY DEF Finish, FinishTo, TypeOK, GroupsOK, Tag
  <1> QED BY <1>1, <1>2 DEF Finish, FinishTo, TypeOK, QueuesOK, GroupsOK

LEMMA PopInputType ==
    ASSUME TypeOK, NEW q \in Queue, PopInputBuffer(q)
    PROVE  /\ QueuesOK' /\ GroupsOK'
           /\ InBuffer(q) \in Pointer \cup {EndOfStream}
  <1>1. full[q] \in Seq(Pointer \cup {EndOfStream}) /\ full[q] # <<>>
    BY DEF TypeOK, QueuesOK, PopInputBuffer, ConsumerPop
  <1>2. /\ Head(full[q]) \in Pointer \cup {EndOfStream}
        /\ Tail(full[q]) \in Seq(Pointer \cup {EndOfStream})
    BY <1>1, HeadTailProperties
  <1>3. full' \in [Queue -> Seq(Pointer \cup {EndOfStream})]
    BY <1>2 DEF TypeOK, QueuesOK, PopInputBuffer, ConsumerPop
  <1>4. Content(InBuffer(q)) \in Tag
    BY ValueType DEF Content, Tag
  <1>5. got' \in [Queue -> Seq(Tag)]
    BY <1>4 DEF TypeOK, GroupsOK, PopInputBuffer
  <1> QED BY <1>2, <1>3, <1>5 DEF TypeOK, QueuesOK, GroupsOK, PopInputBuffer, InBuffer

LEMMA NextTargetType ==
    ASSUME TypeInv, NEW t \in Task, Mode[t] # "sink"
    PROVE  NextTarget(t) \in 1..NTargets(t)
  <1>1. NTargets(t) \in Nat /\ NTargets(t) > 0 /\ current[t] \in Nat
    BY ConstantsType, SchedulerAssumption DEF TypeInv, Positions, Position
  <1>2. current[t] % NTargets(t) \in 0..NTargets(t) - 1
    BY <1>1
  <1> QED BY <1>1, <1>2 DEF NextTarget

(* A group serves one of its targets after the other. *)
GroupMoves(t) ==
    \E k \in 1..NTargets(t) : current' = [current EXCEPT ![t] = k]

LEMMA SubStreamType ==
    ASSUME NEW S, NEW t, NEW x \in S, EndOfStream \in S
    PROVE  SubStream(t, x) \in Seq(S)
  <1>1. <<x>> \in Seq(S) /\ <<x, EndOfStream>> \in Seq(S)
    OBVIOUS
  <1>2. SubStream(t, x) = <<x>> \/ SubStream(t, x) = <<x, EndOfStream>>
    BY Zenon DEF SubStream
  <1> QED BY <1>1, <1>2

LEMMA PushType ==
    ASSUME TypeInv, NEW t \in Task, Mode[t] # "sink", NEW b \in Pointer,
           PushScatter(t, b) \/ PushSequential(t, b) \/ PushOriginal(t, b)
    PROVE  QueuesOK' /\ GroupsOK' /\ GroupMoves(t)
  <1>1. QueuesOK /\ GroupsOK /\ Value(b) \in Nat
    BY ValueType DEF TypeInv, TypeOK
  <1>2. /\ current[t] \in 1..NTargets(t)
        /\ NextTarget(t) \in 1..NTargets(t)
        /\ NTargets(t) \in Nat
    BY NextTargetType, ConstantsType DEF TypeInv, Positions, Position
  <1>3. full' \in [Queue -> Seq(Pointer \cup {EndOfStream})]
    <2>1. <<b>> \in Seq(Pointer \cup {EndOfStream})
      OBVIOUS
    <2>2. SubStream(t, b) \in Seq(Pointer \cup {EndOfStream})
      BY SubStreamType
    <2>3. PICK q, items : /\ items \in {<<b>>, SubStream(t, b)}
                          /\ full' = [full EXCEPT ![q] = @ \o items]
      BY Zenon DEF PushScatter, PushSequential, PushOriginal, ProducerPush
    <2>4. items \in Seq(Pointer \cup {EndOfStream})
      BY <2>1, <2>2, <2>3
    <2>5. full \in [Queue -> Seq(Pointer \cup {EndOfStream})]
      BY <1>1 DEF QueuesOK
    <2> QED BY <2>3, <2>4, <2>5, ExtendOne
  <1>4. sent' \in [Queue -> Seq(Tag)]
    <2>1. Value(b) \in Tag /\ SubStream(t, Value(b)) \in Seq(Tag)
      BY <1>1, SubStreamType DEF Tag
    <2>2. PICK q : \/ sent' = [sent EXCEPT ![q] = Append(@, Value(b))]
                   \/ sent' = [sent EXCEPT ![q] = @ \o SubStream(t, Value(b))]
      BY Zenon DEF PushScatter, PushSequential, PushOriginal
    <2>3. sent \in [Queue -> Seq(Tag)]
      BY <1>1 DEF GroupsOK
    <2>4. /\ [sent EXCEPT ![q] = Append(@, Value(b))] \in [Queue -> Seq(Tag)]
          /\ [sent EXCEPT ![q] = @ \o SubStream(t, Value(b))] \in [Queue -> Seq(Tag)]
      BY <2>1, <2>3, ExtendOne
    <2> QED BY <2>2, <2>4
  <1>5. GroupMoves(t) /\ current' \in [Task -> Nat \ {0}] /\ received' \in [Task -> Nat]
    <2>1. \E k \in 1..NTargets(t) : current' = [current EXCEPT ![t] = k]
      <3>1. CASE PushScatter(t, b)
        BY <1>2, <3>1 DEF PushScatter
      <3>2. CASE PushSequential(t, b)
        BY <1>2, <3>2 DEF PushSequential
      <3>3. CASE PushOriginal(t, b)
        <4>1. current' = [current EXCEPT ![t] = current[t]]
          BY <1>1, <3>3 DEF PushOriginal, GroupsOK
        <4> QED BY <1>2, <4>1
      <3> QED BY <3>1, <3>2, <3>3
    <2>2. current' \in [Task -> Nat \ {0}]
      BY <1>1, <1>2, <2>1 DEF GroupsOK
    <2>3. received' \in [Task -> Nat]
      <3>1. received \in [Task -> Nat]
        BY <1>1 DEF GroupsOK
      <3>2. \/ received' = [received EXCEPT ![t] = @ + 1]
            \/ received' = [received EXCEPT ![t] = IF Complete(t) THEN 0 ELSE @ + 1]
        BY Zenon DEF PushScatter, PushSequential, PushOriginal
      <3> QED BY <3>1, <3>2
    <2> QED BY <2>1, <2>2, <2>3 DEF GroupMoves
  <1>6. UNCHANGED <<free, capacity, data, got>>
    BY DEF PushScatter, PushSequential, PushOriginal
  <1> QED BY <1>1, <1>3, <1>4, <1>5, <1>6 DEF QueuesOK, GroupsOK

LEMMA CopyType ==
    ASSUME TypeInv, NEW t \in Task, NEW pos \in 1..NTargets(t), NEW b \in Pointer,
           PushCopy(t, pos, b)
    PROVE  QueuesOK' /\ GroupsOK'
  <1> DEFINE q == <<t, pos>>
             lim == Limit(t)
             copy == Head(Grown(q, lim))
  <1>1. TypeOK /\ q \in Queue /\ q[1] = t /\ lim \in Nat
    BY ConstantsType DEF TypeInv
  <1>2. /\ Grown(q, lim) # <<>>
        /\ free' = [free EXCEPT ![q] = Tail(Grown(q, lim))]
        /\ capacity' = [capacity EXCEPT ![q] = IF @ < lim THEN @ + 1 ELSE @]
        /\ full' = [full EXCEPT ![q] = @ \o <<copy>>]
        /\ data' = [data EXCEPT ![copy] = Value(b)]
        /\ sent' = [sent EXCEPT ![q] = Append(@, Value(b))]
        /\ UNCHANGED <<current, received, got>>
    BY DEF PushCopy, ProducerPop, ProducerPush
  <1>3. copy \in Pointer /\ Tail(Grown(q, lim)) \in Seq(Pointer)
    BY <1>1, <1>2, GrownType
  <1>4. Value(b) \in Nat
    BY <1>1, ValueType
  <1> HIDE DEF q, copy, lim
  <1>5. free' \in [Queue -> Seq(Pointer)]
    BY <1>1, <1>2, <1>3 DEF TypeOK, QueuesOK
  <1>6. capacity' \in [Queue -> Nat] /\ \A r \in Queue : capacity'[r] <= Limit(r[1])
    BY <1>1, <1>2 DEF TypeOK, QueuesOK, lim
  <1>7. full' \in [Queue -> Seq(Pointer \cup {EndOfStream})]
    BY <1>1, <1>2, <1>3 DEF TypeOK, QueuesOK
  <1>8. data' \in [Buffer -> Nat]
    BY <1>1, <1>2, <1>4 DEF TypeOK, GroupsOK
  <1>9. sent' \in [Queue -> Seq(Tag)]
    BY <1>1, <1>2, <1>4 DEF TypeOK, GroupsOK, Tag
  <1> QED BY <1>1, <1>2, <1>5, <1>6, <1>7, <1>8, <1>9 DEF TypeOK, QueuesOK, GroupsOK

----------------------------------------------------------------------------
(* Type correctness *)

LEMMA InitType == Init => TypeInv
  <1> SUFFICES ASSUME Init PROVE TypeInv
    OBVIOUS
  <1>1. QueuesOK
    BY ConstantsType DEF Init, InitOf, InitGroups, InitQueues, QueuesOK
  <1>2. GroupsOK
    BY DEF Init, InitOf, InitGroups, GroupsOK
  <1>3. InputsOK
    <2>1. \A t \in Task : \A i \in 1..NInputs(t) : 1 <= Len(InQueues[t][i])
      BY SchedulerAssumption, EmptySeq DEF NInputs
    <2> QED BY <2>1 DEF Init, InitOf, InputsOK, Pointer
  <1>4. ThreadsOK
    <2>1. "get" \in PCs /\ NoBuffer \in Pointer
      BY DEF PCs, Getting, Pointer
    <2>2. /\ pc \in [Task -> PCs] /\ idx \in [Task -> Nat \ {0}]
          /\ out \in [Task -> Pointer] /\ count \in [Task -> Nat]
      BY <2>1 DEF Init, InitOf
    <2>3. go \in [Task -> BOOLEAN] /\ aborted \in BOOLEAN /\ failed \subseteq Task
      BY DEF Init, InitOf
    <2> QED BY <2>2, <2>3 DEF ThreadsOK
  <1>5. GhostsOK
    BY DEF Init, InitOf, GhostsOK
  <1>6. Positions
    BY ConstantsType, SchedulerAssumption
       DEF Init, InitOf, InitGroups, Positions, Position, Reducing, Releasing
  <1> QED BY <1>1, <1>2, <1>3, <1>4, <1>5, <1>6 DEF TypeInv, TypeOK

LEMMA InputUpdate ==
    ASSUME NEW f, NEW S, DOMAIN f = Task, \A t \in Task : f[t] \in [1..NInputs(t) -> S],
           NEW t \in Task, NEW i \in 1..NInputs(t), NEW x \in S
    PROVE  /\ DOMAIN [f EXCEPT ![t][i] = x] = Task
           /\ \A u \in Task : [f EXCEPT ![t][i] = x][u] \in [1..NInputs(u) -> S]
           /\ \A u \in Task : \A j \in 1..NInputs(u) :
                 [f EXCEPT ![t][i] = x][u][j] = IF u = t /\ j = i THEN x ELSE f[u][j]
  <1> DEFINE g == [f EXCEPT ![t] = [f[t] EXCEPT ![i] = x]]
  <1>1. DOMAIN g = Task /\ \A u \in Task : g[u] = IF u = t THEN [f[t] EXCEPT ![i] = x] ELSE f[u]
    OBVIOUS
  <1>2. [f[t] EXCEPT ![i] = x] \in [1..NInputs(t) -> S]
    OBVIOUS
  <1>3. [f EXCEPT ![t][i] = x] = g
    OBVIOUS
  <1> QED BY <1>1, <1>2, <1>3

(* A step of one thread leaves the positions of the others alone. *)
LEMMA OthersStay ==
    ASSUME TypeInv, NEW t \in Task, Position(t)',
           \A u \in Task \ {t} : pc'[u] = pc[u] /\ idx'[u] = idx[u] /\ current'[u] = current[u]
    PROVE  Positions'
  BY DEF TypeInv, Positions, Position

(* The end of a thread. *)
LEMMA LeaveType ==
    ASSUME TypeInv, NEW t \in Task, Leave(t), data' \in [Buffer -> Nat],
           count' \in [Task -> Nat], UNCHANGED aborted, failed' \subseteq Task
    PROVE  QueuesOK' /\ GroupsOK' /\ InputsOK' /\ ThreadsOK' /\ Positions'
  <1>1. QueuesOK' /\ GroupsOK' /\ UNCHANGED current
    BY FinishType DEF TypeInv, TypeOK, Leave, Finish, FinishTo
  <1>2. InputsOK'
    BY DEF TypeInv, TypeOK, InputsOK, Leave
  <1>3. ThreadsOK'
    BY DEF TypeInv, TypeOK, ThreadsOK, Leave, PCs
  <1>4. pc'[t] = "done" /\ \A u \in Task \ {t} : pc'[u] = pc[u]
    BY DEF TypeInv, TypeOK, ThreadsOK, Leave
  <1>5. UNCHANGED idx
    BY DEF Leave
  <1>6. Position(t)'
    BY <1>1, <1>4, <1>5 DEF TypeInv, Positions, Position, Reducing, Releasing
  <1> QED BY <1>1, <1>2, <1>3, <1>4, <1>5, <1>6, OthersStay

LEMMA PopInputStep ==
    ASSUME TypeInv, NEW t \in Task, PopInput(t)
    PROVE  TypeInv'
  <1> DEFINE i == idx[t]
             q == InQueue(t, i)
             b == InBuffer(q)
  <1>1. TypeOK /\ i \in 1..NInputs(t)
    BY ConstantsType DEF TypeInv, TypeOK, ThreadsOK, PopInput
  <1>2. q \in Queue
    BY <1>1, InQueueType
  <1>3. PopInputBuffer(q)
    BY DEF PopInput
  <1>4. QueuesOK' /\ GroupsOK' /\ b \in Pointer \cup {EndOfStream}
    BY <1>1, <1>2, <1>3, PopInputType
  <1>5. /\ b = EndOfStream => finished' = [finished EXCEPT ![t][i] = TRUE] /\ UNCHANGED held
        /\ b # EndOfStream => held' = [held EXCEPT ![t] = @ \cup {b}] /\ UNCHANGED finished
        /\ inputs' = [inputs EXCEPT ![t][i] = NewInput(@, b)]
        /\ idx' = [idx EXCEPT ![t] = i + 1]
        /\ UNCHANGED <<pc, cur, out, go, count, aborted, failed, stopped, log>>
    BY DEF PopInput
  <1>6. pc[t] \in Getting /\ UNCHANGED current
    BY DEF PopInput, PopInputBuffer
  <1> HIDE DEF b, q
  <1>7. NewInput(inputs[t][i], b) \in Pointer
    BY <1>1, <1>4 DEF NewInput, TypeOK, InputsOK
  <1>8. InputsOK'
    <2>1. /\ DOMAIN inputs' = Task
          /\ \A u \in Task : inputs'[u] \in [1..NInputs(u) -> Pointer]
      BY <1>1, <1>5, <1>7, InputUpdate DEF TypeOK, InputsOK
    <2>2. /\ DOMAIN finished' = Task
          /\ \A u \in Task : finished'[u] \in [1..NInputs(u) -> BOOLEAN]
      <3>1. /\ DOMAIN finished = Task
            /\ \A u \in Task : finished[u] \in [1..NInputs(u) -> BOOLEAN]
        BY <1>1 DEF TypeOK, InputsOK
      <3>2. CASE b = EndOfStream
        <4>1. /\ DOMAIN [finished EXCEPT ![t][i] = TRUE] = Task
              /\ \A u \in Task : [finished EXCEPT ![t][i] = TRUE][u] \in [1..NInputs(u) -> BOOLEAN]
          <5>1. TRUE \in BOOLEAN
            OBVIOUS
          <5> QED BY <1>1, <3>1, <5>1, InputUpdate, Zenon
        <4> QED BY <1>5, <3>2, <4>1
      <3>3. CASE b # EndOfStream
        BY <1>5, <3>1, <3>3
      <3> QED BY <3>2, <3>3
    <2> QED BY <1>1, <1>5, <2>1, <2>2 DEF TypeOK, InputsOK
  <1>9. ThreadsOK'
    BY <1>1, <1>5 DEF TypeOK, ThreadsOK
  <1>10. GhostsOK'
    BY <1>1, <1>4, <1>5 DEF TypeOK, GhostsOK
  <1>11. Position(t)'
    BY <1>5, <1>6 DEF TypeInv, Positions, Position, Getting, Releasing, Reducing
  <1>12. \A u \in Task \ {t} : pc'[u] = pc[u] /\ idx'[u] = idx[u] /\ current'[u] = current[u]
    BY <1>1, <1>5, <1>6 DEF TypeOK, ThreadsOK
  <1>13. Positions'
    BY <1>11, <1>12, OthersStay
  <1> QED BY <1>4, <1>8, <1>9, <1>10, <1>13 DEF TypeInv, TypeOK

(* The thread of t moves on, and its counter is left or set. *)
MovesTo(t, where, counter) ==
    pc' = [pc EXCEPT ![t] = where] /\ idx' = [idx EXCEPT ![t] = counter]

LEMMA MoveType ==
    ASSUME TypeInv, NEW t \in Task, NEW where \in PCs, NEW counter \in Nat \ {0},
           MovesTo(t, where, counter)
    PROVE  /\ pc' \in [Task -> PCs] /\ pc'[t] = where
           /\ idx' \in [Task -> Nat \ {0}] /\ idx'[t] = counter
           /\ \A u \in Task \ {t} : pc'[u] = pc[u] /\ idx'[u] = idx[u]
  BY DEF TypeInv, TypeOK, ThreadsOK, MovesTo

(* Leaving the counter alone is setting it to what it is. *)
LEMMA IdxStays ==
    ASSUME TypeInv, NEW t \in Task, UNCHANGED idx
    PROVE  idx' = [idx EXCEPT ![t] = idx[t]] /\ idx[t] \in Nat \ {0}
  BY DEF TypeInv, TypeOK, ThreadsOK

(* A move of the thread of t that disturbs nothing but pc and idx. *)
LEMMA PlainMove ==
    ASSUME TypeInv, NEW t \in Task, NEW where \in PCs, NEW counter \in Nat \ {0},
           MovesTo(t, where, counter), QueuesOK', GroupsOK', InputsOK', GhostsOK',
           out' \in [Task -> Pointer], go' \in [Task -> BOOLEAN], count' \in [Task -> Nat],
           aborted' \in BOOLEAN, failed' \subseteq Task,
           UNCHANGED current,
           where \in {"popout", "push"} => Mode[t] # "sink",
           where \in Reducing => Mode[t] = "reductor",
           where \in {"work", "push"} => Mode[t] # "reductor",
           where = "flush" => NInputs(t) > 0,
           where \in Releasing => counter <= NInputs(t)
    PROVE  TypeInv'
  <1>1. /\ pc' \in [Task -> PCs] /\ pc'[t] = where
        /\ idx' \in [Task -> Nat \ {0}] /\ idx'[t] = counter
        /\ \A u \in Task \ {t} : pc'[u] = pc[u] /\ idx'[u] = idx[u]
    BY MoveType
  <1>2. Position(t)'
    BY <1>1 DEF TypeInv, Positions, Position
  <1>3. Positions'
    BY <1>1, <1>2, OthersStay
  <1>4. ThreadsOK'
    BY <1>1 DEF ThreadsOK
  <1> QED BY <1>3, <1>4 DEF TypeInv, TypeOK

LEMMA PushStep ==
    ASSUME TypeInv, NEW t \in Task, Push(t)
    PROVE  TypeInv'
  <1>1. TypeOK /\ Position(t) /\ pc[t] \in {"push", "repush"} /\ Mode[t] # "sink"
    BY DEF TypeInv, Positions, Position, Push, Reducing
  <1>2. out[t] \in Pointer
    BY <1>1 DEF TypeOK, ThreadsOK
  <1>3. QueuesOK' /\ GroupsOK' /\ GroupMoves(t)
    BY <1>1, <1>2, PushType DEF Push
  <1>4. AfterPush(t) \in {"repopout", "get", "release"}
    BY <1>1 DEF AfterPush
  <1>5. /\ AfterPush(t) = "release" => NInputs(t) >= 1
        /\ AfterPush(t) = "repopout" => Mode[t] = "reductor"
    BY <1>1, ConstantsType DEF AfterPush, Position, Reducing
  <1>6. MovesTo(t, AfterPush(t), 1)
    BY DEF Push, MovesTo
  <1>7. /\ pc' \in [Task -> PCs] /\ pc'[t] = AfterPush(t)
        /\ idx' \in [Task -> Nat \ {0}] /\ idx'[t] = 1
        /\ \A u \in Task \ {t} : pc'[u] = pc[u] /\ idx'[u] = idx[u]
    <2>1. AfterPush(t) \in PCs
      BY <1>4 DEF PCs, Getting, Releasing
    <2> QED BY <1>6, <2>1, MoveType
  <1>8. /\ current'[t] \in 1..NTargets(t)
        /\ \A u \in Task \ {t} : current'[u] = current[u]
    BY <1>1, <1>3 DEF GroupMoves, TypeOK, GroupsOK
  <1>9. Position(t)'
    BY <1>1, <1>4, <1>5, <1>7, <1>8 DEF Position, Reducing, Releasing
  <1>10. Positions'
    BY <1>7, <1>8, <1>9, OthersStay
  <1>11. UNCHANGED <<finished, inputs, cur, out, go, count, aborted, failed, ghostVars>>
    BY DEF Push
  <1>12. InputsOK' /\ ThreadsOK' /\ GhostsOK'
    BY <1>1, <1>7, <1>11 DEF TypeOK, InputsOK, ThreadsOK, GhostsOK, ghostVars
  <1> QED BY <1>3, <1>10, <1>12 DEF TypeInv, TypeOK

LEMMA BroadcastCopyStep ==
    ASSUME TypeInv, NEW t \in Task, BroadcastCopy(t)
    PROVE  TypeInv'
  <1>1. /\ TypeOK /\ Position(t) /\ pc[t] \in {"push", "repush"} /\ Mode[t] # "sink"
        /\ idx[t] \in 1..NTargets(t) /\ out[t] \in Pointer
    BY ConstantsType
       DEF TypeInv, TypeOK, ThreadsOK, Positions, Position, BroadcastCopy, Reducing
  <1>2. QueuesOK' /\ GroupsOK'
    BY <1>1, CopyType DEF BroadcastCopy
  <1>3. UNCHANGED current
    BY DEF BroadcastCopy, PushCopy
  <1>4. pc[t] \in PCs /\ idx[t] + 1 \in Nat \ {0}
    BY <1>1 DEF TypeOK, ThreadsOK
  <1>5. MovesTo(t, pc[t], idx[t] + 1)
    BY <1>1 DEF BroadcastCopy, MovesTo, TypeOK, ThreadsOK
  <1>6. UNCHANGED <<finished, inputs, cur, out, go, count, aborted, failed, ghostVars>>
    BY DEF BroadcastCopy
  <1>7. InputsOK' /\ GhostsOK'
    BY <1>1, <1>6 DEF TypeOK, InputsOK, GhostsOK, ghostVars
  <1>8. /\ out' \in [Task -> Pointer] /\ go' \in [Task -> BOOLEAN] /\ count' \in [Task -> Nat]
        /\ aborted' \in BOOLEAN /\ failed' \subseteq Task
    BY <1>1, <1>6 DEF TypeOK, ThreadsOK
  <1>9. /\ pc[t] \notin Releasing /\ pc[t] # "flush"
        /\ pc[t] \in {"work", "push"} => Mode[t] # "reductor"
    BY <1>1 DEF Position, Releasing
  <1>10. pc[t] \in Reducing => Mode[t] = "reductor"
    BY <1>1 DEF Position
  <1> QED BY <1>1, <1>2, <1>3, <1>4, <1>5, <1>7, <1>8, <1>9, <1>10, PlainMove

(* What a step does not mention stays well-typed. *)
LEMMA Frames ==
    ASSUME TypeInv
    PROVE  /\ UNCHANGED queueVars => QueuesOK'
           /\ UNCHANGED groupVars => GroupsOK' /\ UNCHANGED current
           /\ UNCHANGED <<finished, inputs, cur>> => InputsOK'
           /\ UNCHANGED ghostVars => GhostsOK'
           /\ UNCHANGED out => out' \in [Task -> Pointer]
           /\ UNCHANGED go => go' \in [Task -> BOOLEAN]
           /\ UNCHANGED count => count' \in [Task -> Nat]
           /\ UNCHANGED data => data' \in [Buffer -> Nat]
           /\ UNCHANGED aborted => aborted' \in BOOLEAN
           /\ UNCHANGED failed => failed' \subseteq Task
  <1>1. /\ UNCHANGED queueVars => QueuesOK'
        /\ UNCHANGED groupVars => GroupsOK' /\ UNCHANGED current
    BY DEF TypeInv, TypeOK, QueuesOK, GroupsOK, queueVars, groupVars
  <1>2. UNCHANGED <<finished, inputs, cur>> => InputsOK'
    BY DEF TypeInv, TypeOK, InputsOK
  <1>3. UNCHANGED ghostVars => GhostsOK'
    BY DEF TypeInv, TypeOK, GhostsOK, ghostVars
  <1>4. /\ out \in [Task -> Pointer] /\ go \in [Task -> BOOLEAN] /\ count \in [Task -> Nat]
        /\ aborted \in BOOLEAN /\ failed \subseteq Task /\ data \in [Buffer -> Nat]
    BY DEF TypeInv, TypeOK, ThreadsOK, GroupsOK
  <1> QED BY <1>1, <1>2, <1>3, <1>4

LEMMA LeaveStep ==
    ASSUME TypeInv, NEW t \in Task, Leave(t), data' \in [Buffer -> Nat],
           count' \in [Task -> Nat], UNCHANGED aborted, failed' \subseteq Task, GhostsOK'
    PROVE  TypeInv'
  BY LeaveType DEF TypeInv, TypeOK

LEMMA StopStep ==
    ASSUME TypeInv, NEW t \in Task, Stop(t)
    PROVE  TypeInv'
  <1>1. stopped' \in [Task -> Nat]
    BY DEF TypeInv, TypeOK, GhostsOK, Stop
  <1>2. GhostsOK'
    BY <1>1 DEF TypeInv, TypeOK, GhostsOK, Stop
  <1>3. failed' \subseteq Task /\ count' \in [Task -> Nat] /\ data' \in [Buffer -> Nat]
    BY Frames DEF Stop
  <1> QED BY <1>2, <1>3, LeaveStep DEF Stop

LEMMA SkipInputStep ==
    ASSUME TypeInv, NEW t \in Task, SkipInput(t)
    PROVE  TypeInv'
  <1>1. /\ pc[t] \in Getting /\ pc[t] \in PCs /\ idx[t] + 1 \in Nat \ {0} /\ Position(t)
        /\ MovesTo(t, pc[t], idx[t] + 1)
    BY DEF SkipInput, MovesTo, TypeInv, TypeOK, ThreadsOK, Positions
  <1>2. /\ QueuesOK' /\ GroupsOK' /\ InputsOK' /\ GhostsOK' /\ UNCHANGED current
        /\ out' \in [Task -> Pointer] /\ go' \in [Task -> BOOLEAN] /\ count' \in [Task -> Nat]
        /\ aborted' \in BOOLEAN /\ failed' \subseteq Task
    BY Frames DEF SkipInput
  <1>3. pc[t] \notin Releasing /\ pc[t] \notin {"work", "popout", "push"}
    BY <1>1 DEF Getting, Releasing
  <1>4. /\ pc[t] \in Reducing => Mode[t] = "reductor"
        /\ pc[t] = "flush" => NInputs(t) > 0
    BY <1>1 DEF Position
  <1> QED BY <1>1, <1>2, <1>3, <1>4, PlainMove

LEMMA ProceedStep ==
    ASSUME TypeInv, NEW t \in Task, Proceed(t)
    PROVE  TypeInv'
  <1> DEFINE where == IF Mode[t] = "sink" THEN "work" ELSE "popout"
  <1>1. MovesTo(t, where, idx[t]) /\ idx[t] \in Nat \ {0}
    BY IdxStays DEF Proceed, MovesTo
  <1>2. /\ QueuesOK' /\ GroupsOK' /\ InputsOK' /\ GhostsOK' /\ UNCHANGED current
        /\ out' \in [Task -> Pointer] /\ go' \in [Task -> BOOLEAN] /\ count' \in [Task -> Nat]
        /\ aborted' \in BOOLEAN /\ failed' \subseteq Task
    BY Frames DEF Proceed
  <1>3. /\ where \in PCs /\ where \notin Releasing /\ where \notin Reducing /\ where # "flush"
        /\ where \in {"popout", "push"} => Mode[t] # "sink"
        /\ where = "work" => Mode[t] # "reductor"
    BY DEF PCs, Releasing, Reducing
  <1> QED BY <1>1, <1>2, <1>3, PlainMove

LEMMA FailStep ==
    ASSUME TypeInv, NEW t \in Task, Fail(t)
    PROVE  TypeInv'
  <1>1. GhostsOK' /\ failed' \subseteq Task
    BY Frames DEF Fail, TypeInv, TypeOK, ThreadsOK
  <1>2. CASE Mode[t] = "generator"
    BY <1>1, <1>2, Frames, LeaveStep DEF Fail
  <1>3. CASE Mode[t] # "generator"
    <2>1. MovesTo(t, "flush", 1) /\ NInputs(t) > 0
      BY <1>3, ConstantsType, SchedulerAssumption DEF Fail, MovesTo
    <2>2. /\ QueuesOK' /\ GroupsOK' /\ InputsOK' /\ UNCHANGED current
          /\ out' \in [Task -> Pointer] /\ go' \in [Task -> BOOLEAN] /\ count' \in [Task -> Nat]
          /\ aborted' \in BOOLEAN
      BY <1>3, Frames DEF Fail
    <2>3. "flush" \in PCs /\ "flush" \notin Releasing /\ "flush" \notin Reducing
      BY DEF PCs, Getting, Releasing, Reducing
    <2> QED BY <1>1, <2>1, <2>2, <2>3, PlainMove
  <1> QED BY <1>2, <1>3

LEMMA PopOutStep ==
    ASSUME TypeInv, NEW t \in Task, PopOut(t)
    PROVE  TypeInv'
  <1> DEFINE where == CASE pc[t] = "repopout" -> "regenerate"
                        [] pc[t] = "popout"   ->
                              IF Mode[t] = "reductor" THEN "reduce" ELSE "work"
  <1>1. pc[t] \in {"popout", "repopout"} /\ Position(t)
    BY DEF PopOut, TypeInv, Positions
  <1>2. Mode[t] # "sink" /\ (pc[t] = "repopout" => Mode[t] = "reductor")
    BY <1>1 DEF Position, Reducing
  <1>3. QueuesOK' /\ OutBuffer(t) \in Pointer
    BY <1>2, PopOutputType DEF PopOut
  <1>4. out' \in [Task -> Pointer]
    BY <1>3 DEF PopOut, TypeInv, TypeOK, ThreadsOK
  <1>5. MovesTo(t, where, idx[t]) /\ idx[t] \in Nat \ {0}
    BY IdxStays DEF PopOut, MovesTo
  <1>6. /\ GroupsOK' /\ InputsOK' /\ GhostsOK' /\ UNCHANGED current
        /\ go' \in [Task -> BOOLEAN] /\ count' \in [Task -> Nat]
        /\ aborted' \in BOOLEAN /\ failed' \subseteq Task
    BY Frames DEF PopOut
  <1>7. /\ where \in {"regenerate", "reduce", "work"}
        /\ where \in {"regenerate", "reduce"} => Mode[t] = "reductor"
        /\ where = "work" => Mode[t] # "reductor"
    BY <1>1, <1>2
  <1>8. /\ where \in PCs /\ where \notin Releasing /\ where \notin {"popout", "push", "flush"}
        /\ where \in Reducing => Mode[t] = "reductor"
    BY <1>7 DEF PCs, Releasing, Reducing
  <1> HIDE DEF where
  <1> QED BY <1>3, <1>4, <1>5, <1>6, <1>7, <1>8, PlainMove

(* A task writes its output, and its loop counter starts over. *)
LEMMA ProduceType ==
    ASSUME TypeInv, NEW t \in Task, Produce(t)
    PROVE  /\ QueuesOK' /\ GroupsOK' /\ InputsOK' /\ GhostsOK' /\ UNCHANGED current
           /\ out' \in [Task -> Pointer] /\ go' \in [Task -> BOOLEAN] /\ count' \in [Task -> Nat]
           /\ aborted' \in BOOLEAN /\ failed' \subseteq Task
           /\ idx' = [idx EXCEPT ![t] = FirstCopy] /\ FirstCopy \in Nat \ {0}
  <1>1. count[t] + 1 \in Nat /\ data \in [Buffer -> Nat] /\ count \in [Task -> Nat]
    BY DEF TypeInv, TypeOK, GroupsOK, ThreadsOK
  <1>2. data' \in [Buffer -> Nat] /\ count' \in [Task -> Nat]
    BY <1>1 DEF Produce
  <1>3. GroupsOK'
    BY <1>2 DEF Produce, TypeInv, TypeOK, GroupsOK
  <1>4. /\ QueuesOK' /\ InputsOK' /\ GhostsOK' /\ UNCHANGED current
        /\ out' \in [Task -> Pointer] /\ go' \in [Task -> BOOLEAN]
        /\ aborted' \in BOOLEAN /\ failed' \subseteq Task
    BY Frames DEF Produce
  <1> QED BY <1>2, <1>3, <1>4 DEF Produce, FirstCopy

LEMMA GenerateStep ==
    ASSUME TypeInv, NEW t \in Task, Generate(t)
    PROVE  TypeInv'
  <1>1. CASE pc' = [pc EXCEPT ![t] = "push"] /\ Produce(t)
    <2>1. MovesTo(t, "push", FirstCopy)
      BY <1>1 DEF MovesTo, Produce
    <2>2. /\ "push" \in PCs /\ "push" \notin Releasing /\ "push" \notin Reducing
          /\ Mode[t] = "generator"
      BY DEF PCs, Releasing, Reducing, Generate
    <2> QED BY <1>1, <2>1, <2>2, ProduceType, PlainMove
  <1>2. CASE Leave(t) /\ UNCHANGED <<count, aborted, failed, data, ghostVars>>
    BY <1>2, Frames, LeaveStep
  <1> QED BY <1>1, <1>2 DEF Generate

LEMMA ConsumeType ==
    ASSUME TypeInv, NEW t \in Task, Consume(t)
    PROVE  log' \in [Task -> Seq(Seq(Nat))]
  <1> DEFINE read == [i \in 1..NInputs(t) |-> Value(inputs[t][i])]
  <1>1. \A i \in 1..NInputs(t) : Value(inputs[t][i]) \in Nat
    BY ValueType DEF TypeInv
  <1>2. read \in [1..NInputs(t) -> Nat] /\ NInputs(t) \in Nat
    BY <1>1, ConstantsType
  <1>3. read \in Seq(Nat)
    BY <1>2, SeqDef
  <1>4. log \in [Task -> Seq(Seq(Nat))]
    BY DEF TypeInv, TypeOK, GhostsOK
  <1>5. log' = [log EXCEPT ![t] = Append(@, read)]
    BY DEF Consume
  <1> HIDE DEF read
  <1> QED BY <1>3, <1>4, <1>5, ExtendOne, EmptySeq

LEMMA ProcessStep ==
    ASSUME TypeInv, NEW t \in Task, Process(t)
    PROVE  TypeInv'
  <1>1. GhostsOK'
    BY ConsumeType DEF Process, TypeInv, TypeOK, GhostsOK
  <1>2. Mode[t] \in {"processor", "sink"} /\ UNCHANGED <<count, aborted, failed>>
    BY DEF Process
  <1>3. failed' \subseteq Task
    BY <1>2 DEF TypeInv, TypeOK, ThreadsOK
  <1>6. data' \in [Buffer -> Nat] /\ count' \in [Task -> Nat]
    <2>1. data' = data \/ data' = [data EXCEPT ![out[t]] = Value(inputs[t][1])]
      BY DEF Process
    <2>2. UNCHANGED count
      BY DEF Process
    <2> QED BY <2>1, <2>2, ValueType, Frames DEF TypeInv, TypeOK, GroupsOK
  <1>4. CASE /\ pc' = [pc EXCEPT ![t] = IF Mode[t] = "sink" THEN "release" ELSE "push"]
             /\ idx' = [idx EXCEPT ![t] = IF Mode[t] = "sink" THEN 1 ELSE FirstCopy]
             /\ UNCHANGED <<queueVars, current, received, sent, got, finished, inputs, cur,
                            out, go>>
    <2>2. GroupsOK' /\ QueuesOK' /\ InputsOK'
      BY <1>4, <1>6, Frames DEF TypeInv, TypeOK, GroupsOK
    <2>3. /\ out' \in [Task -> Pointer] /\ go' \in [Task -> BOOLEAN] /\ count' \in [Task -> Nat]
          /\ aborted' \in BOOLEAN /\ UNCHANGED current
      BY <1>2, <1>4, Frames
    <2>4. CASE Mode[t] = "sink"
      <3>1. MovesTo(t, "release", 1) /\ NInputs(t) >= 1
        BY <1>4, <2>4, ConstantsType, SchedulerAssumption DEF MovesTo
      <3>2. "release" \in PCs /\ "release" \notin Reducing
        BY DEF PCs, Releasing, Reducing
      <3> QED BY <1>1, <1>3, <2>2, <2>3, <3>1, <3>2, PlainMove
    <2>5. CASE Mode[t] # "sink"
      <3>1. MovesTo(t, "push", FirstCopy) /\ FirstCopy \in Nat \ {0}
        BY <1>4, <2>5 DEF MovesTo, FirstCopy
      <3>2. "push" \in PCs /\ "push" \notin Releasing /\ "push" \notin Reducing
        BY DEF PCs, Releasing, Reducing
      <3> QED BY <1>1, <1>2, <1>3, <2>2, <2>3, <2>5, <3>1, <3>2, PlainMove
    <2> QED BY <2>4, <2>5
  <1>5. CASE Leave(t)
    BY <1>1, <1>2, <1>3, <1>5, <1>6, LeaveStep
  <1> QED BY <1>4, <1>5 DEF Process

LEMMA ReduceStep ==
    ASSUME TypeInv, NEW t \in Task, Reduce(t)
    PROVE  TypeInv'
  <1>1. GhostsOK'
    BY ConsumeType DEF Reduce, TypeInv, TypeOK, GhostsOK
  <1>2. Mode[t] = "reductor"
    BY DEF Reduce, TypeInv, Positions, Position, Reducing
  <1>3. MovesTo(t, "rerelease", 1) /\ NInputs(t) >= 1
    BY <1>2, ConstantsType, SchedulerAssumption DEF Reduce, MovesTo
  <1>4. /\ QueuesOK' /\ InputsOK' /\ UNCHANGED current
        /\ out' \in [Task -> Pointer] /\ count' \in [Task -> Nat]
        /\ aborted' \in BOOLEAN /\ failed' \subseteq Task
    BY Frames DEF Reduce
  <1>7. GroupsOK'
    BY DEF Reduce, Accumulate, TypeInv, TypeOK, GroupsOK
  <1>5. go' \in [Task -> BOOLEAN]
    BY DEF Reduce, TypeInv, TypeOK, ThreadsOK
  <1>6. "rerelease" \in PCs
    BY DEF PCs, Releasing
  <1> QED BY <1>1, <1>2, <1>3, <1>4, <1>5, <1>6, <1>7, PlainMove

LEMMA RegetStep ==
    ASSUME TypeInv, NEW t \in Task, Reget(t)
    PROVE  TypeInv'
  <1> DEFINE where == IF go[t] /\ ~ AllFinished(t) /\ ~ aborted THEN "reduce" ELSE "regenerate"
  <1>1. Mode[t] = "reductor"
    BY DEF Reget, GotInputs, TypeInv, Positions, Position, Reducing
  <1>2. MovesTo(t, where, idx[t]) /\ idx[t] \in Nat \ {0}
    BY IdxStays DEF Reget, MovesTo
  <1>3. /\ QueuesOK' /\ GroupsOK' /\ InputsOK' /\ UNCHANGED current
        /\ out' \in [Task -> Pointer] /\ go' \in [Task -> BOOLEAN] /\ count' \in [Task -> Nat]
        /\ aborted' \in BOOLEAN /\ failed' \subseteq Task
    BY Frames DEF Reget
  <1>4. stopped' \in [Task -> Nat]
    <2>1. stopped \in [Task -> Nat]
      BY DEF TypeInv, TypeOK, GhostsOK
    <2>2. \E n \in {stopped[t], stopped[t] + 1} : stopped' = [stopped EXCEPT ![t] = n]
      BY Zenon DEF Reget
    <2> QED BY <2>1, <2>2
  <1>5. GhostsOK'
    BY <1>4 DEF Reget, TypeInv, TypeOK, GhostsOK
  <1>6. where \in {"reduce", "regenerate"}
    BY Zenon
  <1>7. /\ where \in PCs /\ where \notin Releasing
        /\ where \notin {"popout", "push", "flush", "work"}
    BY <1>6 DEF PCs, Releasing
  <1> HIDE DEF where
  <1> QED BY <1>1, <1>2, <1>3, <1>5, <1>7, PlainMove

LEMMA NoMoreType ==
    ASSUME TypeInv, NEW t \in Task, NoMore(t)
    PROVE  data' \in [Buffer -> Nat] /\ count' \in [Task -> Nat]
  <1>1. data \in [Buffer -> Nat] /\ count \in [Task -> Nat] /\ count[t] + 1 \in Nat
    BY DEF TypeInv, TypeOK, GroupsOK, ThreadsOK
  <1> QED BY <1>1 DEF NoMore

LEMMA RegenerateStep ==
    ASSUME TypeInv, NEW t \in Task, Regenerate(t)
    PROVE  TypeInv'
  <1>1. Mode[t] = "reductor"
    BY DEF Regenerate, TypeInv, Positions, Position, Reducing
  <1>2. CASE pc' = [pc EXCEPT ![t] = "repush"] /\ Produce(t)
    <2>1. MovesTo(t, "repush", FirstCopy)
      BY <1>2 DEF MovesTo, Produce
    <2>2. "repush" \in PCs /\ "repush" \notin Releasing
      BY DEF PCs, Releasing
    <2> QED BY <1>1, <1>2, <2>1, <2>2, ProduceType, PlainMove
  <1>3. CASE /\ NoMore(t)
             /\ pc' = [pc EXCEPT ![t] = "reduce"]
             /\ UNCHANGED <<queueVars, current, received, sent, got, idx, finished, inputs, cur,
                            out, go, aborted, failed, ghostVars>>
    <2>1. MovesTo(t, "reduce", idx[t]) /\ idx[t] \in Nat \ {0}
      BY <1>3, IdxStays DEF MovesTo
    <2>2. /\ QueuesOK' /\ InputsOK' /\ GhostsOK' /\ UNCHANGED current
          /\ out' \in [Task -> Pointer] /\ go' \in [Task -> BOOLEAN]
          /\ aborted' \in BOOLEAN /\ failed' \subseteq Task
      BY <1>3, Frames
    <2>3. "reduce" \in PCs /\ "reduce" \notin Releasing
      BY DEF PCs, Releasing
    <2>4. GroupsOK' /\ count' \in [Task -> Nat]
      BY <1>3, NoMoreType DEF TypeInv, TypeOK, GroupsOK
    <2> QED BY <1>1, <2>1, <2>2, <2>3, <2>4, PlainMove
  <1>4. CASE NoMore(t) /\ Leave(t) /\ UNCHANGED <<aborted, failed, ghostVars>>
    BY <1>4, NoMoreType, Frames, LeaveStep
  <1> QED BY <1>2, <1>3, <1>4 DEF Regenerate

LEMMA NextGroupType ==
    ASSUME TypeInv, NEW t \in Task, NEW i \in 1..NInputs(t)
    PROVE  NextGroup(t, i) \in 1..Len(InQueues[t][i])
  <1>1. InQueues[t] \in Seq(Seq(Queue)) /\ i \in 1..Len(InQueues[t])
    BY SchedulerAssumption DEF NInputs
  <1>2. InQueues[t][i] \in Seq(Queue) /\ InQueues[t][i] # <<>>
    BY <1>1, SchedulerAssumption
  <1>3. Len(InQueues[t][i]) \in Nat \ {0}
    BY <1>2, EmptySeq
  <1>4. cur[t][i] \in Nat
    BY DEF TypeInv, TypeOK, InputsOK
  <1>5. cur[t][i] % Len(InQueues[t][i]) \in 0..Len(InQueues[t][i]) - 1
    BY <1>3, <1>4
  <1> QED BY <1>3, <1>5 DEF NextGroup

LEMMA ReleaseInputStep ==
    ASSUME TypeInv, NEW t \in Task, ReleaseInput(t)
    PROVE  TypeInv'
  <1> DEFINE i == idx[t]
             q == InQueue(t, i)
             b == inputs[t][i]
  <1>1. /\ TypeOK /\ Position(t) /\ pc[t] \in Releasing
        /\ i \in 1..NInputs(t) /\ NInputs(t) \in Nat
    BY ConstantsType
       DEF TypeInv, TypeOK, ThreadsOK, Positions, Position, ReleaseInput
  <1>2. b \in Pointer
    BY <1>1 DEF TypeOK, InputsOK
  <1>3. /\ free' = [free EXCEPT ![q] = Append(@, b)]
        /\ UNCHANGED <<full, capacity, current, received, data, sent, got>>
        /\ held' = [held EXCEPT ![t] = @ \ {b}]
        /\ cur' = [cur EXCEPT ![t][i] = NextGroup(t, i)]
        /\ UNCHANGED <<finished, inputs, out, go, count, aborted, failed, stopped, log>>
    BY DEF ReleaseInput, PushInputBuffer, ConsumerPush
  <1>4. /\ i = NInputs(t) => MovesTo(t, AfterRelease(t), 1)
        /\ i # NInputs(t) => MovesTo(t, pc[t], i + 1)
    BY <1>1 DEF ReleaseInput, MovesTo, TypeOK, ThreadsOK
  <1> HIDE DEF q, b
  <1>5. QueuesOK'
    <2>1. free' \in [Queue -> Seq(Pointer)]
      <3>1. free \in [Queue -> Seq(Pointer)]
        BY <1>1 DEF TypeOK, QueuesOK
      <3> QED BY <1>2, <1>3, <3>1, ExtendOne, EmptySeq
    <2> QED BY <1>1, <1>3, <2>1 DEF TypeOK, QueuesOK
  <1>6. GroupsOK' /\ UNCHANGED current
    BY <1>1, <1>3 DEF TypeOK, GroupsOK
  <1>7. InputsOK'
    <2> DEFINE next == NextGroup(t, i)
    <2>1. /\ DOMAIN cur = Task
          /\ \A u \in Task : cur[u] \in [1..NInputs(u) -> Nat \ {0}]
          /\ \A u \in Task : \A j \in 1..NInputs(u) : cur[u][j] <= Len(InQueues[u][j])
      BY <1>1 DEF TypeOK, InputsOK
    <2>2. next \in 1..Len(InQueues[t][i])
      BY <1>1, NextGroupType
    <2>3. next \in Nat \ {0} /\ next <= Len(InQueues[t][i])
      BY <2>2
    <2> HIDE DEF next
    <2>4. /\ DOMAIN cur' = Task
          /\ \A u \in Task : cur'[u] \in [1..NInputs(u) -> Nat \ {0}]
          /\ \A u \in Task : \A j \in 1..NInputs(u) :
                cur'[u][j] = IF u = t /\ j = i THEN next ELSE cur[u][j]
      BY <1>1, <1>3, <2>1, <2>3, InputUpdate DEF next
    <2>5. \A u \in Task : \A j \in 1..NInputs(u) : cur'[u][j] <= Len(InQueues[u][j])
      BY <2>1, <2>3, <2>4
    <2> QED BY <1>1, <1>3, <2>4, <2>5 DEF TypeOK, InputsOK
  <1>8. GhostsOK'
    BY <1>1, <1>3 DEF TypeOK, GhostsOK
  <1>9. /\ out' \in [Task -> Pointer] /\ go' \in [Task -> BOOLEAN] /\ count' \in [Task -> Nat]
        /\ aborted' \in BOOLEAN /\ failed' \subseteq Task
    BY <1>1, <1>3 DEF TypeOK, ThreadsOK
  <1>10. /\ pc[t] \in PCs /\ pc[t] \notin {"popout", "push", "work", "flush"}
         /\ pc[t] \in Reducing => Mode[t] = "reductor"
    BY <1>1 DEF Position, Releasing, TypeOK, ThreadsOK
  <1>11. CASE i = NInputs(t)
    <2>1. /\ AfterRelease(t) \in {"get", "reget", "flush"}
          /\ AfterRelease(t) = "reget" => pc[t] \in Reducing
      BY <1>1 DEF AfterRelease, Releasing, Reducing
    <2>2. /\ AfterRelease(t) \in PCs /\ AfterRelease(t) \notin Releasing
          /\ AfterRelease(t) \notin {"popout", "push", "work"}
          /\ AfterRelease(t) \in Reducing => Mode[t] = "reductor"
          /\ NInputs(t) > 0
      BY <1>1, <1>10, <2>1 DEF PCs, Getting, Releasing, Reducing
    <2> QED BY <1>4, <1>5, <1>6, <1>7, <1>8, <1>9, <1>11, <2>2, PlainMove
  <1>12. CASE i # NInputs(t)
    <2>1. i + 1 \in Nat \ {0} /\ i + 1 <= NInputs(t)
      BY <1>1, <1>12
    <2> QED BY <1>4, <1>5, <1>6, <1>7, <1>8, <1>9, <1>10, <1>12, <2>1, PlainMove
  <1> QED BY <1>11, <1>12

LEMMA FlushStep ==
    ASSUME TypeInv, NEW t \in Task, Flush(t)
    PROVE  TypeInv'
  <1>1. GhostsOK' /\ failed' \subseteq Task
    BY Frames DEF Flush
  <1>2. CASE AllFinished(t)
    BY <1>1, <1>2, Frames, LeaveStep DEF Flush
  <1>3. CASE ~ AllFinished(t)
    <2>1. MovesTo(t, "flushrelease", 1)
      BY <1>3 DEF Flush, MovesTo
    <2>2. NInputs(t) >= 1
      BY ConstantsType DEF Flush, GotInputs, TypeInv, Positions, Position
    <2>3. /\ QueuesOK' /\ GroupsOK' /\ InputsOK' /\ UNCHANGED current
          /\ out' \in [Task -> Pointer] /\ go' \in [Task -> BOOLEAN] /\ count' \in [Task -> Nat]
          /\ aborted' \in BOOLEAN
      BY <1>3, Frames DEF Flush
    <2>4. "flushrelease" \in PCs /\ "flushrelease" \notin Reducing
      BY DEF PCs, Releasing, Reducing
    <2> QED BY <1>1, <2>1, <2>2, <2>3, <2>4, PlainMove
  <1> QED BY <1>2, <1>3

LEMMA UnchangedStep ==
    ASSUME TypeInv, UNCHANGED <<queueVars, groupVars, threadVars, failed, ghostVars>>,
           aborted' \in BOOLEAN
    PROVE  TypeInv'
  <1>1. QueuesOK' /\ GroupsOK' /\ InputsOK' /\ GhostsOK' /\ UNCHANGED current
    BY Frames DEF threadVars
  <1>2. ThreadsOK'
    BY DEF TypeInv, TypeOK, ThreadsOK, threadVars
  <1>3. Positions'
    BY <1>1 DEF TypeInv, Positions, Position, threadVars
  <1> QED BY <1>1, <1>2, <1>3 DEF TypeInv, TypeOK

(* Every step of the system keeps TypeInv. *)
LEMMA NextType == TypeInv /\ [Next]_vars => TypeInv'
  <1> SUFFICES ASSUME TypeInv, [Next]_vars PROVE TypeInv'
    OBVIOUS
  <1>1. CASE Abort
    BY <1>1, UnchangedStep DEF Abort
  <1>2. CASE UNCHANGED vars
    <2>1. UNCHANGED <<queueVars, groupVars, threadVars, failed, ghostVars>> /\ UNCHANGED aborted
      BY <1>2 DEF vars
    <2> QED BY <2>1, UnchangedStep DEF TypeInv, TypeOK, ThreadsOK
  <1>3. ASSUME NEW t \in Task, Run(t) PROVE TypeInv'
    BY <1>3, PopInputStep, SkipInputStep, StopStep, ProceedStep, FailStep, PopOutStep,
       GenerateStep, ProcessStep, ReduceStep, RegetStep, RegenerateStep, PushStep,
       BroadcastCopyStep, ReleaseInputStep, FlushStep DEF Run
  <1> QED BY <1>1, <1>2, <1>3 DEF Next, Joined

(* Type correctness of the default scheduler: every variable has its type, *)
(* a queue never gets more buffers than its group allows, and every thread *)
(* indexes its inputs and targets within their bounds.                     *)
THEOREM TypeCorrect == Spec => [](TypeOK /\ Positions)
  <1>1. Spec => []TypeInv
    BY InitType, NextType, PTL DEF Spec
  <1>2. TypeInv => TypeOK /\ Positions
    BY DEF TypeInv
  <1> QED BY <1>1, <1>2, PTL

----------------------------------------------------------------------------
(* A reductor reads all of its input first                                 *)

(* What the thread of a reductor whose process never returns FALSE knows   *)
(* once it has left the reading loop.  The middle two conjuncts are why    *)
(* the property survives an abort: the abort may end the reading, but then *)
(* generating stops before the next buffer is pushed.                      *)
ReadsAll(t) ==
    /\ go[t]
    /\ pc[t] = "regenerate" => AllFinished(t) \/ aborted
    /\ pc[t] \in {"repush", "repopout"} => AllFinished(t)
    /\ \A q \in Queue : q[1] = t /\ Range(sent[q]) \cap Nat # {} => AllFinished(t)

Patient == {t \in Task : Mode[t] = "reductor" /\ t \notin MayStop}

ReductorInv == \A t \in Patient : ReadsAll(t)

LEMMA ReadsAllInit == Init => ReductorInv
  <1> SUFFICES ASSUME Init, NEW t \in Patient PROVE ReadsAll(t)
    BY DEF ReductorInv
  <1>1. go[t] /\ pc[t] = "get"
    BY DEF Init, InitOf, Patient
  <1>2. \A q \in Queue : Range(sent[q]) = {}
    <2>1. \A q \in Queue : sent[q] = <<>>
      BY DEF Init, InitOf, InitGroups
    <2>2. Range(<<>>) = {}
      BY DEF Range
    <2> QED BY <2>1, <2>2
  <1> QED BY <1>1, <1>2 DEF ReadsAll

(* Each of these actions is a step of one thread, which touches the locals *)
(* of no other thread, ...                                                 *)
LEMMA OwnStep ==
    ASSUME TypeInv, NEW t \in Task, Run(t)
    PROVE  /\ UNCHANGED aborted
           /\ \A u \in Task \ {t} : pc'[u] = pc[u] /\ go'[u] = go[u] /\ finished'[u] = finished[u]
  <1>1. UNCHANGED aborted
    BY DEF Run, PopInput, SkipInput, Stop, Proceed, Fail, PopOut, Generate, Produce, Process,
           Reduce, Reget, Regenerate, Push, BroadcastCopy, ReleaseInput, Flush
  <1>2. \E p : pc' = pc \/ pc' = [pc EXCEPT ![t] = p]
    BY Zenon DEF Run, PopInput, SkipInput, Stop, Proceed, Fail, PopOut, Generate, Process,
           Reduce, Reget, Regenerate, Push, BroadcastCopy, ReleaseInput, Flush, Leave
  <1>3. \E r : go' = go \/ go' = [go EXCEPT ![t] = r]
    BY Zenon DEF Run, PopInput, SkipInput, Stop, Proceed, Fail, PopOut, Generate, Produce, Process,
           Reduce, Reget, Regenerate, Push, BroadcastCopy, ReleaseInput, Flush, Leave
  <1>4. \E i : finished' = finished \/ finished' = [finished EXCEPT ![t][i] = TRUE]
    BY Zenon DEF Run, PopInput, SkipInput, Stop, Proceed, Fail, PopOut, Generate, Produce, Process,
           Reduce, Reget, Regenerate, Push, BroadcastCopy, ReleaseInput, Flush, Leave
  <1>5. pc \in [Task -> PCs] /\ go \in [Task -> BOOLEAN] /\ DOMAIN finished = Task
    BY DEF TypeInv, TypeOK, ThreadsOK, InputsOK
  <1> QED BY <1>1, <1>2, <1>3, <1>4, <1>5

(* ... and an input that has ended stays ended. *)
LEMMA FinishedStays ==
    ASSUME TypeInv, [Next]_vars, NEW t \in Task, AllFinished(t)
    PROVE  AllFinished(t)'
  <1>1. CASE UNCHANGED finished
    BY <1>1 DEF AllFinished
  <1>2. ASSUME NEW u \in Task, Run(u) PROVE AllFinished(t)'
    <2>1. PICK i : finished' = finished \/ finished' = [finished EXCEPT ![u][i] = TRUE]
      BY <1>2, Zenon DEF Run, PopInput, SkipInput, Stop, Proceed, Fail, PopOut, Generate, Produce,
           Process, Reduce, Reget, Regenerate, Push, BroadcastCopy, ReleaseInput, Flush, Leave
    <2>2. DOMAIN finished = Task /\ \A v \in Task : finished[v] \in [1..NInputs(v) -> BOOLEAN]
      BY DEF TypeInv, TypeOK, InputsOK
    <2>3. \A j \in 1..NInputs(t) : finished'[t][j]
      BY <2>1, <2>2 DEF AllFinished
    <2> QED BY <2>3 DEF AllFinished
  <1> QED BY <1>1, <1>2 DEF Next, Abort, Joined, vars, threadVars

(* Items reach the queues of a task only in a push of that task; what its  *)
(* end appends is no item.                                                 *)
LEMMA SentByPush ==
    ASSUME TypeInv, NEW t \in Task, Run(t), NEW q \in Queue,
           q[1] # t \/ pc[t] \notin {"push", "repush"}
    PROVE  Range(sent'[q]) \cap Nat = Range(sent[q]) \cap Nat
  <1>1. sent \in [Queue -> Seq(Tag)] /\ sent[q] \in Seq(Tag)
    BY DEF TypeInv, TypeOK, GroupsOK
  <1>2. CASE UNCHANGED sent
    BY <1>2
  <1>3. CASE Finish(t)
    <2>1. sent'[q] = sent[q] \/ sent'[q] = Append(sent[q], EndOfStream)
      BY <1>3, Zenon DEF Finish, FinishTo
    <2>2. Range(Append(sent[q], EndOfStream)) = Range(sent[q]) \cup {EndOfStream}
      <3>1. EndOfStream \in Tag
        BY DEF Tag
      <3>2. <<EndOfStream>> \in Seq(Tag) /\ Range(<<EndOfStream>>) = {EndOfStream}
        BY <3>1 DEF Range
      <3>3. Append(sent[q], EndOfStream) = sent[q] \o <<EndOfStream>>
        BY <1>1, <3>1, AppendIsConcat
      <3>4. Range(sent[q] \o <<EndOfStream>>) = Range(sent[q]) \cup Range(<<EndOfStream>>)
        BY <1>1, <3>2, RangeConcatenation, ZenonT(30)
      <3> QED BY <3>2, <3>3, <3>4
    <2> QED BY <2>1, <2>2, GroupAssumption
  <1>4. CASE Push(t) \/ BroadcastCopy(t)
    <2>1. q[1] # t
      BY <1>4 DEF Push, BroadcastCopy
    <2>2. \E k, s : sent' = [sent EXCEPT ![<<t, k>>] = s]
      BY <1>4, Zenon DEF Push, BroadcastCopy, PushScatter, PushSequential, PushOriginal, PushCopy
    <2>3. sent'[q] = sent[q]
      BY <1>1, <2>1, <2>2
    <2> QED BY <2>3
  <1>5. UNCHANGED sent \/ Finish(t) \/ Push(t) \/ BroadcastCopy(t)
    <2>1. CASE PopInput(t) \/ SkipInput(t) \/ Proceed(t) \/ PopOut(t)
      BY <2>1 DEF PopInput, PopInputBuffer, SkipInput, Proceed, PopOut, groupVars
    <2>2. CASE Stop(t) \/ Fail(t) \/ Generate(t) \/ Process(t)
      BY <2>2 DEF Stop, Fail, Generate, Produce, Process, Leave, groupVars
    <2>3. CASE Reduce(t) \/ Reget(t) \/ Regenerate(t) \/ ReleaseInput(t) \/ Flush(t)
      BY <2>3 DEF Reduce, Reget, Regenerate, Produce, ReleaseInput, PushInputBuffer, Flush, Leave,
                  groupVars
    <2> QED BY <2>1, <2>2, <2>3 DEF Run
  <1> QED BY <1>2, <1>3, <1>4, <1>5

LEMMA ReadsAllOther ==
    ASSUME TypeInv, NEW t \in Task, NEW u \in Task \ {t}, ReadsAll(t), Run(u), AllFinished(t)' <=> AllFinished(t)
    PROVE  ReadsAll(t)'
  <1>1. UNCHANGED aborted /\ pc'[t] = pc[t] /\ go'[t] = go[t]
    BY OwnStep
  <1>2. \A q \in Queue : q[1] = t => Range(sent'[q]) \cap Nat = Range(sent[q]) \cap Nat
    BY SentByPush
  <1> QED BY <1>1, <1>2 DEF ReadsAll

LEMMA ReadsAllOwn ==
    ASSUME TypeInv, TypeInv', NEW t \in Patient, ReadsAll(t), Run(t),
           AllFinished(t) => AllFinished(t)'
    PROVE  ReadsAll(t)'
  <1>1. /\ t \in Task /\ Mode[t] = "reductor" /\ Position(t)
        /\ pc \in [Task -> PCs] /\ go \in [Task -> BOOLEAN]
    BY DEF Patient, TypeInv, TypeOK, ThreadsOK, Positions
  <1>2. go'[t]
    <2>1. CASE Reduce(t)
      <3>1. \E r \in BOOLEAN : (r \/ t \in MayStop) /\ go' = [go EXCEPT ![t] = r]
        BY <2>1 DEF Reduce
      <3> QED BY <1>1, <3>1 DEF Patient
    <2>2. CASE ~ Reduce(t)
      <3>1. UNCHANGED go
        BY <2>2 DEF Run, PopInput, SkipInput, Stop, Proceed, Fail, PopOut, Generate, Produce,
             Process, Reget, Regenerate, Push, BroadcastCopy, ReleaseInput, Flush, Leave
      <3> QED BY <3>1 DEF ReadsAll
    <2> QED BY <2>1, <2>2
  <1>3. pc'[t] = "regenerate" => AllFinished(t)' \/ aborted'
    <2>1. CASE Reget(t)
      BY <1>1, <2>1 DEF Reget, ReadsAll, AllFinished
    <2>2. CASE PopOut(t)
      BY <1>1, <2>2 DEF PopOut, ReadsAll
    <2>3. CASE ~ Reget(t) /\ ~ PopOut(t)
      BY <1>1, <2>3 DEF Run, PopInput, SkipInput, Stop, Proceed, Fail, Generate, Process, Reduce,
         Regenerate, Push, AfterPush, BroadcastCopy, ReleaseInput, AfterRelease, Flush, Leave,
         Getting, Releasing
    <2> QED BY <2>1, <2>2, <2>3
  <1>4. pc'[t] \in {"repush", "repopout"} => AllFinished(t)'
    <2>1. CASE Regenerate(t)
      BY <1>1, <2>1 DEF Regenerate, ReadsAll, Leave
    <2>2. CASE Push(t)
      BY <1>1, <2>2 DEF Push, AfterPush, ReadsAll
    <2>3. CASE BroadcastCopy(t)
      BY <1>1, <2>3 DEF BroadcastCopy, ReadsAll, Position
    <2>4. CASE ~ Regenerate(t) /\ ~ Push(t) /\ ~ BroadcastCopy(t)
      BY <1>1, <2>4 DEF Run, PopInput, SkipInput, Stop, Proceed, Fail, PopOut, Generate, Process,
         Reduce, Reget, ReleaseInput, AfterRelease, Flush, Leave, Getting, Releasing
    <2> QED BY <2>1, <2>2, <2>3, <2>4
  <1>5. \A q \in Queue : q[1] = t /\ Range(sent'[q]) \cap Nat # {} => AllFinished(t)'
    <2>1. CASE pc[t] \in {"push", "repush"}
      BY <1>1, <2>1 DEF ReadsAll, Position
    <2>2. CASE pc[t] \notin {"push", "repush"}
      <3>1. \A q \in Queue : Range(sent'[q]) \cap Nat = Range(sent[q]) \cap Nat
        BY <1>1, <2>2, SentByPush
      <3> QED BY <3>1 DEF ReadsAll
    <2> QED BY <2>1, <2>2
  <1> QED BY <1>2, <1>3, <1>4, <1>5 DEF ReadsAll

LEMMA ReadsAllNext == TypeInv /\ ReductorInv /\ [Next]_vars => ReductorInv'
  <1> SUFFICES ASSUME TypeInv, ReductorInv, [Next]_vars, NEW t \in Patient PROVE ReadsAll(t)'
    BY DEF ReductorInv, Patient
  <1>1. ReadsAll(t) /\ t \in Task /\ TypeInv'
    BY NextType DEF ReductorInv, Patient
  <1>2. AllFinished(t) => AllFinished(t)'
    BY <1>1, FinishedStays
  <1>3. CASE UNCHANGED vars \/ Abort
    <2>1. /\ UNCHANGED <<pc, go, sent, finished>>
          /\ aborted => aborted'
      BY <1>3 DEF Abort, vars, threadVars, groupVars
    <2> QED BY <1>1, <1>2, <2>1 DEF ReadsAll, AllFinished
  <1>4. ASSUME Run(t) PROVE ReadsAll(t)'
    BY <1>1, <1>2, <1>4, ReadsAllOwn
  <1>5. ASSUME NEW u \in Task \ {t}, Run(u) PROVE ReadsAll(t)'
    <2>1. finished'[t] = finished[t]
      BY <1>1, <1>5, OwnStep
    <2>2. AllFinished(t)' <=> AllFinished(t)
      BY <2>1 DEF AllFinished
    <2> QED BY <1>1, <1>5, <2>2, ReadsAllOther
  <1> QED BY <1>3, <1>4, <1>5 DEF Next, Joined

(* A reductor whose process never returns FALSE sends no item before it    *)
(* has read the end of all its inputs, whenever the run is aborted.        *)
THEOREM ReductorCorrect == Spec => []ReductorReadsAll
  <1>1. Spec => [](TypeInv /\ ReductorInv)
    BY InitType, NextType, ReadsAllInit, ReadsAllNext, PTL DEF Spec
  <1>2. TypeInv /\ ReductorInv => ReductorReadsAll
    <2> SUFFICES ASSUME ReductorInv, NEW q \in Queue, Mode[q[1]] = "reductor",
                        q[1] \notin MayStop, Range(sent[q]) \cap Nat # {}
                 PROVE  AllFinished(q[1])
      BY DEF ReductorReadsAll
    <2>1. q[1] \in Patient
      BY ConstantsType DEF Patient
    <2> QED BY <2>1 DEF ReductorInv, ReadsAll
  <1> QED BY <1>1, <1>2, PTL

=============================================================================
