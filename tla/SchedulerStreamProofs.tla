----------------------- MODULE SchedulerStreamProofs -----------------------
(***************************************************************************)
(* Theorems about the buffers and streams of the default scheduler, for    *)
(* every graph that satisfies the assumptions of modules Group and         *)
(* Scheduler: a buffer is in one place at a time, what a task reads is     *)
(* what was sent, and every edge is a stream.                              *)
(***************************************************************************)
EXTENDS SchedulerProofs, SequenceFacts

(* The buffers that were inserted into q so far. *)
Own(q) == {<<q, n>> : n \in 1..capacity[q]}

Sources(t) == UNION {Range(InQueues[t][i]) : i \in 1..NInputs(t)}

(* The queues that are read in turn with q, as one input. *)
Siblings(q) ==
    LET t == Targets[q[1]][q[2]] IN
    UNION {Range(InQueues[t][i]) :
             i \in {j \in 1..NInputs(t) : q \in Range(InQueues[t][j])}}

(* What the pointers on the free side of q may point to: its own buffers,  *)
(* but behind an outlived input what was last read from its other queues.  *)
Reach(q) == IF Open(q) THEN Own(q) ELSE {NoBuffer} \cup UNION {Own(s) : s \in Siblings(q)}

QueueInv(q) ==
    /\ Range(free[q]) \subseteq Reach(q)
    /\ Open(q) => /\ Range(full[q]) \subseteq Own(q) \cup {EndOfStream}
                  /\ IsInjective(free[q]) /\ OnceBut(EndOfStream, full[q])
                  /\ Range(free[q]) \cap Range(full[q]) = {}

(* Places where the thread of t has an input that has not ended yet. *)
Alive == {"popout", "work", "push", "reduce", "release", "rerelease", "flushrelease"}

InputInv(t, i) ==
    /\ inputs[t][i] # NoBuffer => \E s \in Range(InQueues[t][i]) : inputs[t][i] \in Own(s)
    /\ Reading(t, i) => inputs[t][i] \in held[t] /\ inputs[t][i] \in Own(InQueue(t, i))

TaskInv(t) ==
    /\ HoldsOutput(t) => out[t] \in Reach(OutQueue(t))
    /\ \A b \in held[t] : b[1] \in Sources(t) /\ b \in Own(b[1])
    /\ \A i \in 1..NInputs(t) : InputInv(t, i)
    /\ pc[t] \in Alive => ~ AllFinished(t)

(* The places of a buffer exclude each other. *)
Apart ==
    /\ \A t \in Task, q \in Queue :
          /\ held[t] \cap Range(free[q]) = {}
          /\ Open(q) => held[t] \cap Range(full[q]) = {}
          /\ HoldsOutput(t) /\ Open(q) => out[t] \notin Range(free[q]) \cup Range(full[q])
    /\ \A t, u \in Task : HoldsOutput(u) => out[u] \notin held[t]

IInv ==
    /\ TypeInv
    /\ \A q \in Queue : QueueInv(q)
    /\ \A t \in Task : TaskInv(t)
    /\ Apart

----------------------------------------------------------------------------
(* What the assumptions say about inputs, queues and buffers *)

LEMMA WiringFacts ==
    /\ \A t \in Task : \A i \in 1..NInputs(t) :
          /\ InQueues[t][i] \in Seq(Queue) /\ InQueues[t][i] # <<>>
          /\ DOMAIN InQueues[t][i] = 1..Len(InQueues[t][i])
    /\ \A t \in Task : \A i \in 1..NInputs(t) : \A q \in Range(InQueues[t][i]) :
          q \in Queue /\ Targets[q[1]][q[2]] = t
    /\ \A t, u \in Task : \A i \in 1..NInputs(t), j \in 1..NInputs(u) : \A q :
          q \in Range(InQueues[t][i]) /\ q \in Range(InQueues[u][j]) => t = u /\ i = j
  <1>1. \A t \in Task : \A i \in 1..NInputs(t) :
          /\ InQueues[t][i] \in Seq(Queue) /\ InQueues[t][i] # <<>>
          /\ DOMAIN InQueues[t][i] = 1..Len(InQueues[t][i])
    <2>1. \A t \in Task : InQueues[t] \in Seq(Seq(Queue)) /\ NInputs(t) = Len(InQueues[t])
      BY SchedulerAssumption DEF NInputs
    <2>2. \A t \in Task : \A i \in 1..NInputs(t) : InQueues[t][i] \in Seq(Queue)
      BY <2>1, ElementOfSeq
    <2> QED BY <2>2, SchedulerAssumption, LenProperties
  <1>2. \A t \in Task : \A i \in 1..NInputs(t) : \A q \in Range(InQueues[t][i]) :
          \E p \in DOMAIN InQueues[t][i] : q = InQueues[t][i][p] /\ <<t, i, p>> \in Place
    BY DEF Range, Place
  <1>3. ASSUME NEW t \in Task, NEW i \in 1..NInputs(t), NEW q \in Range(InQueues[t][i])
        PROVE  q \in Queue /\ Targets[q[1]][q[2]] = t
    <2>1. PICK p \in DOMAIN InQueues[t][i] : q = InQueues[t][i][p] /\ <<t, i, p>> \in Place
      BY <1>2
    <2>2. q \in Queue
      BY <1>1, <2>1, ElementOfSeq
    <2> QED BY <2>1, <2>2, WiringAssumption
  <1>4. ASSUME NEW t \in Task, NEW u \in Task, NEW i \in 1..NInputs(t), NEW j \in 1..NInputs(u),
               NEW q, q \in Range(InQueues[t][i]), q \in Range(InQueues[u][j])
        PROVE  t = u /\ i = j
    <2>1. PICK p \in DOMAIN InQueues[t][i] : q = InQueues[t][i][p] /\ <<t, i, p>> \in Place
      BY <1>2, <1>4
    <2>2. PICK r \in DOMAIN InQueues[u][j] : q = InQueues[u][j][r] /\ <<u, j, r>> \in Place
      BY <1>2, <1>4
    <2>3. <<t, i, p>> = <<u, j, r>>
      BY <2>1, <2>2, WiringAssumption
    <2> QED BY <2>3
  <1> QED BY <1>1, <1>3, <1>4

(* The queue a task reads next from an input belongs to that input. *)
LEMMA InQueueFacts ==
    ASSUME TypeInv, NEW t \in Task, NEW i \in 1..NInputs(t)
    PROVE  InQueue(t, i) \in Range(InQueues[t][i]) /\ InQueue(t, i) \in Queue
  <1>1. InQueue(t, i) \in Queue
    BY InQueueType DEF TypeInv
  <1>2. cur[t] \in [1..NInputs(t) -> Nat \ {0}] /\ cur[t][i] <= Len(InQueues[t][i])
    BY DEF TypeInv, TypeOK, InputsOK
  <1>3. cur[t][i] \in Nat \ {0} /\ Len(InQueues[t][i]) \in Nat
    BY <1>2, WiringFacts, LenProperties
  <1>4. cur[t][i] \in DOMAIN InQueues[t][i]
    BY <1>2, <1>3, WiringFacts
  <1> QED BY <1>1, <1>4 DEF InQueue, Range

(* All the buffers that q may ever be given. *)
Slots(q) == {<<q, n>> : n \in 1..Limit(q[1])}

LEMMA SlotFacts ==
    ASSUME NEW q \in Queue
    PROVE  /\ Slots(q) \subseteq Buffer
           /\ \A b \in Slots(q) : b[1] = q
           /\ EndOfStream \notin Slots(q) /\ NoBuffer \notin Slots(q)
  <1>1. Slots(q) \subseteq Buffer /\ \A b \in Slots(q) : b[1] = q
    BY DEF Slots, Buffer
  <1> QED BY <1>1, GroupAssumption, SchedulerAssumption

LEMMA OwnFacts ==
    ASSUME TypeInv, NEW q \in Queue
    PROVE  /\ Own(q) \subseteq Slots(q)
           /\ \A b \in Own(q) : b[1] = q /\ b # EndOfStream /\ b # NoBuffer /\ b \in Buffer
           /\ <<q, capacity[q] + 1>> \notin Own(q)
  <1>1. capacity[q] \in Nat /\ capacity[q] <= Limit(q[1]) /\ Limit(q[1]) \in Nat
    BY ConstantsType DEF TypeInv, TypeOK, QueuesOK
  <1>2. \A n \in 1..capacity[q] : n \in 1..Limit(q[1]) /\ n # capacity[q] + 1
    BY <1>1
  <1>3. Own(q) \subseteq Slots(q) /\ <<q, capacity[q] + 1>> \notin Own(q)
    BY <1>2 DEF Own, Slots
  <1> QED BY <1>3, SlotFacts

(* A queue is open unless its input is outlived. *)
LEMMA OpenFacts ==
    /\ \A t \in Task : \A i \in 1..NInputs(t) : \A q \in Range(InQueues[t][i]) :
          /\ Open(q) <=> ~ Outlived(t, i)
          /\ Open(q)' <=> ~ Outlived(t, i)'
          /\ Siblings(q) = Range(InQueues[t][i])
    /\ \A q \in Queue : ~ Open(q) =>
          \E t \in Task : \E i \in 1..NInputs(t) :
             q \in Range(InQueues[t][i]) /\ Outlived(t, i)
    /\ \A q \in Queue : ~ Open(q)' =>
          \E t \in Task : \E i \in 1..NInputs(t) :
             q \in Range(InQueues[t][i]) /\ Outlived(t, i)'
  <1>1. ASSUME NEW t \in Task, NEW i \in 1..NInputs(t), NEW q \in Range(InQueues[t][i])
        PROVE  /\ Open(q) <=> ~ Outlived(t, i)
               /\ Open(q)' <=> ~ Outlived(t, i)'
               /\ Siblings(q) = Range(InQueues[t][i])
    <2>1. Targets[q[1]][q[2]] = t /\ \A j \in 1..NInputs(t) : q \in Range(InQueues[t][j]) <=> j = i
      BY WiringFacts
    <2>2. {j \in 1..NInputs(t) : q \in Range(InQueues[t][j])} = {i}
      BY <2>1
    <2>3. Siblings(q) = UNION {Range(InQueues[t][j]) : j \in {i}}
      BY <2>1, <2>2 DEF Siblings
    <2>4. Siblings(q) = Range(InQueues[t][i])
      BY <2>3
    <2> QED BY <2>1, <2>4 DEF Open
  <1>2. \A q \in Queue : Targets[q[1]][q[2]] \in Task
    <2>1. \A t \in Task : \A k \in 1..NTargets(t) : Targets[t][k] \in Task
      BY GroupAssumption, ElementOfSeq DEF NTargets
    <2>2. ASSUME NEW q \in Queue PROVE Targets[q[1]][q[2]] \in Task
      <3>1. PICK t \in Task : \E k \in 1..NTargets(t) : q = <<t, k>>
        BY GroupAssumption DEF TaskQueue
      <3>2. PICK k \in 1..NTargets(t) : q = <<t, k>>
        BY <3>1
      <3> QED BY <2>1, <3>2
    <2> QED BY <2>2
  <1>3. \A q \in Queue : ~ Open(q) =>
          \E t \in Task : \E i \in 1..NInputs(t) :
             q \in Range(InQueues[t][i]) /\ Outlived(t, i)
    BY <1>2 DEF Open
  <1>4. \A q \in Queue : ~ Open(q)' =>
          \E t \in Task : \E i \in 1..NInputs(t) :
             q \in Range(InQueues[t][i]) /\ Outlived(t, i)'
    BY <1>2 DEF Open
  <1> QED BY <1>1, <1>3, <1>4

(* Where the pointers on the free side of a queue come from. *)
LEMMA ReachFacts ==
    ASSUME TypeInv, NEW q \in Queue
    PROVE  /\ \A b \in Reach(q) : b = NoBuffer \/ \E s \in Queue : b \in Own(s)
           /\ Reach(q) \subseteq Pointer /\ EndOfStream \notin Reach(q)
           /\ \A r \in Queue : capacity[r] < Limit(r[1]) =>
                 <<r, capacity[r] + 1>> \notin Reach(q)
           /\ \A r \in Queue \ {q} : Open(r) => Reach(q) \cap Own(r) = {}
  <1>1. ASSUME ~ Open(q), NEW s \in Siblings(q) PROVE s \in Queue /\ ~ Open(s)
    <2> PICK t \in Task : \E i \in 1..NInputs(t) :
               q \in Range(InQueues[t][i]) /\ Outlived(t, i)
      BY <1>1, OpenFacts
    <2>1. PICK i \in 1..NInputs(t) : q \in Range(InQueues[t][i]) /\ Outlived(t, i)
      OBVIOUS
    <2> QED BY <2>1, OpenFacts, WiringFacts
  <1>2. \A b \in Reach(q) : b = NoBuffer \/ \E s \in Queue : b \in Own(s)
    BY <1>1 DEF Reach
  <1>3. \A r \in Queue : \A b \in Own(r) : b[1] = r /\ b # EndOfStream /\ b # NoBuffer /\ b \in Buffer
    BY OwnFacts
  <1>4. Reach(q) \subseteq Pointer /\ EndOfStream \notin Reach(q)
    BY <1>2, <1>3, SchedulerAssumption DEF Pointer
  <1>5. ASSUME NEW r \in Queue, capacity[r] < Limit(r[1])
        PROVE  <<r, capacity[r] + 1>> \notin Reach(q)
    <2>1. <<r, capacity[r] + 1>> \in Slots(r)
      <3>1. capacity[r] + 1 \in 1..Limit(r[1])
        BY <1>5, ConstantsType DEF TypeInv, TypeOK, QueuesOK
      <3> QED BY <3>1 DEF Slots
    <2>2. <<r, capacity[r] + 1>> # NoBuffer /\ <<r, capacity[r] + 1>> \notin Own(r)
      BY <2>1, SlotFacts, OwnFacts
    <2>3. \A s \in Queue : <<r, capacity[r] + 1>> \in Own(s) => s = r
      BY <1>3
    <2> QED BY <1>2, <2>2, <2>3
  <1>6. ASSUME NEW r \in Queue \ {q}, Open(r) PROVE Reach(q) \cap Own(r) = {}
    <2>1. \A s \in Siblings(q) : ~ Open(q) => s # r /\ s \in Queue
      BY <1>1, <1>6
    <2> QED BY <1>3, <2>1 DEF Reach
  <1> QED BY <1>2, <1>4, <1>5, <1>6

----------------------------------------------------------------------------
(* What a step of any thread may do to the state                           *)

(* Queues only get more buffers, inputs only end. *)
LEMMA Grows ==
    ASSUME TypeInv, [Next]_vars
    PROVE  /\ \A t \in Task : \A i \in 1..NInputs(t) : finished[t][i] => finished'[t][i]
           /\ \A q \in Queue : Own(q) \subseteq Own(q)' /\ (Open(q)' => Open(q))
           /\ \A q \in Queue : Reach(q) \subseteq Reach(q)'
  <1>1. \A q \in Queue : capacity[q] \in Nat /\ Limit(q[1]) \in Nat
    BY ConstantsType DEF TypeInv, TypeOK, QueuesOK
  <1>2. \A q \in Queue : capacity'[q] \in Nat /\ capacity[q] <= capacity'[q]
    <2>1. CASE UNCHANGED capacity
      BY <1>1, <2>1
    <2>2. ASSUME NEW t \in Task, PopOut(t) \/ BroadcastCopy(t)
          PROVE  \A q \in Queue : capacity'[q] \in Nat /\ capacity[q] <= capacity'[q]
      <3>1. \E r : capacity' = [capacity EXCEPT ![r] = IF @ < Limit(t) THEN @ + 1 ELSE @]
        BY <2>2, Zenon DEF PopOut, PopOutput, BroadcastCopy, PushCopy, ProducerPop
      <3>2. capacity \in [Queue -> Nat]
        BY DEF TypeInv, TypeOK, QueuesOK
      <3> QED BY <1>1, <3>1, <3>2
    <2>3. UNCHANGED capacity \/ \E t \in Task : PopOut(t) \/ BroadcastCopy(t)
      <3>1. CASE Abort \/ UNCHANGED vars
        BY <3>1 DEF Abort, vars, queueVars
      <3>2. ASSUME NEW t \in Task, Run(t), ~ PopOut(t), ~ BroadcastCopy(t)
            PROVE  UNCHANGED capacity
        BY <3>2 DEF queueVars, Run, PopInput, PopInputBuffer, SkipInput,
           Stop, Proceed, Fail, Generate, Produce, Process, Reduce,
           Reget, Regenerate, Push, PushScatter, PushSequential, PushOriginal,
           ReleaseInput, PushInputBuffer, Flush, Leave, Finish, FinishTo
      <3> QED BY <3>1, <3>2 DEF Next, Joined
    <2> QED BY <2>1, <2>2, <2>3
  <1>3. \A q \in Queue : Own(q) \subseteq Own(q)'
    BY <1>1, <1>2 DEF Own
  <1>4. \/ UNCHANGED finished
        \/ \E u, i : finished' = [finished EXCEPT ![u][i] = TRUE]
    BY ZenonT(30) DEF Next, Abort, Joined, vars, threadVars, Run, PopInput, SkipInput, Stop, Proceed,
           Fail, PopOut, Generate, Produce, Process, Reduce, Reget, Regenerate, Push,
           BroadcastCopy, ReleaseInput, Flush, Leave
  <1>5. DOMAIN finished = Task /\ \A v \in Task : finished[v] \in [1..NInputs(v) -> BOOLEAN]
    BY DEF TypeInv, TypeOK, InputsOK
  <1>6. \A t \in Task : \A i \in 1..NInputs(t) : finished[t][i] => finished'[t][i]
    <2> SUFFICES ASSUME NEW t \in Task, NEW i \in 1..NInputs(t), finished[t][i]
                 PROVE  finished'[t][i]
      OBVIOUS
    <2>1. CASE UNCHANGED finished
      BY <2>1
    <2>2. CASE ~ UNCHANGED finished
      <3>1. PICK u, j : finished' = [finished EXCEPT ![u][j] = TRUE]
        BY <1>4, <2>2
      <3> QED BY <1>5, <3>1
    <2> QED BY <2>1, <2>2
  <1>7. \A q \in Queue : Open(q)' => Open(q)
    <2> SUFFICES ASSUME NEW q \in Queue, ~ Open(q) PROVE ~ Open(q)'
      OBVIOUS
    <2> PICK t \in Task : \E i \in 1..NInputs(t) :
               q \in Range(InQueues[t][i]) /\ Outlived(t, i)
      BY OpenFacts
    <2>1. PICK i \in 1..NInputs(t) : q \in Range(InQueues[t][i]) /\ Outlived(t, i)
      OBVIOUS
    <2>2. Outlived(t, i)'
      BY <1>6, <2>1 DEF Outlived
    <2> QED BY <2>1, <2>2, OpenFacts
  <1>8. ASSUME NEW q \in Queue PROVE Reach(q) \subseteq Reach(q)'
    <2>1. ASSUME NEW r \in Queue, ~ Open(r)'
          PROVE  r \in Siblings(r) /\ Siblings(r) \subseteq Queue
      <3> PICK t \in Task : \E i \in 1..NInputs(t) : r \in Range(InQueues[t][i])
        BY <2>1, OpenFacts
      <3>1. PICK i \in 1..NInputs(t) : r \in Range(InQueues[t][i])
        OBVIOUS
      <3> QED BY <3>1, OpenFacts, WiringFacts
    <2>2. CASE Open(q)'
      BY <1>3, <1>7, <2>2 DEF Reach
    <2>3. CASE ~ Open(q)' /\ Open(q)
      <3>1. Own(q) \subseteq UNION {Own(s)' : s \in Siblings(q)}
        BY <1>3, <2>1, <2>3
      <3> QED BY <2>3, <3>1 DEF Reach
    <2>4. CASE ~ Open(q)' /\ ~ Open(q)
      <3>1. \A s \in Siblings(q) : Own(s) \subseteq Own(s)'
        BY <1>3, <2>1, <2>4
      <3> QED BY <2>4, <3>1 DEF Reach
    <2> QED BY <2>2, <2>3, <2>4
  <1> QED BY <1>3, <1>6, <1>7, <1>8

(* A thread touches no local of another thread. *)
LEMMA OwnLocals ==
    ASSUME TypeInv, NEW t \in Task, Run(t), NEW u \in Task \ {t}
    PROVE  /\ pc'[u] = pc[u] /\ idx'[u] = idx[u] /\ out'[u] = out[u]
           /\ finished'[u] = finished[u] /\ inputs'[u] = inputs[u] /\ cur'[u] = cur[u]
           /\ held'[u] = held[u] /\ log'[u] = log[u] /\ current'[u] = current[u]
  <1>1. \E x : idx' = idx \/ idx' = [idx EXCEPT ![t] = x]
    BY Zenon DEF Run, PopInput, SkipInput, Stop, Proceed, Fail, PopOut, Generate, Produce, Process,
           Reduce, Reget, Regenerate, Push, BroadcastCopy, ReleaseInput, Flush, Leave
  <1>2. \E x : out' = out \/ out' = [out EXCEPT ![t] = x]
    BY Zenon DEF Run, PopInput, SkipInput, Stop, Proceed, Fail, PopOut, Generate, Produce, Process,
           Reduce, Reget, Regenerate, Push, BroadcastCopy, ReleaseInput, Flush, Leave
  <1>3. \E i, x : inputs' = inputs \/ inputs' = [inputs EXCEPT ![t][i] = x]
    <2>1. CASE PopInput(t)
      <3>1. inputs' = [inputs EXCEPT ![t][idx[t]] = NewInput(@, InBuffer(InQueue(t, idx[t])))]
        BY <2>1 DEF PopInput
      <3> QED BY <3>1
    <2>2. CASE ~ PopInput(t)
      BY <2>2 DEF Run, SkipInput, Stop, Proceed, Fail, PopOut, Generate, Produce,
           Process, Reduce, Reget, Regenerate, Push, BroadcastCopy, ReleaseInput, Flush, Leave
    <2> QED BY <2>1, <2>2
  <1>4. \E i, x : cur' = cur \/ cur' = [cur EXCEPT ![t][i] = x]
    BY Zenon DEF Run, PopInput, SkipInput, Stop, Proceed, Fail, PopOut, Generate, Produce, Process,
           Reduce, Reget, Regenerate, Push, BroadcastCopy, ReleaseInput, Flush, Leave
  <1>5. \E x : held' = held \/ held' = [held EXCEPT ![t] = x]
    BY Zenon DEF Run, PopInput, SkipInput, Stop, Proceed, Fail, PopOut, Generate, Produce, Process,
           Reduce, Reget, Regenerate, Push, BroadcastCopy, ReleaseInput, Flush, Leave, ghostVars
  <1>6. \E x : log' = log \/ log' = [log EXCEPT ![t] = x]
    BY Zenon DEF Run, PopInput, SkipInput, Stop, Proceed, Fail, PopOut, Generate, Produce, Process,
           Reduce, Reget, Regenerate, Push, BroadcastCopy, ReleaseInput, Flush, Leave, ghostVars,
           Consume
  <1>7. \E x : current' = current \/ current' = [current EXCEPT ![t] = x]
    BY Zenon DEF Run, PopInput, PopInputBuffer, SkipInput, Stop, Proceed, Fail, PopOut, Generate,
           Produce, Process, Reduce, Reget, Regenerate, Push, PushScatter, PushSequential,
           PushOriginal, BroadcastCopy, PushCopy, ReleaseInput, PushInputBuffer, Flush, Leave,
           Finish, FinishTo, groupVars
  <1>8. /\ idx \in [Task -> Nat \ {0}] /\ out \in [Task -> Pointer]
        /\ DOMAIN inputs = Task /\ DOMAIN cur = Task
        /\ held \in [Task -> SUBSET Pointer] /\ log \in [Task -> Seq(Seq(Nat))]
        /\ current \in [Task -> Nat \ {0}]
    BY DEF TypeInv, TypeOK, ThreadsOK, InputsOK, GhostsOK, GroupsOK
  <1> QED BY <1>1, <1>2, <1>3, <1>4, <1>5, <1>6, <1>7, <1>8, OwnStep

(* What the steps of run_task do that neither pop nor release an input. *)
LEMMA InputsStay ==
    ASSUME NEW t \in Task, Run(t), ~ PopInput(t), ~ ReleaseInput(t)
    PROVE  UNCHANGED <<finished, inputs, cur, held>>
  BY DEF Run, SkipInput, Stop, Proceed, Fail, PopOut, Generate, Produce, Process,
     Reduce, Reget, Regenerate, Push, BroadcastCopy, Flush, Leave, ghostVars

(* A task reads an input from its pop on, and until it has released it. *)
LEMMA ReadingStays ==
    ASSUME TypeInv, NEW t \in Task, Run(t), NEW u \in Task, NEW i \in 1..NInputs(u),
           Reading(u, i)', u = t => ~ (PopInput(t) /\ i = idx[t])
    PROVE  /\ Reading(u, i) /\ inputs'[u][i] = inputs[u][i] /\ cur'[u][i] = cur[u][i]
           /\ u = t => ~ (ReleaseInput(t) /\ i = idx[t])
  <1>1. CASE u # t
    BY <1>1, OwnLocals DEF Reading
  <1>2. CASE u = t
    <2>1. /\ pc \in [Task -> PCs] /\ idx \in [Task -> Nat \ {0}] /\ NInputs(t) \in Nat
          /\ DOMAIN finished = Task /\ \A v \in Task : finished[v] \in [1..NInputs(v) -> BOOLEAN]
          /\ DOMAIN inputs = Task /\ \A v \in Task : inputs[v] \in [1..NInputs(v) -> Pointer]
          /\ DOMAIN cur = Task /\ \A v \in Task : cur[v] \in [1..NInputs(v) -> Nat \ {0}]
          /\ Position(t) /\ i \in 1..NInputs(t) /\ i \in Nat /\ idx[t] \in Nat \ {0}
      BY <1>2, ConstantsType DEF TypeInv, TypeOK, ThreadsOK, InputsOK, Positions
    <2> ~ finished'[t][i] /\ Reading(t, i)'
      BY <1>2 DEF Reading
    <2>2. CASE PopInput(t)
      <3>1. i # idx[t] /\ pc[t] \in Getting
        BY <1>2, <2>2 DEF PopInput
      <3>2. inputs'[t][i] = inputs[t][i]
        <4>1. \E x : inputs' = [inputs EXCEPT ![t][idx[t]] = x]
          <5>1. inputs' = [inputs EXCEPT ![t][idx[t]] = NewInput(@, InBuffer(InQueue(t, idx[t])))]
            BY <2>2 DEF PopInput
          <5> QED BY <5>1
        <4> QED BY <2>1, <3>1, <4>1
      <3>3. finished'[t][i] = finished[t][i]
        <4>1. UNCHANGED finished \/ finished' = [finished EXCEPT ![t][idx[t]] = TRUE]
          BY <2>2, Zenon DEF PopInput
        <4> QED BY <2>1, <3>1, <4>1
      <3>4. idx' = [idx EXCEPT ![t] = idx[t] + 1] /\ UNCHANGED <<pc, cur>>
        BY <2>2 DEF PopInput
      <3>5. i < idx[t] + 1 => i < idx[t]
        BY <2>1, <3>1
      <3> QED BY <1>2, <2>1, <3>1, <3>2, <3>3, <3>4, <3>5 DEF Reading, Getting, ReleaseInput, Releasing
    <2>3. CASE ReleaseInput(t)
      <3>1. pc[t] \in Releasing /\ UNCHANGED <<finished, inputs>>
        BY <2>3 DEF ReleaseInput
      <3>2. ~ finished[t][i] /\ idx[t] # NInputs(t) /\ idx[t] + 1 <= i
        <4>1. CASE idx[t] = NInputs(t)
          <5>1. pc'[t] = AfterRelease(t) /\ idx'[t] = 1
            BY <2>1, <2>3, <4>1 DEF ReleaseInput
          <5>2. AfterRelease(t) \in Getting
            BY <3>1 DEF AfterRelease, Releasing, Getting
          <5>3. pc'[t] \in Getting => i < idx'[t]
            BY DEF Reading, Getting, Releasing
          <5> QED BY <2>1, <5>1, <5>2, <5>3
        <4>2. CASE idx[t] # NInputs(t)
          <5>1. pc'[t] = pc[t] /\ idx'[t] = idx[t] + 1
            BY <2>1, <2>3, <4>2 DEF ReleaseInput
          <5> QED BY <1>2, <2>1, <3>1, <4>2, <5>1 DEF Reading, Getting, Releasing
        <4> QED BY <4>1, <4>2
      <3>3. i # idx[t] /\ i >= idx[t]
        BY <2>1, <3>2
      <3>4. cur'[t][i] = cur[t][i]
        <4>1. \E x : cur' = [cur EXCEPT ![t][idx[t]] = x]
          BY <2>3 DEF ReleaseInput
        <4> QED BY <2>1, <3>3, <4>1
      <3> QED BY <1>2, <3>1, <3>2, <3>3, <3>4 DEF Reading, Releasing, Getting
    <2>4. CASE ~ PopInput(t) /\ ~ ReleaseInput(t)
      <3>1. UNCHANGED <<finished, inputs, cur>>
        BY <2>4, InputsStay
      <3>2. Reading(t, i)
        <4>1. CASE SkipInput(t)
          <5>1. /\ pc[t] \in Getting /\ pc'[t] = pc[t] /\ idx'[t] = idx[t] + 1
                /\ finished[t][idx[t]]
            BY <2>1, <4>1 DEF SkipInput
          <5> QED BY <1>2, <2>1, <3>1, <5>1 DEF Reading
        <4>2. CASE Stop(t) \/ Proceed(t) \/ Fail(t) \/ Reget(t) \/ Flush(t)
          <5>1. pc[t] \in Getting /\ i < idx[t]
            BY <2>1, <4>2 DEF Stop, Proceed, Fail, Reget, Flush, GotInputs, Getting
          <5>2. ~ finished[t][i]
            BY <3>1
          <5> QED BY <5>1, <5>2 DEF Reading, Getting, Releasing
        <4>3. CASE PopOut(t) \/ Generate(t) \/ Process(t) \/ Reduce(t) \/ Regenerate(t)
                   \/ Push(t) \/ BroadcastCopy(t)
          <5>1. pc[t] \notin Getting /\ pc[t] \notin Releasing /\ pc[t] # "done"
            BY <4>3 DEF PopOut, Generate, Process, Reduce, Regenerate, Push, BroadcastCopy,
                        Getting, Releasing
          <5> QED BY <1>2, <3>1, <5>1 DEF Reading
        <4> QED BY <2>4, <4>1, <4>2, <4>3 DEF Run
      <3> QED BY <1>2, <2>4, <3>1, <3>2
    <2> QED BY <2>2, <2>3, <2>4
  <1> QED BY <1>1, <1>2

(* A thread comes to the places in Alive only with an input left to read, *)
(* and only a pop of an output buffer makes it hold one.                  *)
LEMMA PlaceStays ==
    ASSUME TypeInv, NEW t \in Task, Run(t)
    PROVE  /\ pc'[t] \in Alive => ~ AllFinished(t)' \/ pc[t] \in Alive
           /\ HoldsOutput(t)' => HoldsOutput(t) \/ PopOut(t)
  <1>1. pc \in [Task -> PCs] /\ Position(t) /\ t \in Task
    BY DEF TypeInv, TypeOK, ThreadsOK, Positions
  <1>2. CASE PopInput(t)
    <2>1. pc[t] \in Getting /\ UNCHANGED pc
      BY <1>2 DEF PopInput
    <2> QED BY <2>1 DEF Getting, Alive, HoldsOutput
  <1>3. CASE ReleaseInput(t)
    <2>1. pc[t] \in Releasing /\ UNCHANGED finished
      BY <1>3 DEF ReleaseInput
    <2>2. pc'[t] = pc[t] \/ pc'[t] = AfterRelease(t)
      BY <1>1, <1>3 DEF ReleaseInput
    <2> QED BY <2>1, <2>2 DEF Releasing, Alive, HoldsOutput, AfterRelease
  <1>4. CASE ~ PopInput(t) /\ ~ ReleaseInput(t)
    <2>1. UNCHANGED finished
      BY <1>4, InputsStay
    <2>2. AllFinished(t)' <=> AllFinished(t)
      BY <2>1 DEF AllFinished
    <2>3. CASE SkipInput(t) \/ BroadcastCopy(t)
      BY <1>1, <2>3 DEF SkipInput, BroadcastCopy, Alive, HoldsOutput, Getting
    <2>4. CASE Stop(t) \/ Proceed(t) \/ Fail(t) \/ Reget(t) \/ Flush(t)
      BY <1>1, <2>2, <2>4 DEF Stop, Proceed, Fail, Reget, Flush, Leave, GotInputs, Alive,
                             HoldsOutput, Position, Reducing
    <2>5. CASE PopOut(t) \/ Generate(t) \/ Process(t)
      <3>1. CASE PopOut(t)
        <4>1. pc[t] \in {"popout", "repopout"}
          BY <3>1 DEF PopOut
        <4>2. CASE pc[t] = "repopout"
          <5>1. pc'[t] = "regenerate"
            BY <1>1, <3>1, <4>2 DEF PopOut
          <5> QED BY <3>1, <5>1 DEF Alive
        <4> QED BY <3>1, <4>1, <4>2 DEF Alive
      <3>2. CASE Generate(t)
        BY <1>1, <2>2, <3>2 DEF Generate, Produce, Leave, Alive, HoldsOutput
      <3>3. CASE Process(t)
        BY <1>1, <2>2, <3>3 DEF Process, Leave, Alive, HoldsOutput
      <3> QED BY <2>5, <3>1, <3>2, <3>3
    <2>6. CASE Reduce(t) \/ Regenerate(t)
      BY <1>1, <2>2, <2>6 DEF Reduce, Regenerate, Produce, Leave, Alive, HoldsOutput
    <2>7. CASE Push(t)
      BY <1>1, <2>2, <2>7 DEF Push, AfterPush, Alive, HoldsOutput
    <2> QED BY <1>4, <2>3, <2>4, <2>5, <2>6, <2>7 DEF Run
  <1> QED BY <1>2, <1>3, <1>4

----------------------------------------------------------------------------
(* Steps that pop and release nothing                                      *)

(* What a step of t leaves true of the other threads. *)
LEMMA OthersKeep ==
    ASSUME IInv, NEW t \in Task, Run(t), NEW u \in Task \ {t}
    PROVE  /\ TaskInv(u)'
           /\ HoldsOutput(u)' <=> HoldsOutput(u)
           /\ OutQueue(u)' = OutQueue(u)
  <1>1. TypeInv /\ TaskInv(u) /\ [Next]_vars
    BY DEF IInv, Next
  <1>2. /\ pc'[u] = pc[u] /\ idx'[u] = idx[u] /\ out'[u] = out[u]
        /\ finished'[u] = finished[u] /\ inputs'[u] = inputs[u] /\ cur'[u] = cur[u]
        /\ held'[u] = held[u] /\ current'[u] = current[u]
    BY <1>1, OwnLocals
  <1>3. /\ HoldsOutput(u)' <=> HoldsOutput(u)
        /\ OutQueue(u)' = OutQueue(u)
        /\ AllFinished(u)' <=> AllFinished(u)
        /\ \A i \in 1..NInputs(u) : Reading(u, i)' <=> Reading(u, i)
        /\ \A i \in 1..NInputs(u) : InQueue(u, i)' = InQueue(u, i)
    BY <1>2 DEF HoldsOutput, OutQueue, AllFinished, Reading, InQueue
  <1>4. \A q \in Queue : Own(q) \subseteq Own(q)' /\ Reach(q) \subseteq Reach(q)'
    BY <1>1, Grows
  <1>5. HoldsOutput(u)' => out'[u] \in (Reach(OutQueue(u)))'
    <2>1. ASSUME HoldsOutput(u) PROVE out[u] \in Reach(OutQueue(u)) /\ OutQueue(u) \in Queue
      BY <1>1, <2>1, OutQueueType DEF TaskInv, HoldsOutput
    <2>2. PICK q : q = OutQueue(u)
      OBVIOUS
    <2>3. HoldsOutput(u) => out[u] \in Reach(q)'
      BY <1>4, <2>1, <2>2
    <2> QED BY <1>2, <1>3, <2>2, <2>3
  <1>6. \A b \in held'[u] : b[1] \in Sources(u) /\ b \in (Own(b[1]))'
    <2>1. Sources(u) \subseteq Queue
      BY WiringFacts DEF Sources
    <2> QED BY <1>1, <1>2, <1>4, <2>1 DEF TaskInv
  <1>7. ASSUME NEW i \in 1..NInputs(u) PROVE InputInv(u, i)'
    <2>1. InputInv(u, i)
      BY <1>1 DEF TaskInv
    <2>2. /\ Range(InQueues[u][i]) \subseteq Queue
          /\ InQueue(u, i) \in Queue
      BY <1>1, WiringFacts, InQueueFacts
    <2>3. PICK q \in Queue : q = InQueue(u, i)
      BY <2>2
    <2>4. inputs'[u][i] # NoBuffer => \E s \in Range(InQueues[u][i]) : inputs'[u][i] \in Own(s)'
      BY <1>2, <1>4, <2>1, <2>2 DEF InputInv
    <2>5. Reading(u, i)' => inputs'[u][i] \in held'[u] /\ inputs'[u][i] \in Own(q)'
      BY <1>2, <1>3, <1>4, <2>1, <2>3 DEF InputInv
    <2>6. InQueue(u, i)' = q
      BY <1>3, <2>3
    <2> QED BY <2>4, <2>5, <2>6 DEF InputInv
  <1>8. pc'[u] \in Alive => ~ AllFinished(u)'
    BY <1>1, <1>2, <1>3 DEF TaskInv
  <1>9. Sources(u)' = Sources(u)
    BY DEF Sources
  <1> QED BY <1>3, <1>5, <1>6, <1>7, <1>8 DEF TaskInv

(* A queue keeps its invariant when its sides lose buffers or get markers. *)
LEMMA QueueKeeps ==
    ASSUME IInv, [Next]_vars, NEW q \in Queue, free'[q] = free[q],
           \/ full'[q] = full[q]
           \/ full'[q] = Append(full[q], EndOfStream)
           \/ full[q] # <<>> /\ full'[q] = Tail(full[q])
    PROVE  QueueInv(q)' /\ Range(full'[q]) \subseteq Range(full[q]) \cup {EndOfStream}
  <1>1. TypeInv /\ QueueInv(q)
    BY DEF IInv
  <1>2. Own(q) \subseteq Own(q)' /\ Reach(q) \subseteq Reach(q)' /\ (Open(q)' => Open(q))
    BY <1>1, Grows
  <1>3. full[q] \in Seq(Pointer \cup {EndOfStream})
    BY <1>1 DEF TypeInv, TypeOK, QueuesOK
  <1>4. /\ Range(full'[q]) \subseteq Range(full[q]) \cup {EndOfStream}
        /\ OnceBut(EndOfStream, full[q]) => OnceBut(EndOfStream, full'[q])
    <2>1. CASE full'[q] = full[q]
      BY <2>1
    <2>2. CASE full'[q] = Append(full[q], EndOfStream)
      BY <1>3, <2>2, AppendRange, OnceAppend
    <2>3. CASE full[q] # <<>> /\ full'[q] = Tail(full[q])
      BY <1>3, <2>3, TailRange, OnceTail
    <2> QED BY <2>1, <2>2, <2>3
  <1>5. EndOfStream \notin Range(free[q])
    BY <1>1, ReachFacts DEF QueueInv
  <1> QED BY <1>1, <1>2, <1>4, <1>5 DEF QueueInv

(* What t keeps for itself when it neither pops nor releases an input. *)
LEMMA InputsKeep ==
    ASSUME IInv, NEW t \in Task, Run(t), ~ PopInput(t), ~ ReleaseInput(t),
           (HoldsOutput(t) => out[t] \in Reach(OutQueue(t)))'
    PROVE  TaskInv(t)'
  <1>1. TypeInv /\ TaskInv(t) /\ [Next]_vars
    BY DEF IInv, Next
  <1>2. UNCHANGED <<finished, inputs, cur, held>>
    BY InputsStay
  <1>3. \A q \in Queue : Own(q) \subseteq Own(q)'
    BY <1>1, Grows
  <1>4. \A b \in held'[t] : b[1] \in Sources(t) /\ b \in (Own(b[1]))'
    <2>1. Sources(t) \subseteq Queue
      BY WiringFacts DEF Sources
    <2> QED BY <1>1, <1>2, <1>3, <2>1 DEF TaskInv
  <1>5. ASSUME NEW i \in 1..NInputs(t) PROVE InputInv(t, i)'
    <2>1. InputInv(t, i)
      BY <1>1 DEF TaskInv
    <2>2. Range(InQueues[t][i]) \subseteq Queue /\ InQueue(t, i) \in Queue
      BY <1>1, WiringFacts, InQueueFacts
    <2>3. PICK q \in Queue : q = InQueue(t, i)
      BY <2>2
    <2>4. Reading(t, i)' => Reading(t, i)
      BY <1>1, ReadingStays
    <2>5. inputs'[t][i] # NoBuffer => \E s \in Range(InQueues[t][i]) : inputs'[t][i] \in Own(s)'
      BY <1>2, <1>3, <2>1, <2>2 DEF InputInv
    <2>6. Reading(t, i)' => inputs'[t][i] \in held'[t] /\ inputs'[t][i] \in Own(q)'
      BY <1>2, <1>3, <2>1, <2>3, <2>4 DEF InputInv
    <2>7. InQueue(t, i)' = q
      BY <1>2, <2>3 DEF InQueue
    <2> QED BY <2>5, <2>6, <2>7 DEF InputInv
  <1>6. pc'[t] \in Alive => ~ AllFinished(t)'
    <2>1. AllFinished(t)' <=> AllFinished(t)
      BY <1>2 DEF AllFinished
    <2> QED BY <1>1, <2>1, PlaceStays DEF TaskInv
  <1>7. Sources(t)' = Sources(t)
    BY DEF Sources
  <1> QED BY <1>4, <1>5, <1>6, <1>7 DEF TaskInv

(* These steps move no buffer: at most they append end markers. *)
LEMMA StillStep ==
    ASSUME IInv, TypeInv', NEW t \in Task, Run(t), ~ PopInput(t), ~ PopOut(t), ~ ReleaseInput(t),
           UNCHANGED <<free, capacity, out, current>>,
           \A q \in Queue : full'[q] = full[q] \/ full'[q] = Append(full[q], EndOfStream)
    PROVE  IInv'
  <1>1. TypeInv /\ TaskInv(t) /\ [Next]_vars /\ Apart
    BY DEF IInv, Next
  <1>2. UNCHANGED held
    BY InputsStay
  <1>3. \A u \in Task : /\ HoldsOutput(u)' => HoldsOutput(u)
                        /\ OutQueue(u)' = OutQueue(u)
    <2>1. OutQueue(t)' = OutQueue(t)
      BY DEF OutQueue
    <2> QED BY <1>1, <2>1, PlaceStays, OthersKeep
  <1>4. (HoldsOutput(t) => out[t] \in Reach(OutQueue(t)))'
    <2>1. ASSUME HoldsOutput(t) PROVE out[t] \in Reach(OutQueue(t)) /\ OutQueue(t) \in Queue
      BY <1>1, <2>1, OutQueueType DEF TaskInv, HoldsOutput
    <2>2. PICK q : q = OutQueue(t)
      OBVIOUS
    <2>3. HoldsOutput(t) => out[t] \in Reach(q)'
      BY <1>1, <2>1, <2>2, Grows
    <2> QED BY <1>3, <2>2, <2>3
  <1>5. \A u \in Task : TaskInv(u)'
    BY <1>4, InputsKeep, OthersKeep
  <1>6. \A q \in Queue : QueueInv(q)' /\ Range(full'[q]) \subseteq Range(full[q]) \cup {EndOfStream}
    BY <1>1, QueueKeeps
  <1>7. Apart'
    <2>1. \A u \in Task : EndOfStream \notin held[u]
      <3>1. \A u \in Task : \A b \in held[u] : b[1] \in Queue /\ b \in Own(b[1])
        BY WiringFacts DEF IInv, TaskInv, Sources
      <3> QED BY <1>1, <3>1, OwnFacts
    <2>2. \A u \in Task : HoldsOutput(u) => out[u] # EndOfStream
      <3>1. ASSUME NEW u \in Task, HoldsOutput(u) PROVE out[u] # EndOfStream
        <4>1. OutQueue(u) \in Queue /\ out[u] \in Reach(OutQueue(u))
          BY <1>1, <3>1, OutQueueType DEF IInv, TaskInv, HoldsOutput
        <4> QED BY <1>1, <4>1, ReachFacts
      <3> QED BY <3>1
    <2>3. \A q \in Queue : Open(q)' => Open(q)
      BY <1>1, Grows
    <2>4. ASSUME NEW u \in Task, NEW q \in Queue
          PROVE  /\ held'[u] \cap Range(free'[q]) = {}
                 /\ Open(q)' => held'[u] \cap Range(full'[q]) = {}
                 /\ HoldsOutput(u)' /\ Open(q)' => out'[u] \notin Range(free'[q]) \cup Range(full'[q])
      <3>1. /\ held'[u] = held[u] /\ out'[u] = out[u] /\ free'[q] = free[q]
            /\ Range(full'[q]) \subseteq Range(full[q]) \cup {EndOfStream}
            /\ HoldsOutput(u)' => HoldsOutput(u)
        BY <1>2, <1>3, <1>6
      <3>2. /\ held[u] \cap Range(free[q]) = {}
            /\ Open(q) => held[u] \cap Range(full[q]) = {}
            /\ HoldsOutput(u) /\ Open(q) => out[u] \notin Range(free[q]) \cup Range(full[q])
        BY <1>1 DEF Apart
      <3>3. held[u] \cap {EndOfStream} = {}
        BY <2>1
      <3> QED BY <2>2, <2>3, <3>1, <3>2, <3>3
    <2>5. ASSUME NEW u \in Task, NEW v \in Task, HoldsOutput(v)' PROVE out'[v] \notin held'[u]
      BY <1>1, <1>2, <1>3, <2>5 DEF Apart
    <2> QED BY <2>4, <2>5 DEF Apart
  <1> QED BY <1>5, <1>6, <1>7 DEF IInv

LEMMA StillSteps ==
    ASSUME IInv, TypeInv', NEW t \in Task, Run(t), ~ PopInput(t), ~ PopOut(t), ~ ReleaseInput(t),
           ~ Push(t), ~ BroadcastCopy(t)
    PROVE  IInv'
  <1>1. UNCHANGED queueVars \/ Finish(t)
    BY DEF Run, SkipInput, Stop, Proceed, Fail, Generate, Produce, Process, Reduce, Reget,
           Regenerate, Flush, Leave
  <1>2. UNCHANGED <<free, capacity>>
    BY <1>1 DEF queueVars, Finish, FinishTo
  <1>3. \A q \in Queue : full'[q] = full[q] \/ full'[q] = Append(full[q], EndOfStream)
    BY <1>1, Zenon DEF queueVars, Finish, FinishTo
  <1>4. UNCHANGED <<out, current>>
    BY DEF groupVars, Run, SkipInput, Stop, Proceed, Fail, Generate, Produce, Process, Reduce,
           Reget, Regenerate, Flush, Leave, Finish, FinishTo
  <1> QED BY <1>2, <1>3, <1>4, StillStep

(* What is held and what is written to are buffers. *)
LEMMA PlacesType ==
    ASSUME IInv, NEW u \in Task
    PROVE  /\ \A b \in held[u] : b[1] \in Sources(u) /\ b[1] \in Queue /\ b \in Own(b[1])
           /\ EndOfStream \notin held[u] /\ NoBuffer \notin held[u]
           /\ HoldsOutput(u) => /\ OutQueue(u) \in Queue /\ OutQueue(u)[1] = u
                                /\ out[u] \in Reach(OutQueue(u)) /\ out[u] # EndOfStream
  <1>1. TypeInv
    BY DEF IInv
  <1>2. \A b \in held[u] : b[1] \in Sources(u) /\ b[1] \in Queue /\ b \in Own(b[1])
    BY WiringFacts DEF IInv, TaskInv, Sources
  <1>3. EndOfStream \notin held[u] /\ NoBuffer \notin held[u]
    BY <1>1, <1>2, OwnFacts
  <1>4. HoldsOutput(u) => /\ OutQueue(u) \in Queue /\ OutQueue(u)[1] = u
                          /\ out[u] \in Reach(OutQueue(u))
    BY <1>1, OutQueueType DEF IInv, TaskInv, HoldsOutput
  <1> QED BY <1>1, <1>2, <1>3, <1>4, ReachFacts

(* Two tasks, or two inputs, have no queue in common. *)
LEMMA SourcesApart ==
    /\ \A t, u \in Task : t # u => Sources(t) \cap Sources(u) = {}
    /\ \A t \in Task : \A i, j \in 1..NInputs(t) :
          i # j => Range(InQueues[t][i]) \cap Range(InQueues[t][j]) = {}
    /\ \A t \in Task : \A i \in 1..NInputs(t) : Range(InQueues[t][i]) \subseteq Sources(t)
  <1>1. ASSUME NEW t \in Task, NEW u \in Task, NEW q, q \in Sources(t), q \in Sources(u)
        PROVE  t = u
    <2>1. PICK i \in 1..NInputs(t) : q \in Range(InQueues[t][i])
      BY <1>1 DEF Sources
    <2>2. PICK j \in 1..NInputs(u) : q \in Range(InQueues[u][j])
      BY <1>1 DEF Sources
    <2> QED BY <2>1, <2>2, WiringFacts
  <1>2. ASSUME NEW t \in Task, NEW i \in 1..NInputs(t), NEW j \in 1..NInputs(t), NEW q,
               q \in Range(InQueues[t][i]), q \in Range(InQueues[t][j])
        PROVE  i = j
    BY <1>2, WiringFacts, SMTT(30)
  <1>3. \A t, u \in Task : t # u => Sources(t) \cap Sources(u) = {}
    BY <1>1
  <1>4. \A t \in Task : \A i, j \in 1..NInputs(t) :
          i # j => Range(InQueues[t][i]) \cap Range(InQueues[t][j]) = {}
    BY <1>2
  <1> QED BY <1>3, <1>4 DEF Sources

LEMMA PopInputPlaces ==
    ASSUME IInv, TypeInv', NEW t \in Task, PopInput(t)
    PROVE  IInv'
  <1> DEFINE j == idx[t]
  <1>1. TypeInv /\ Run(t) /\ [Next]_vars
    BY DEF IInv, Run, Next
  <1>2. j \in 1..NInputs(t) /\ pc[t] \in Getting /\ ~ finished[t][j]
    BY <1>1, ConstantsType DEF TypeInv, TypeOK, ThreadsOK, PopInput
  <1>3. PICK q \in Queue : q = InQueue(t, j) /\ q \in Range(InQueues[t][j])
    BY <1>1, <1>2, InQueueFacts
  <1>4. PICK b : b = InBuffer(q)
    OBVIOUS
  <1>5. Open(q)
    BY <1>2, <1>3, OpenFacts DEF Outlived
  <1>6. /\ full[q] # <<>> /\ full' = [full EXCEPT ![q] = Tail(full[q])] /\ b = Head(full[q])
        /\ UNCHANGED <<free, capacity, current, pc, cur, out>>
        /\ b = EndOfStream => UNCHANGED held
        /\ b # EndOfStream => held' = [held EXCEPT ![t] = @ \cup {b}] /\ UNCHANGED finished
        /\ inputs' = [inputs EXCEPT ![t][j] = NewInput(@, b)]
    BY <1>3, <1>4 DEF PopInput, PopInputBuffer, ConsumerPop, InBuffer
  <1>7. /\ DOMAIN full = Queue /\ full[q] \in Seq(Pointer \cup {EndOfStream})
        /\ DOMAIN held = Task
    BY <1>1 DEF TypeInv, TypeOK, QueuesOK, GhostsOK
  <1>8. QueueInv(q) /\ TaskInv(t) /\ Apart
    BY DEF IInv
  <1>9. /\ Range(full[q]) = Range(Tail(full[q])) \cup {b}
        /\ b # EndOfStream => b \notin Range(Tail(full[q])) /\ b \in Own(q)
    BY <1>5, <1>6, <1>7, <1>8, TailRange, OnceTail DEF QueueInv
  <1>10. ASSUME NEW r \in Queue
         PROVE  /\ QueueInv(r)' /\ Range(full'[r]) \subseteq Range(full[r])
                /\ b # EndOfStream => b \notin Range(free[r])
                /\ b # EndOfStream /\ Open(r) => b \notin Range(full'[r])
    <2>1. full'[r] = full[r] \/ (full[r] # <<>> /\ full'[r] = Tail(full[r]))
      BY <1>6, <1>7
    <2>2. QueueInv(r)'
      BY <1>1, <1>6, <2>1, QueueKeeps
    <2>3. Range(full'[r]) \subseteq Range(full[r])
      BY <1>6, <1>7, <1>9
    <2>4. CASE r = q
      BY <1>5, <1>6, <1>7, <1>8, <1>9, <2>2, <2>3, <2>4 DEF QueueInv
    <2>5. CASE r # q
      <3>1. Reach(r) \cap Own(q) = {} /\ Range(free[r]) \subseteq Reach(r)
        BY <1>1, <1>5, <2>5, ReachFacts DEF IInv, QueueInv
      <3>2. Open(r) => Range(full'[r]) \subseteq Own(r) \cup {EndOfStream} /\ Own(r) = Reach(r)
        BY <2>3 DEF IInv, QueueInv, Reach
      <3> QED BY <1>9, <2>2, <2>3, <3>1, <3>2
    <2> QED BY <2>4, <2>5
  <1>11. ASSUME NEW u \in Task
         PROVE  /\ HoldsOutput(u)' <=> HoldsOutput(u)
                /\ OutQueue(u)' = OutQueue(u) /\ out'[u] = out[u]
                /\ held'[u] = held[u] \/ (held'[u] = held[u] \cup {b} /\ b # EndOfStream)
                /\ HoldsOutput(u) /\ b # EndOfStream => out[u] # b
    <2>1. /\ HoldsOutput(u)' <=> HoldsOutput(u)
          /\ OutQueue(u)' = OutQueue(u) /\ out'[u] = out[u]
      BY <1>6 DEF HoldsOutput, OutQueue
    <2>2. held'[u] = held[u] \/ (held'[u] = held[u] \cup {b} /\ b # EndOfStream)
      BY <1>6, <1>7
    <2>3. ASSUME HoldsOutput(u), b # EndOfStream PROVE out[u] # b
      <3>1. OutQueue(u) \in Queue /\ out[u] \in Reach(OutQueue(u))
        BY <2>3, PlacesType
      <3>2. CASE OutQueue(u) = q
        BY <1>5, <1>8, <1>9, <2>3, <3>2 DEF Apart
      <3>3. CASE OutQueue(u) # q
        BY <1>1, <1>5, <1>9, <2>3, <3>1, <3>3, ReachFacts
      <3> QED BY <3>2, <3>3
    <2> QED BY <2>1, <2>2, <2>3
  <1>12. Apart'
    <2>1. \A r \in Queue : Open(r)' => Open(r)
      BY <1>1, Grows
    <2>2. ASSUME NEW u \in Task, NEW r \in Queue
          PROVE  /\ held'[u] \cap Range(free'[r]) = {}
                 /\ Open(r)' => held'[u] \cap Range(full'[r]) = {}
                 /\ HoldsOutput(u)' /\ Open(r)' => out'[u] \notin Range(free'[r]) \cup Range(full'[r])
      <3>1. /\ held[u] \cap Range(free[r]) = {}
            /\ Open(r) => held[u] \cap Range(full[r]) = {}
            /\ HoldsOutput(u) /\ Open(r) => out[u] \notin Range(free[r]) \cup Range(full[r])
        BY <1>8 DEF Apart
      <3>2. free'[r] = free[r]
        BY <1>6
      <3> QED BY <1>10, <1>11, <2>1, <3>1, <3>2
    <2>3. ASSUME NEW u \in Task, NEW v \in Task, HoldsOutput(v)' PROVE out'[v] \notin held'[u]
      BY <1>8, <1>11, <2>3 DEF Apart
    <2> QED BY <2>2, <2>3 DEF Apart
  <1>13. TaskInv(t)'
    <2>1. \A r \in Queue : Own(r)' = Own(r) /\ Reach(r) \subseteq Reach(r)'
      BY <1>1, <1>6, Grows DEF Own
    <2>2. HoldsOutput(t)' => out'[t] \in (Reach(OutQueue(t)))'
      <3>1. PICK r : r = OutQueue(t)
        OBVIOUS
      <3>2. HoldsOutput(t) => out[t] \in Reach(r)'
        BY <2>1, <3>1, PlacesType
      <3> QED BY <1>11, <3>1, <3>2
    <2>3. \A c \in held'[t] : c[1] \in Sources(t) /\ c \in (Own(c[1]))'
      <3>1. \A c \in held[t] : c[1] \in Sources(t) /\ c[1] \in Queue /\ c \in Own(c[1])
        BY PlacesType
      <3>2. b # EndOfStream => b[1] = q /\ q \in Sources(t) /\ b \in Own(q)
        BY <1>1, <1>2, <1>3, <1>9, OwnFacts, SourcesApart
      <3> QED BY <1>11, <2>1, <3>1, <3>2
    <2>4. ASSUME NEW i \in 1..NInputs(t) PROVE InputInv(t, i)'
      <3>1. InputInv(t, i) /\ Range(InQueues[t][i]) \subseteq Queue /\ InQueue(t, i) \in Queue
        BY <1>1, <1>8, WiringFacts, InQueueFacts DEF TaskInv
      <3>2. DOMAIN inputs = Task /\ inputs[t] \in [1..NInputs(t) -> Pointer]
        BY <1>1 DEF TypeInv, TypeOK, InputsOK
      <3>3. InQueue(t, i)' = InQueue(t, i)
        BY <1>6 DEF InQueue
      <3>4. PICK r \in Queue : r = InQueue(t, i)
        BY <3>1
      <3>5. held[t] \subseteq held'[t]
        BY <1>11
      <3>6. CASE i = j
        <4>1. b = EndOfStream => inputs'[t][i] = inputs[t][i] /\ ~ Reading(t, i)'
          <5>1. b = EndOfStream => finished' = [finished EXCEPT ![t][j] = TRUE]
            BY <1>3, <1>4 DEF PopInput
          <5>2. DOMAIN finished = Task /\ finished[t] \in [1..NInputs(t) -> BOOLEAN]
            BY <1>1 DEF TypeInv, TypeOK, InputsOK
          <5>3. b = EndOfStream => finished'[t][i]
            BY <3>6, <5>1, <5>2
          <5>4. b = EndOfStream => inputs'[t][i] = inputs[t][i]
            BY <1>6, <3>2, <3>6 DEF NewInput
          <5> QED BY <5>3, <5>4 DEF Reading
        <4>2. b # EndOfStream => inputs'[t][i] = b /\ b \in held'[t]
          BY <1>6, <1>7, <3>2, <3>6 DEF NewInput
        <4>3. inputs'[t][i] # NoBuffer => \E s \in Range(InQueues[t][i]) : inputs'[t][i] \in Own(s)'
          BY <1>3, <1>9, <2>1, <3>1, <3>6, <4>1, <4>2 DEF InputInv
        <4>4. Reading(t, i)' => inputs'[t][i] \in held'[t] /\ inputs'[t][i] \in Own(r)'
          BY <1>3, <1>9, <2>1, <3>4, <3>6, <4>1, <4>2
        <4> QED BY <3>3, <3>4, <4>3, <4>4 DEF InputInv
      <3>7. CASE i # j
        <4>1. inputs'[t][i] = inputs[t][i]
          BY <1>6, <3>2, <3>7
        <4>2. Reading(t, i)' => Reading(t, i)
          BY <1>1, <3>7, ReadingStays
        <4>3. inputs'[t][i] # NoBuffer => \E s \in Range(InQueues[t][i]) : inputs'[t][i] \in Own(s)'
          BY <2>1, <3>1, <4>1 DEF InputInv
        <4>4. Reading(t, i)' => inputs'[t][i] \in held'[t] /\ inputs'[t][i] \in Own(r)'
          BY <2>1, <3>1, <3>4, <3>5, <4>1, <4>2 DEF InputInv
        <4> QED BY <3>3, <3>4, <4>3, <4>4 DEF InputInv
      <3> QED BY <3>6, <3>7
    <2>5. pc'[t] \notin Alive
      BY <1>2, <1>6 DEF Alive, Getting
    <2>6. Sources(t)' = Sources(t)
      BY DEF Sources
    <2> QED BY <2>2, <2>3, <2>4, <2>5, <2>6 DEF TaskInv
  <1> QED BY <1>1, <1>10, <1>12, <1>13, OthersKeep DEF IInv

(* The buffer that leaves the free side of q, and what stays there: both   *)
(* are nowhere else.                                                       *)
LEMMA PoppedFacts ==
    ASSUME IInv, TypeInv', [Next]_vars, NEW q \in Queue, ProducerPop(q, Limit(q[1])),
           UNCHANGED finished, NEW x, x = Head(Grown(q, Limit(q[1])))
    PROVE  /\ x \in Reach(q)' /\ x # EndOfStream
           /\ Range(free'[q]) \subseteq Reach(q)' /\ EndOfStream \notin Range(free'[q])
           /\ Open(q) => /\ IsInjective(free'[q]) /\ x \notin Range(free'[q])
                         /\ ({x} \cup Range(free'[q])) \cap Range(full[q]) = {}
           /\ \A u \in Task :
                 /\ x \notin held[u] /\ held[u] \cap Range(free'[q]) = {}
                 /\ HoldsOutput(u) /\ Open(q) => out[u] # x /\ out[u] \notin Range(free'[q])
           /\ \A r \in Queue \ {q} : Open(r) => x \notin Own(r)
  <1> DEFINE G == Grown(q, Limit(q[1]))
             fresh == <<q, capacity[q] + 1>>
  <1>1. TypeInv /\ QueueInv(q) /\ Apart /\ EndOfStream \notin Range(free[q])
    BY ReachFacts DEF IInv, QueueInv
  <1>2. /\ G # <<>> /\ G \in Seq(Pointer) /\ free'[q] = Tail(G)
        /\ capacity' = [capacity EXCEPT ![q] = IF @ < Limit(q[1]) THEN @ + 1 ELSE @]
    BY <1>1, GrownType DEF ProducerPop, TypeInv, TypeOK, QueuesOK
  <1>3. /\ Range(G) = Range(free'[q]) \cup {x}
        /\ IsInjective(G) => IsInjective(free'[q]) /\ x \notin Range(free'[q])
    BY <1>2, TailRange
  <1>4. CASE capacity[q] < Limit(q[1])
    <2>1. /\ G = Append(free[q], fresh) /\ capacity'[q] = capacity[q] + 1
          /\ free[q] \in Seq(Pointer) /\ fresh \in Pointer /\ capacity[q] \in Nat
      <3>1. capacity[q] + 1 \in 1..Limit(q[1])
        BY <1>1, <1>4, ConstantsType DEF TypeInv, TypeOK, QueuesOK
      <3>2. fresh \in Pointer
        BY <3>1, ConstantsType DEF Pointer
      <3> QED BY <1>1, <1>2, <1>4, <3>2 DEF Grown, TypeInv, TypeOK, QueuesOK
    <2>2. fresh \in Own(q)' /\ fresh[1] = q /\ fresh \notin Own(q)
      BY <1>1, <2>1, OwnFacts DEF Own
    <2>3. fresh \in Reach(q)'
      <3>1. ASSUME ~ Open(q)' PROVE q \in Siblings(q)
        <4> PICK t \in Task : \E i \in 1..NInputs(t) : q \in Range(InQueues[t][i])
          BY <3>1, OpenFacts
        <4>1. PICK i \in 1..NInputs(t) : q \in Range(InQueues[t][i])
          OBVIOUS
        <4> QED BY <4>1, OpenFacts
      <3> QED BY <2>2, <3>1 DEF Reach
    <2>4. \A r \in Queue : fresh \notin Reach(r) /\ fresh \notin Own(r)
      <3>1. \A r \in Queue : fresh \in Own(r) => r = q
        BY <1>1, <2>2, OwnFacts
      <3> QED BY <1>1, <1>4, <2>2, <3>1, ReachFacts
    <2>5. fresh # EndOfStream
      <3>1. fresh \in Slots(q)
        BY <2>1, <1>4, ConstantsType DEF Slots
      <3> QED BY <3>1, SlotFacts
    <2>6. Range(G) = Range(free[q]) \cup {fresh}
      BY <2>1, AppendRange, SMTT(30)
    <2>7. Range(G) \subseteq Reach(q)' /\ EndOfStream \notin Range(G)
      BY <1>1, <2>3, <2>5, <2>6, Grows DEF QueueInv
    <2>8. ASSUME Open(q)
          PROVE  IsInjective(G) /\ Range(G) \cap Range(full[q]) = {}
      <3>1. /\ IsInjective(free[q]) /\ Range(free[q]) \cap Range(full[q]) = {}
            /\ fresh \notin Range(free[q]) /\ fresh \notin Range(full[q])
        BY <1>1, <2>4, <2>5, <2>8 DEF QueueInv
      <3>2. IsInjective(G)
        BY <2>1, <3>1, AppendRange
      <3> QED BY <2>6, <3>1, <3>2
    <2>9. ASSUME NEW u \in Task
          PROVE  /\ held[u] \cap Range(G) = {}
                 /\ HoldsOutput(u) /\ Open(q) => out[u] \notin Range(G)
      <3>1. fresh \notin held[u]
        BY <2>4, PlacesType
      <3>2. HoldsOutput(u) => out[u] # fresh
        BY <2>4, PlacesType
      <3> QED BY <1>1, <2>6, <3>1, <3>2 DEF Apart
    <2>10. ASSUME NEW r \in Queue \ {q}, Open(r) PROVE x \notin Own(r)
      <3>1. x \in Reach(q) \/ x = fresh
        BY <1>1, <1>3, <2>6 DEF QueueInv
      <3> QED BY <1>1, <2>4, <2>10, <3>1, ReachFacts
    <2> QED BY <1>3, <2>7, <2>8, <2>9, <2>10
  <1>5. CASE ~ (capacity[q] < Limit(q[1]))
    <2>1. G = free[q]
      BY <1>5 DEF Grown
    <2>2. Range(G) \subseteq Reach(q)'
      BY <1>1, <2>1, Grows DEF QueueInv
    <2>3. ASSUME NEW u \in Task
          PROVE  /\ held[u] \cap Range(G) = {}
                 /\ HoldsOutput(u) /\ Open(q) => out[u] \notin Range(G)
      BY <1>1, <2>1 DEF Apart
    <2>4. ASSUME NEW r \in Queue \ {q}, Open(r) PROVE x \notin Own(r)
      BY <1>1, <1>3, <2>1, <2>4, ReachFacts DEF QueueInv
    <2> HIDE DEF G
    <2> QED BY <1>1, <1>3, <2>1, <2>2, <2>3, <2>4 DEF QueueInv
  <1> QED BY <1>4, <1>5

(* Queues whose two sides are not touched. *)
LEMMA Untouched ==
    ASSUME IInv, [Next]_vars, NEW r \in Queue, free'[r] = free[r], full'[r] = full[r],
           NEW x, Open(r) => x \notin Own(r), x # EndOfStream
    PROVE  /\ QueueInv(r)'
           /\ Open(r) => x \notin Range(free[r]) \cup Range(full[r])
  <1>1. QueueInv(r)'
    BY QueueKeeps
  <1>2. Open(r) => Range(free[r]) \cup Range(full[r]) \subseteq Own(r) \cup {EndOfStream}
    BY DEF IInv, QueueInv, Reach
  <1> QED BY <1>1, <1>2

LEMMA PopOutPlaces ==
    ASSUME IInv, TypeInv', NEW t \in Task, PopOut(t)
    PROVE  IInv'
  <1>1. TypeInv /\ Run(t) /\ [Next]_vars /\ Apart
    BY DEF IInv, Run, Next
  <1>2. pc[t] \in {"popout", "repopout"} /\ Mode[t] # "sink" /\ ~ HoldsOutput(t)
    BY <1>1 DEF PopOut, TypeInv, Positions, Position, Reducing, HoldsOutput
  <1>3. PICK q \in Queue : q = OutQueue(t) /\ q[1] = t
    BY <1>1, <1>2, OutQueueType
  <1>4. PICK x : x = Head(Grown(q, Limit(t)))
    OBVIOUS
  <1>5. /\ ProducerPop(q, Limit(q[1])) /\ out' = [out EXCEPT ![t] = x]
        /\ \E F : free' = [free EXCEPT ![q] = F]
        /\ UNCHANGED <<full, current, finished, held, inputs, cur>>
    BY <1>3, <1>4 DEF PopOut, PopOutput, OutBuffer, ProducerPop, groupVars, ghostVars
  <1>6. ~ PopInput(t) /\ ~ ReleaseInput(t)
    BY <1>2 DEF PopInput, ReleaseInput, Getting, Releasing
  <1>7. /\ DOMAIN free = Queue /\ DOMAIN out = Task
        /\ \A r \in Queue \ {q} : free'[r] = free[r]
        /\ out'[t] = x /\ \A u \in Task \ {t} : out'[u] = out[u]
    BY <1>1, <1>5 DEF TypeInv, TypeOK, QueuesOK, ThreadsOK
  <1>8. /\ x \in Reach(q)' /\ x # EndOfStream
        /\ Range(free'[q]) \subseteq Reach(q)'
        /\ Open(q) => /\ IsInjective(free'[q]) /\ x \notin Range(free'[q])
                      /\ ({x} \cup Range(free'[q])) \cap Range(full[q]) = {}
        /\ \A u \in Task :
              /\ x \notin held[u] /\ held[u] \cap Range(free'[q]) = {}
              /\ HoldsOutput(u) /\ Open(q) => out[u] # x /\ out[u] \notin Range(free'[q])
        /\ \A r \in Queue \ {q} : Open(r) => x \notin Own(r)
    BY <1>1, <1>3, <1>4, <1>5, PoppedFacts
  <1>9. \A r \in Queue : Open(r)' <=> Open(r)
    BY <1>5 DEF Open, Outlived
  <1>10. ASSUME NEW r \in Queue PROVE QueueInv(r)'
    <2>1. CASE r = q
      <3>1. Open(q) => Range(full[q]) \subseteq Own(q) \cup {EndOfStream} /\ OnceBut(EndOfStream, full[q])
        BY DEF IInv, QueueInv
      <3>2. Own(q) \subseteq Own(q)'
        BY <1>1, Grows
      <3> QED BY <1>5, <1>8, <1>9, <2>1, <3>1, <3>2 DEF QueueInv
    <2>2. CASE r # q
      BY <1>1, <1>5, <1>7, <1>8, <2>2, Untouched
    <2> QED BY <2>1, <2>2
  <1>11. TaskInv(t)'
    <2>1. OutQueue(t)' = q
      BY <1>3, <1>5 DEF OutQueue
    <2>2. (HoldsOutput(t) => out[t] \in Reach(OutQueue(t)))'
      BY <1>7, <1>8, <2>1
    <2> QED BY <1>1, <1>6, <2>2, InputsKeep
  <1>12. Apart'
    <2>1. ASSUME NEW u \in Task, NEW r \in Queue
          PROVE  /\ held'[u] \cap Range(free'[r]) = {}
                 /\ Open(r)' => held'[u] \cap Range(full'[r]) = {}
                 /\ HoldsOutput(u)' /\ Open(r)' => out'[u] \notin Range(free'[r]) \cup Range(full'[r])
      <3>1. /\ held[u] \cap Range(free[r]) = {}
            /\ Open(r) => held[u] \cap Range(full[r]) = {}
            /\ HoldsOutput(u) /\ Open(r) => out[u] \notin Range(free[r]) \cup Range(full[r])
        BY <1>1 DEF Apart
      <3>2. held'[u] = held[u] /\ full'[r] = full[r]
        BY <1>5
      <3>3. held'[u] \cap Range(free'[r]) = {}
        BY <1>7, <1>8, <3>1, <3>2
      <3>4. ASSUME HoldsOutput(u)', Open(r) PROVE out'[u] \notin Range(free'[r]) \cup Range(full'[r])
        <4>1. CASE u = t /\ r = q
          BY <1>7, <1>8, <3>2, <3>4, <4>1
        <4>2. CASE u = t /\ r # q
          BY <1>1, <1>5, <1>7, <1>8, <3>4, <4>2, Untouched
        <4>3. CASE u # t
          <5>1. HoldsOutput(u) /\ out'[u] = out[u]
            BY <1>1, <1>7, <3>4, <4>3, OthersKeep
          <5> QED BY <1>7, <1>8, <3>1, <3>2, <3>4, <5>1
        <4> QED BY <4>1, <4>2, <4>3
      <3> QED BY <1>9, <3>1, <3>2, <3>3, <3>4
    <2>2. ASSUME NEW u \in Task, NEW v \in Task, HoldsOutput(v)' PROVE out'[v] \notin held'[u]
      <3>1. CASE v = t
        BY <1>5, <1>7, <1>8, <3>1
      <3>2. CASE v # t
        <4>1. HoldsOutput(v)
          BY <1>1, <2>2, <3>2, OthersKeep
        <4> QED BY <1>1, <1>5, <1>7, <3>2, <4>1 DEF Apart
      <3> QED BY <3>1, <3>2
    <2> QED BY <2>1, <2>2 DEF Apart
  <1> QED BY <1>1, <1>10, <1>11, <1>12, OthersKeep DEF IInv

(* The output buffer goes to the full side of its queue, perhaps with an   *)
(* end marker behind it.                                                   *)
LEMMA PushedItems ==
    ASSUME TypeInv, NEW t \in Task, Push(t)
    PROVE  /\ pc[t] \in {"push", "repush"} /\ Mode[t] # "sink" /\ HoldsOutput(t)
           /\ OutQueue(t) \in Queue /\ OutQueue(t)[1] = t
           /\ \E items \in {<<out[t]>>, <<out[t], EndOfStream>>} :
                 full' = [full EXCEPT ![OutQueue(t)] = @ \o items]
           /\ UNCHANGED <<free, capacity, finished, inputs, cur, out, held, data, got>>
           /\ ~ HoldsOutput(t)'
  <1>1. pc[t] \in {"push", "repush"} /\ Mode[t] # "sink" /\ Position(t)
    BY DEF TypeInv, Positions, Position, Push, Reducing
  <1>2. OutQueue(t) \in Queue /\ OutQueue(t)[1] = t
    BY <1>1, OutQueueType
  <1>3. \E items \in {<<out[t]>>, <<out[t], EndOfStream>>} :
           full' = [full EXCEPT ![OutQueue(t)] = @ \o items]
    <2>1. CASE PushScatter(t, out[t])
      BY <2>1 DEF PushScatter, ProducerPush, OutQueue
    <2>2. CASE PushSequential(t, out[t])
      <3>1. SubStream(t, out[t]) \in {<<out[t]>>, <<out[t], EndOfStream>>}
        BY Zenon DEF SubStream
      <3> QED BY <2>2, <3>1 DEF PushSequential, ProducerPush, OutQueue
    <2>3. CASE PushOriginal(t, out[t])
      BY <2>3 DEF PushOriginal, ProducerPush, OutQueue
    <2> QED BY <2>1, <2>2, <2>3 DEF Push
  <1>4. UNCHANGED <<free, capacity, finished, inputs, cur, out, held, data, got>>
    BY DEF Push, PushScatter, PushSequential, PushOriginal, ghostVars
  <1>5. ~ HoldsOutput(t)'
    <2>1. pc'[t] = AfterPush(t)
      BY DEF Push, TypeInv, TypeOK, ThreadsOK
    <2>2. AfterPush(t) \in {"repopout", "get", "release"}
      BY <1>1 DEF AfterPush
    <2> QED BY <2>1, <2>2 DEF HoldsOutput
  <1> QED BY <1>1, <1>2, <1>3, <1>4, <1>5 DEF HoldsOutput

LEMMA PushedOnce ==
    ASSUME NEW S, NEW s \in Seq(S), NEW x \in S, NEW e \in S, x # e
    PROVE  /\ s \o <<x>> = Append(s, x) /\ s \o <<x, e>> = Append(Append(s, x), e)
           /\ Range(Append(s, x)) = Range(s) \cup {x}
           /\ Range(Append(Append(s, x), e)) = Range(s) \cup {x, e}
           /\ OnceBut(e, s) /\ x \notin Range(s) =>
                 OnceBut(e, Append(s, x)) /\ OnceBut(e, Append(Append(s, x), e))
  <1>1. s \o <<x>> = Append(s, x) /\ s \o <<x, e>> = Append(Append(s, x), e)
    OBVIOUS
  <1>2. PICK a \in Seq(S) : a = Append(s, x)
    BY AppendProperties
  <1>3. Range(a) = Range(s) \cup {x} /\ Range(Append(a, e)) = Range(a) \cup {e}
    <2>1. Range(Append(s, x)) = Range(s) \cup {x}
      BY AppendRange
    <2>2. Range(Append(a, e)) = Range(a) \cup {e}
      BY AppendRange
    <2> QED BY <1>2, <2>1, <2>2
  <1>4. ASSUME OnceBut(e, s), x \notin Range(s)
        PROVE  OnceBut(e, a) /\ OnceBut(e, Append(a, e))
    BY <1>2, <1>4, OnceAppend
  <1> QED BY <1>1, <1>2, <1>3, <1>4

LEMMA PushPlaces ==
    ASSUME IInv, TypeInv', NEW t \in Task, Push(t)
    PROVE  IInv'
  <1>1. TypeInv /\ Run(t) /\ [Next]_vars /\ Apart
    BY DEF IInv, Run, Next
  <1>2. PICK q \in Queue : q = OutQueue(t) /\ q[1] = t
    BY <1>1, PushedItems
  <1>3. PICK x : x = out[t]
    OBVIOUS
  <1>4. /\ HoldsOutput(t) /\ ~ HoldsOutput(t)' /\ pc[t] \in {"push", "repush"}
        /\ UNCHANGED <<free, capacity, finished, inputs, cur, out, held>>
    BY <1>1, PushedItems
  <1>5. PICK items \in {<<x>>, <<x, EndOfStream>>} : full' = [full EXCEPT ![q] = @ \o items]
    BY <1>1, <1>2, <1>3, PushedItems, Zenon
  <1>6. /\ x \in Reach(q) /\ x # EndOfStream /\ x \in Pointer
        /\ full[q] \in Seq(Pointer \cup {EndOfStream}) /\ DOMAIN full = Queue
    BY <1>1, <1>2, <1>3, <1>4, PlacesType, ReachFacts DEF TypeInv, TypeOK, QueuesOK
  <1>7. /\ Range(full'[q]) \subseteq Range(full[q]) \cup {x, EndOfStream}
        /\ OnceBut(EndOfStream, full[q]) /\ x \notin Range(full[q]) => OnceBut(EndOfStream, full'[q])
        /\ \A r \in Queue \ {q} : full'[r] = full[r]
    <2> DEFINE S == Pointer \cup {EndOfStream}
    <2>1. x \in S /\ EndOfStream \in S /\ full[q] \in Seq(S)
      BY <1>6
    <2>2. full'[q] = full[q] \o items /\ \A r \in Queue \ {q} : full'[r] = full[r]
      BY <1>5, <1>6
    <2> HIDE DEF S
    <2>3. /\ full[q] \o <<x>> = Append(full[q], x)
          /\ full[q] \o <<x, EndOfStream>> = Append(Append(full[q], x), EndOfStream)
          /\ Range(Append(full[q], x)) = Range(full[q]) \cup {x}
          /\ Range(Append(Append(full[q], x), EndOfStream)) = Range(full[q]) \cup {x, EndOfStream}
          /\ OnceBut(EndOfStream, full[q]) /\ x \notin Range(full[q]) =>
                /\ OnceBut(EndOfStream, Append(full[q], x))
                /\ OnceBut(EndOfStream, Append(Append(full[q], x), EndOfStream))
      BY <1>6, <2>1, PushedOnce
    <2>4. \/ full'[q] = Append(full[q], x)
          \/ full'[q] = Append(Append(full[q], x), EndOfStream)
      BY <2>2, <2>3
    <2> QED BY <2>2, <2>3, <2>4
  <1>8. \A r \in Queue : Open(r)' <=> Open(r)
    BY <1>4 DEF Open, Outlived
  <1>9. /\ \A r \in Queue : Own(r) \subseteq Own(r)' /\ Reach(r) \subseteq Reach(r)'
        /\ EndOfStream \notin Range(free[q])
    BY <1>1, Grows, ReachFacts DEF IInv, QueueInv
  <1>10. ASSUME NEW r \in Queue PROVE QueueInv(r)'
    <2>1. CASE r = q
      <3>1. QueueInv(q) /\ (Open(q) => x \notin Range(free[q]) \cup Range(full[q]) /\ x \in Own(q))
        BY <1>1, <1>3, <1>4, <1>6 DEF IInv, Apart, Reach
      <3>2. Range(free'[q]) \subseteq Reach(q)'
        BY <1>4, <1>9, <3>1 DEF QueueInv
      <3>3. ASSUME Open(q)
            PROVE  /\ Range(full'[q]) \subseteq Own(q)' \cup {EndOfStream}
                   /\ IsInjective(free'[q]) /\ OnceBut(EndOfStream, full'[q])
                   /\ Range(free'[q]) \cap Range(full'[q]) = {}
        BY <1>4, <1>7, <1>9, <3>1, <3>3 DEF QueueInv
      <3> QED BY <1>8, <2>1, <3>2, <3>3 DEF QueueInv
    <2>2. CASE r # q
      BY <1>1, <1>4, <1>7, <2>2, QueueKeeps
    <2> QED BY <2>1, <2>2
  <1>11. TaskInv(t)'
    <2>1. ~ PopInput(t) /\ ~ ReleaseInput(t)
      BY <1>4 DEF PopInput, ReleaseInput, Getting, Releasing
    <2> QED BY <1>1, <1>4, <2>1, InputsKeep
  <1>12. Apart'
    <2>1. ASSUME NEW u \in Task, NEW r \in Queue
          PROVE  /\ held'[u] \cap Range(free'[r]) = {}
                 /\ Open(r)' => held'[u] \cap Range(full'[r]) = {}
                 /\ HoldsOutput(u)' /\ Open(r)' => out'[u] \notin Range(free'[r]) \cup Range(full'[r])
      <3>1. /\ held[u] \cap Range(free[r]) = {}
            /\ Open(r) => held[u] \cap Range(full[r]) = {}
            /\ HoldsOutput(u) /\ Open(r) => out[u] \notin Range(free[r]) \cup Range(full[r])
            /\ x \notin held[u] /\ EndOfStream \notin held[u]
        BY <1>1, <1>3, <1>4, PlacesType DEF Apart
      <3>2. held'[u] = held[u] /\ out'[u] = out[u] /\ free'[r] = free[r]
        BY <1>4
      <3>3. r = q \/ full'[r] = full[r]
        BY <1>7
      <3>4. Open(r) => held'[u] \cap Range(full'[r]) = {}
        BY <1>7, <3>1, <3>2, <3>3
      <3>5. ASSUME HoldsOutput(u)', Open(r) PROVE out'[u] \notin Range(free'[r]) \cup Range(full'[r])
        <4>1. u # t /\ HoldsOutput(u)
          BY <1>1, <1>4, <3>5, OthersKeep
        <4>2. r = q => out[u] # x /\ out[u] # EndOfStream
          <5>1. /\ OutQueue(u) \in Queue /\ OutQueue(u) # q /\ out[u] \in Reach(OutQueue(u))
                /\ out[u] # EndOfStream
            BY <1>2, <4>1, PlacesType
          <5>2. Open(q) => Reach(OutQueue(u)) \cap Own(q) = {} /\ x \in Own(q)
            BY <1>1, <1>6, <5>1, ReachFacts DEF Reach
          <5> QED BY <3>5, <5>1, <5>2
        <4> QED BY <1>7, <3>1, <3>2, <3>3, <3>5, <4>1, <4>2
      <3> QED BY <1>8, <3>1, <3>2, <3>4, <3>5
    <2>2. ASSUME NEW u \in Task, NEW v \in Task, HoldsOutput(v)' PROVE out'[v] \notin held'[u]
      <3>1. v # t /\ HoldsOutput(v)
        BY <1>1, <1>4, <2>2, OthersKeep
      <3> QED BY <1>1, <1>4, <3>1 DEF Apart
    <2> QED BY <2>1, <2>2 DEF Apart
  <1> QED BY <1>1, <1>10, <1>11, <1>12, OthersKeep DEF IInv

LEMMA BroadcastCopyPlaces ==
    ASSUME IInv, TypeInv', NEW t \in Task, BroadcastCopy(t)
    PROVE  IInv'
  <1>1. TypeInv /\ Run(t) /\ [Next]_vars /\ Apart
    BY DEF IInv, Run, Next
  <1>2. pc[t] \in {"push", "repush"} /\ Mode[t] # "sink" /\ idx[t] \in 1..NTargets(t)
    BY <1>1, ConstantsType DEF BroadcastCopy, TypeInv, TypeOK, ThreadsOK, Positions, Position, Reducing
  <1>3. PICK q \in Queue : q = <<t, idx[t]>> /\ q[1] = t
    BY <1>2, ConstantsType
  <1>4. PICK x : x = Head(Grown(q, Limit(q[1])))
    OBVIOUS
  <1>5. /\ ProducerPop(q, Limit(q[1])) /\ full' = [full EXCEPT ![q] = @ \o <<x>>]
        /\ \E F : free' = [free EXCEPT ![q] = F]
        /\ UNCHANGED <<current, finished, held, inputs, cur, out, pc>>
    BY <1>3, <1>4 DEF BroadcastCopy, PushCopy, ProducerPop, ProducerPush, ghostVars
  <1>6. ~ PopInput(t) /\ ~ ReleaseInput(t)
    BY <1>2 DEF PopInput, ReleaseInput, Getting, Releasing
  <1>7. /\ x \in Reach(q)' /\ x # EndOfStream
        /\ Range(free'[q]) \subseteq Reach(q)' /\ EndOfStream \notin Range(free'[q])
        /\ Open(q) => /\ IsInjective(free'[q]) /\ x \notin Range(free'[q])
                      /\ ({x} \cup Range(free'[q])) \cap Range(full[q]) = {}
        /\ \A u \in Task :
              /\ x \notin held[u] /\ held[u] \cap Range(free'[q]) = {}
              /\ HoldsOutput(u) /\ Open(q) => out[u] # x /\ out[u] \notin Range(free'[q])
        /\ \A r \in Queue \ {q} : Open(r) => x \notin Own(r)
    BY <1>1, <1>4, <1>5, PoppedFacts
  <1>8. /\ \A r \in Queue \ {q} : free'[r] = free[r] /\ full'[r] = full[r]
        /\ full[q] \in Seq(Pointer \cup {EndOfStream}) /\ full'[q] = full[q] \o <<x>>
    BY <1>1, <1>5 DEF TypeInv, TypeOK, QueuesOK
  <1>9. x \in Pointer
    BY <1>1, <1>4, <1>5, GrownType DEF TypeInv, ProducerPop
  <1>10. /\ Range(full'[q]) = Range(full[q]) \cup {x}
         /\ OnceBut(EndOfStream, full[q]) /\ x \notin Range(full[q]) => OnceBut(EndOfStream, full'[q])
    <2> DEFINE S == Pointer \cup {EndOfStream}
    <2>1. x \in S /\ full[q] \in Seq(S)
      BY <1>8, <1>9
    <2> HIDE DEF S
    <2>2. full'[q] = Append(full[q], x)
      BY <1>8, <2>1, AppendRange
    <2> QED BY <2>1, <2>2, AppendRange, OnceAppend
  <1>11. \A r \in Queue : (Open(r)' <=> Open(r)) /\ Own(r) \subseteq Own(r)'
    BY <1>1, <1>5, Grows DEF Open, Outlived
  <1>12. ASSUME NEW r \in Queue PROVE QueueInv(r)'
    <2>1. CASE r = q
      <3>1. ASSUME Open(q)
            PROVE  /\ Range(full'[q]) \subseteq Own(q)' \cup {EndOfStream}
                   /\ IsInjective(free'[q]) /\ OnceBut(EndOfStream, full'[q])
                   /\ Range(free'[q]) \cap Range(full'[q]) = {}
        <4>1. Range(full[q]) \subseteq Own(q) \cup {EndOfStream} /\ OnceBut(EndOfStream, full[q])
          BY <3>1 DEF IInv, QueueInv
        <4>2. x \in Own(q)'
          BY <1>7, <1>11, <3>1 DEF Reach
        <4> QED BY <1>7, <1>10, <1>11, <3>1, <4>1, <4>2
      <3> QED BY <1>7, <1>11, <2>1, <3>1 DEF QueueInv
    <2>2. CASE r # q
      BY <1>1, <1>7, <1>8, <2>2, Untouched
    <2> QED BY <2>1, <2>2
  <1>13. \A u \in Task : HoldsOutput(u)' <=> HoldsOutput(u)
    BY <1>5 DEF HoldsOutput
  <1>14. TaskInv(t)'
    <2>1. PICK r : r = OutQueue(t)
      OBVIOUS
    <2>2. OutQueue(t)' = r
      BY <1>5, <2>1 DEF OutQueue
    <2>3. HoldsOutput(t) => out[t] \in Reach(r)'
      BY <1>1, <2>1, PlacesType, Grows
    <2>4. (HoldsOutput(t) => out[t] \in Reach(OutQueue(t)))'
      BY <1>5, <1>13, <2>2, <2>3
    <2> QED BY <1>1, <1>6, <2>4, InputsKeep
  <1>15. Apart'
    <2>1. ASSUME NEW u \in Task, NEW r \in Queue
          PROVE  /\ held'[u] \cap Range(free'[r]) = {}
                 /\ Open(r)' => held'[u] \cap Range(full'[r]) = {}
                 /\ HoldsOutput(u)' /\ Open(r)' => out'[u] \notin Range(free'[r]) \cup Range(full'[r])
      <3>1. /\ held[u] \cap Range(free[r]) = {}
            /\ Open(r) => held[u] \cap Range(full[r]) = {}
            /\ HoldsOutput(u) /\ Open(r) => out[u] \notin Range(free[r]) \cup Range(full[r])
        BY <1>1 DEF Apart
      <3>2. held'[u] = held[u] /\ out'[u] = out[u]
        BY <1>5
      <3>3. CASE r = q
        BY <1>7, <1>10, <1>11, <1>13, <3>1, <3>2, <3>3
      <3>4. CASE r # q
        BY <1>8, <1>11, <1>13, <3>1, <3>2, <3>4
      <3> QED BY <3>3, <3>4
    <2>2. ASSUME NEW u \in Task, NEW v \in Task, HoldsOutput(v)' PROVE out'[v] \notin held'[u]
      BY <1>1, <1>5, <1>13, <2>2 DEF Apart
    <2> QED BY <2>1, <2>2 DEF Apart
  <1> QED BY <1>1, <1>12, <1>14, <1>15, OthersKeep DEF IInv

LEMMA ReleaseInputPlaces ==
    ASSUME IInv, TypeInv', NEW t \in Task, ReleaseInput(t)
    PROVE  IInv'
  <1> DEFINE j == idx[t]
  <1>1. TypeInv /\ Run(t) /\ [Next]_vars /\ Apart
    BY DEF IInv, Run, Next
  <1>2. j \in 1..NInputs(t) /\ pc[t] \in Releasing /\ pc[t] \in Alive /\ ~ AllFinished(t)
    <2>1. j \in 1..NInputs(t) /\ pc[t] \in Releasing
      BY <1>1, ConstantsType DEF TypeInv, TypeOK, ThreadsOK, Positions, Position, ReleaseInput
    <2>2. pc[t] \in Alive
      BY <2>1 DEF Releasing, Alive
    <2> QED BY <2>1, <2>2 DEF IInv, TaskInv
  <1>3. PICK q \in Queue : q = InQueue(t, j) /\ q \in Range(InQueues[t][j])
    BY <1>1, <1>2, InQueueFacts
  <1>4. PICK b : b = inputs[t][j]
    OBVIOUS
  <1>5. /\ free' = [free EXCEPT ![q] = Append(@, b)]
        /\ held' = [held EXCEPT ![t] = @ \ {b}]
        /\ UNCHANGED <<full, capacity, current, finished, inputs, out>>
    BY <1>3, <1>4 DEF ReleaseInput, PushInputBuffer, ConsumerPush
  <1>6. /\ free[q] \in Seq(Pointer) /\ b \in Pointer
        /\ free'[q] = Append(free[q], b) /\ \A r \in Queue \ {q} : free'[r] = free[r]
        /\ held'[t] = held[t] \ {b} /\ \A u \in Task \ {t} : held'[u] = held[u]
    BY <1>1, <1>2, <1>4, <1>5 DEF TypeInv, TypeOK, QueuesOK, InputsOK, GhostsOK
  <1>7. /\ Range(free'[q]) = Range(free[q]) \cup {b}
        /\ IsInjective(free[q]) /\ b \notin Range(free[q]) => IsInjective(free'[q])
    BY <1>6, AppendRange
  <1>8. InputInv(t, j) /\ \A i \in 1..NInputs(t) : InputInv(t, i)
    BY <1>2 DEF IInv, TaskInv
  <1>9. b # NoBuffer => \E s \in Range(InQueues[t][j]) : s \in Queue /\ b \in Own(s) /\ b[1] = s
    <2>1. Range(InQueues[t][j]) \subseteq Queue
      BY <1>2, WiringFacts
    <2>2. \A s \in Queue : b \in Own(s) => b[1] = s
      BY <1>1, OwnFacts
    <2> QED BY <1>4, <1>8, <2>1, <2>2 DEF InputInv
  <1>10. Open(q) => Reading(t, j) /\ b \in held[t] /\ b \in Own(q)
    <2>1. Open(q) => ~ finished[t][j]
      <3>1. finished[t][j] => NInputs(t) > 1
        <4>1. \E i \in 1..NInputs(t) : ~ finished[t][i]
          BY <1>2, ConstantsType DEF AllFinished
        <4> QED BY <1>2, <4>1, ConstantsType
      <3> QED BY <1>2, <1>3, <3>1, OpenFacts DEF Outlived
    <2>2. ~ finished[t][j] => Reading(t, j)
      <3>1. j >= j
        BY <1>2, ConstantsType
      <3> QED BY <1>2, <3>1 DEF Reading, Getting, Releasing
    <2> QED BY <1>3, <1>4, <1>8, <2>1, <2>2 DEF InputInv
  <1>11. b \in Reach(q)
    <2>1. CASE Open(q)
      BY <1>10, <2>1 DEF Reach
    <2>2. CASE ~ Open(q)
      BY <1>2, <1>3, <1>9, <2>2, OpenFacts DEF Reach
    <2> QED BY <2>1, <2>2
  <1>12. \A u \in Task \ {t} : b \notin held[u]
    <2>1. ASSUME NEW u \in Task \ {t}, b \in held[u] PROVE FALSE
      <3>1. b # NoBuffer /\ b[1] \in Sources(u)
        BY <2>1, PlacesType
      <3>2. b[1] \in Sources(t)
        BY <1>2, <1>9, <3>1, SourcesApart
      <3> QED BY <2>1, <3>1, <3>2, SourcesApart
    <2> QED BY <2>1
  <1>13. /\ \A u \in Task : held'[u] \subseteq held[u] /\ b \notin held'[u]
         /\ \A r \in Queue : (Open(r)' <=> Open(r)) /\ Own(r)' = Own(r) /\ Reach(r) \subseteq Reach(r)'
    BY <1>1, <1>5, <1>6, <1>12, Grows DEF Open, Outlived, Own
  <1>14. \A u \in Task : /\ HoldsOutput(u)' => HoldsOutput(u)
                         /\ OutQueue(u)' = OutQueue(u) /\ out'[u] = out[u]
    <2>1. ~ PopOut(t)
      BY <1>2 DEF PopOut, Releasing
    <2>2. HoldsOutput(t)' => HoldsOutput(t)
      BY <1>1, <2>1, PlaceStays
    <2>3. \A u \in Task : OutQueue(u)' = OutQueue(u)
      BY <1>5 DEF OutQueue
    <2> QED BY <1>1, <1>5, <2>2, <2>3, OthersKeep
  <1>15. ASSUME Open(q)
         PROVE  /\ b \notin Range(free[q]) \cup Range(full[q])
                /\ \A u \in Task : HoldsOutput(u) => out[u] # b
    BY <1>1, <1>10, <1>15 DEF Apart
  <1>16. ASSUME NEW r \in Queue PROVE QueueInv(r)'
    <2>1. CASE r = q
      <3>1. QueueInv(q)
        BY DEF IInv
      <3>2. Range(free'[q]) \subseteq Reach(q)'
        BY <1>7, <1>11, <1>13, <3>1 DEF QueueInv
      <3> QED BY <1>5, <1>7, <1>13, <1>15, <2>1, <3>1, <3>2 DEF QueueInv
    <2>2. CASE r # q
      BY <1>1, <1>5, <1>6, <2>2, QueueKeeps
    <2> QED BY <2>1, <2>2
  <1>17. TaskInv(t)'
    <2>1. (HoldsOutput(t) => out[t] \in Reach(OutQueue(t)))'
      <3>1. PICK r : r = OutQueue(t)
        OBVIOUS
      <3>2. HoldsOutput(t) => out[t] \in Reach(r)'
        BY <1>13, <3>1, PlacesType
      <3> QED BY <1>14, <3>1, <3>2
    <2>2. \A c \in held'[t] : c[1] \in Sources(t) /\ c \in (Own(c[1]))'
      BY <1>13, PlacesType
    <2>3. ASSUME NEW i \in 1..NInputs(t) PROVE InputInv(t, i)'
      <3>1. InputInv(t, i) /\ Range(InQueues[t][i]) \subseteq Queue
            /\ InQueue(t, i) \in Queue /\ InQueue(t, i) \in Range(InQueues[t][i])
        BY <1>1, <1>8, WiringFacts, InQueueFacts
      <3>2. PICK r \in Queue : r = InQueue(t, i)
        BY <3>1
      <3>3. inputs'[t][i] # NoBuffer => \E s \in Range(InQueues[t][i]) : inputs'[t][i] \in Own(s)'
        BY <1>5, <1>13, <3>1 DEF InputInv
      <3>4. ASSUME Reading(t, i)'
            PROVE  /\ InQueue(t, i)' = r
                   /\ inputs'[t][i] \in held'[t] /\ inputs'[t][i] \in Own(r)'
        <4>1. ~ PopInput(t)
          BY <1>2 DEF PopInput, Getting, Releasing
        <4>2. Reading(t, i) /\ cur'[t][i] = cur[t][i] /\ i # j
          BY <1>1, <3>4, <4>1, ReadingStays
        <4>3. inputs[t][i] \in held[t] /\ inputs[t][i] \in Own(r)
          BY <3>1, <3>2, <4>2 DEF InputInv
        <4>4. inputs[t][i] # b
          <5>1. inputs[t][i][1] = r /\ r \in Range(InQueues[t][i]) /\ inputs[t][i] # NoBuffer
            BY <1>1, <3>1, <3>2, <4>3, OwnFacts
          <5>2. r \notin Range(InQueues[t][j])
            <6>1. Range(InQueues[t][i]) \cap Range(InQueues[t][j]) = {}
              BY <1>2, <4>2, SourcesApart
            <6> QED BY <5>1, <6>1
          <5> QED BY <1>9, <5>1, <5>2
        <4>5. InQueue(t, i)' = r
          BY <3>2, <4>2 DEF InQueue
        <4> QED BY <1>5, <1>6, <1>13, <4>3, <4>4, <4>5
      <3> QED BY <3>3, <3>4 DEF InputInv
    <2>4. pc'[t] \in Alive => ~ AllFinished(t)'
      BY <1>2, <1>5 DEF AllFinished
    <2>5. Sources(t)' = Sources(t)
      BY DEF Sources
    <2> QED BY <2>1, <2>2, <2>3, <2>4, <2>5 DEF TaskInv
  <1>18. Apart'
    <2>1. ASSUME NEW u \in Task, NEW r \in Queue
          PROVE  /\ held'[u] \cap Range(free'[r]) = {}
                 /\ Open(r)' => held'[u] \cap Range(full'[r]) = {}
                 /\ HoldsOutput(u)' /\ Open(r)' => out'[u] \notin Range(free'[r]) \cup Range(full'[r])
      <3>1. /\ held[u] \cap Range(free[r]) = {}
            /\ Open(r) => held[u] \cap Range(full[r]) = {}
            /\ HoldsOutput(u) /\ Open(r) => out[u] \notin Range(free[r]) \cup Range(full[r])
        BY <1>1 DEF Apart
      <3>2. CASE r = q
        BY <1>5, <1>7, <1>13, <1>14, <1>15, <3>1, <3>2
      <3>3. CASE r # q
        BY <1>5, <1>6, <1>13, <1>14, <3>1, <3>3
      <3> QED BY <3>2, <3>3
    <2>2. ASSUME NEW u \in Task, NEW v \in Task, HoldsOutput(v)' PROVE out'[v] \notin held'[u]
      BY <1>1, <1>13, <1>14, <2>2 DEF Apart
    <2> QED BY <2>1, <2>2 DEF Apart
  <1> QED BY <1>1, <1>16, <1>17, <1>18, OthersKeep DEF IInv

----------------------------------------------------------------------------
(* A buffer is in one place                                                *)

LEMMA InitPlaces == Init => IInv
  <1> SUFFICES ASSUME Init PROVE IInv
    OBVIOUS
  <1>1. TypeInv
    BY InitType
  <1>2. Range(<<>>) = {} /\ IsInjective(<<>>) /\ OnceBut(EndOfStream, <<>>)
    BY DEF Range, IsInjective, OnceBut
  <1>3. \A q \in Queue : free[q] = <<>> /\ full[q] = <<>>
    BY DEF Init, InitOf, InitGroups, InitQueues
  <1>4. \A q \in Queue : QueueInv(q)
    BY <1>2, <1>3 DEF QueueInv
  <1>5. \A t \in Task : /\ held[t] = {} /\ ~ HoldsOutput(t) /\ pc[t] = "get" /\ idx[t] = 1
                        /\ \A i \in 1..NInputs(t) : inputs[t][i] = NoBuffer
    BY DEF Init, InitOf, HoldsOutput
  <1>6. \A t \in Task : \A i \in 1..NInputs(t) : ~ Reading(t, i)
    BY <1>5, ConstantsType DEF Reading, Getting, Releasing
  <1>7. \A t \in Task : TaskInv(t)
    BY <1>5, <1>6 DEF TaskInv, InputInv, Alive
  <1>8. Apart
    BY <1>5 DEF Apart
  <1> QED BY <1>1, <1>4, <1>7, <1>8 DEF IInv

LEMMA NextPlaces == IInv /\ [Next]_vars => IInv'
  <1> SUFFICES ASSUME IInv, [Next]_vars PROVE IInv'
    OBVIOUS
  <1>1. TypeInv'
    BY NextType DEF IInv
  <1>2. CASE Abort \/ UNCHANGED vars
    <2>1. UNCHANGED <<queueVars, groupVars, threadVars, ghostVars>>
      BY <1>2 DEF Abort, vars
    <2>2. UNCHANGED <<free, full, capacity, current, pc, idx, finished, inputs, cur, out, held>>
      BY <2>1 DEF queueVars, groupVars, threadVars, ghostVars
    <2>3. /\ \A q \in Queue : QueueInv(q)' <=> QueueInv(q)
          /\ \A t \in Task : TaskInv(t)' <=> TaskInv(t)
          /\ Apart' <=> Apart
      BY <2>2 DEF QueueInv, TaskInv, InputInv, Apart, Reach, Own, Open, Outlived, HoldsOutput,
                  OutQueue, Reading, InQueue, AllFinished
    <2> QED BY <1>1, <2>3 DEF IInv
  <1>3. ASSUME NEW t \in Task, Run(t) PROVE IInv'
    BY <1>1, <1>3, PopInputPlaces, PopOutPlaces, PushPlaces, BroadcastCopyPlaces,
       ReleaseInputPlaces, StillSteps
  <1> QED BY <1>2, <1>3 DEF Next, Joined

LEMMA AlwaysPlaces == Spec => []IInv
  BY InitPlaces, NextPlaces, PTL DEF Spec

(* A buffer of an open stream is in one place at a time, in every graph:   *)
(* it waits to be filled, is being filled, is in flight or is being read.  *)
THEOREM ExclusiveCorrect == Spec => []Exclusive
  <1>1. IInv => Exclusive
    <2> SUFFICES ASSUME IInv PROVE Exclusive
      OBVIOUS
    <2>1. Apart /\ \A q \in Queue : QueueInv(q)
      BY DEF IInv
    <2>2. BeingFilled \cap BeingRead = {}
      BY <2>1 DEF BeingFilled, BeingRead, Apart
    <2>3. ASSUME NEW q \in Queue, Open(q)
          PROVE  /\ IsInjective(free[q])
                 /\ \A i, j \in DOMAIN full[q] :
                       full[q][i] = full[q][j] /\ full[q][i] # EndOfStream => i = j
                 /\ Idle(q) \cap InFlight(q) = {}
      BY <2>1, <2>3 DEF QueueInv, OnceBut, Idle, InFlight
    <2>4. ASSUME NEW q \in Queue, Open(q)
          PROVE  (Idle(q) \cup InFlight(q)) \cap (BeingFilled \cup BeingRead) = {}
      BY <2>1, <2>4 DEF Idle, InFlight, BeingFilled, BeingRead, Apart
    <2> QED BY <2>2, <2>3, <2>4 DEF Exclusive
  <1> QED BY <1>1, AlwaysPlaces, PTL

----------------------------------------------------------------------------
(* What a task reads is what it popped                                     *)

ReadInv(t, i) ==
    Reading(t, i) =>
        LET g == got[InQueue(t, i)] IN g # <<>> /\ Value(inputs[t][i]) = g[Len(g)]

AllRead == \A t \in Task : \A i \in 1..NInputs(t) : ReadInv(t, i)

(* The one buffer that a step of t may write to. *)
Writes(t, w) ==
    \/ w = out[t] /\ HoldsOutput(t)
    \/ BroadcastCopy(t) /\ w = Head(Grown(<<t, idx[t]>>, Limit(t)))

LEMMA WrittenTo ==
    ASSUME TypeInv, NEW t \in Task, Run(t)
    PROVE  UNCHANGED data \/ \E w, v : Writes(t, w) /\ data' = [data EXCEPT ![w] = v]
  <1>1. CASE Generate(t) \/ Reduce(t) \/ Regenerate(t)
    <2>1. UNCHANGED data \/ \E v : data' = [data EXCEPT ![out[t]] = v]
      BY <1>1 DEF Generate, Produce, Reduce, Accumulate, Regenerate, NoMore, groupVars
    <2>2. HoldsOutput(t)
      BY <1>1 DEF Generate, Reduce, Regenerate, HoldsOutput, TypeInv, Positions, Position, Reducing
    <2> QED BY <2>1, <2>2 DEF Writes
  <1>2. CASE Process(t)
    <2>1. CASE Mode[t] = "sink"
      BY <1>2, <2>1 DEF Process
    <2>2. CASE Mode[t] # "sink"
      <3>1. HoldsOutput(t)
        BY <1>2, <2>2 DEF Process, HoldsOutput
      <3>2. UNCHANGED data \/ data' = [data EXCEPT ![out[t]] = Value(inputs[t][1])]
        BY <1>2, <2>2 DEF Process
      <3> QED BY <3>1, <3>2 DEF Writes
    <2> QED BY <2>1, <2>2
  <1>3. CASE BroadcastCopy(t)
    <2>1. data' = [data EXCEPT ![Head(Grown(<<t, idx[t]>>, Limit(t)))] = Value(out[t])]
      BY <1>3 DEF BroadcastCopy, PushCopy
    <2> QED BY <1>3, <2>1 DEF Writes
  <1>4. CASE ~ (Generate(t) \/ Reduce(t) \/ Regenerate(t) \/ Process(t) \/ BroadcastCopy(t))
    <2>1. UNCHANGED data
      BY <1>4 DEF Run, PopInput, PopInputBuffer, SkipInput, Stop, Proceed, Fail, PopOut,
         Reget, Push, PushScatter, PushSequential, PushOriginal, ReleaseInput, PushInputBuffer,
         Flush, groupVars
    <2> QED BY <2>1
  <1> QED BY <1>1, <1>2, <1>3, <1>4

(* Nobody writes to a buffer that is read or in flight. *)
LEMMA WritesApart ==
    ASSUME IInv, TypeInv', NEW t \in Task, Run(t), NEW b,
           \/ \E u \in Task : b \in held[u]
           \/ \E q \in Queue : Open(q) /\ b \in Range(full[q])
    PROVE  Value(b)' = Value(b)
  <1>1. TypeInv /\ Apart /\ [Next]_vars
    BY DEF IInv, Next
  <1>2. ASSUME NEW w, Writes(t, w) PROVE w # b
    <2>1. CASE w = out[t] /\ HoldsOutput(t)
      BY <1>1, <2>1 DEF Apart
    <2>2. CASE BroadcastCopy(t) /\ w = Head(Grown(<<t, idx[t]>>, Limit(t)))
      <3>1. idx[t] \in 1..NTargets(t)
        BY <1>1, <2>2, ConstantsType DEF BroadcastCopy, TypeInv, TypeOK, ThreadsOK
      <3>2. PICK q \in Queue : q = <<t, idx[t]>> /\ q[1] = t
        BY <3>1, ConstantsType
      <3>3. ProducerPop(q, Limit(q[1])) /\ UNCHANGED finished /\ w = Head(Grown(q, Limit(q[1])))
        BY <2>2, <3>2 DEF BroadcastCopy, PushCopy
      <3>4. /\ \A u \in Task : w \notin held[u]
            /\ Open(q) => w \notin Range(full[q])
            /\ \A r \in Queue \ {q} : Open(r) => w \notin Own(r)
            /\ w # EndOfStream
        <4>1. /\ w # EndOfStream
              /\ Open(q) => ({w} \cup Range(free'[q])) \cap Range(full[q]) = {}
              /\ \A u \in Task : w \notin held[u]
              /\ \A r \in Queue \ {q} : Open(r) => w \notin Own(r)
          BY <1>1, <3>3, PoppedFacts
        <4> QED BY <4>1
      <3>5. \A r \in Queue \ {q} : Open(r) => w \notin Range(full[r])
        BY <3>4 DEF IInv, QueueInv
      <3> QED BY <3>4, <3>5
    <2> QED BY <1>2, <2>1, <2>2 DEF Writes
  <1>3. data \in [Buffer -> Nat]
    BY <1>1 DEF TypeInv, TypeOK, GroupsOK
  <1>4. b \in Buffer => data'[b] = data[b]
    <2>1. CASE UNCHANGED data
      BY <2>1
    <2>2. CASE \E w, v : Writes(t, w) /\ data' = [data EXCEPT ![w] = v]
      <3>1. PICK w : Writes(t, w) /\ \E v : data' = [data EXCEPT ![w] = v]
        BY <2>2
      <3>2. PICK v : data' = [data EXCEPT ![w] = v]
        BY <3>1
      <3> QED BY <1>2, <1>3, <3>1, <3>2
    <2> QED BY <1>1, <2>1, <2>2, WrittenTo
  <1> QED BY <1>4 DEF Value

LEMMA ReadNext == IInv /\ AllRead /\ [Next]_vars => AllRead'
  <1> SUFFICES ASSUME IInv, AllRead, [Next]_vars PROVE AllRead'
    OBVIOUS
  <1>1. TypeInv /\ TypeInv'
    BY NextType DEF IInv
  <1>2. CASE Abort \/ UNCHANGED vars
    <2>1. UNCHANGED <<pc, idx, finished, inputs, cur, data, got>>
      BY <1>2 DEF Abort, vars, groupVars, threadVars
    <2> QED BY <2>1 DEF AllRead, ReadInv, Reading, InQueue, Value
  <1>3. ASSUME NEW t \in Task, Run(t), NEW u \in Task, NEW i \in 1..NInputs(u), Reading(u, i)'
        PROVE  (LET g == got[InQueue(u, i)] IN g # <<>> /\ Value(inputs[u][i]) = g[Len(g)])'
    <2>1. CASE u = t /\ PopInput(t) /\ i = idx[t]
      <3>1. PICK q \in Queue : q = InQueue(u, i)
        BY <1>1, InQueueFacts
      <3>2. PICK b : b = InBuffer(q)
        OBVIOUS
      <3>3. b # EndOfStream
        <4>1. b = EndOfStream => finished' = [finished EXCEPT ![t][i] = TRUE]
          BY <2>1, <3>1, <3>2 DEF PopInput
        <4>2. DOMAIN finished = Task /\ finished[t] \in [1..NInputs(t) -> BOOLEAN]
          BY <1>1 DEF TypeInv, TypeOK, InputsOK
        <4>3. b = EndOfStream => finished'[t][i]
          BY <2>1, <4>1, <4>2
        <4> QED BY <1>3, <2>1, <4>3 DEF Reading
      <3>4. /\ got' = [got EXCEPT ![q] = Append(@, Content(b))]
            /\ inputs' = [inputs EXCEPT ![t][i] = NewInput(@, b)]
            /\ UNCHANGED <<data, cur>>
        BY <2>1, <3>1, <3>2 DEF PopInput, PopInputBuffer
      <3>5. inputs'[u][i] = b
        BY <1>1, <2>1, <3>3, <3>4 DEF NewInput, TypeInv, TypeOK, InputsOK
      <3>6. got'[q] = Append(got[q], Value(b)) /\ got[q] \in Seq(Tag) /\ Value(b) \in Tag
        BY <1>1, <3>3, <3>4, ValueType DEF Content, Tag, TypeInv, TypeOK, GroupsOK
      <3>7. got'[q] # <<>> /\ got'[q][Len(got'[q])] = Value(b)
        BY <3>6, AppendProperties, EmptySeq
      <3>8. InQueue(u, i)' = q /\ Value(b)' = Value(b)
        BY <3>1, <3>4 DEF InQueue, Value
      <3> QED BY <3>5, <3>7, <3>8 DEF Value
    <2>2. CASE ~ (u = t /\ PopInput(t) /\ i = idx[t])
      <3>1. Reading(u, i) /\ inputs'[u][i] = inputs[u][i] /\ cur'[u][i] = cur[u][i]
        BY <1>1, <1>3, <2>2, ReadingStays
      <3>2. PICK q \in Queue : q = InQueue(u, i) /\ q \in Range(InQueues[u][i])
        BY <1>1, InQueueFacts
      <3>3. got[q] # <<>> /\ Value(inputs[u][i]) = got[q][Len(got[q])]
        BY <3>1, <3>2 DEF AllRead, ReadInv
      <3>4. got'[q] = got[q]
        <4>1. CASE PopInput(t)
          <5>1. idx[t] \in 1..NInputs(t)
            BY <1>1, <4>1, ConstantsType DEF PopInput, TypeInv, TypeOK, ThreadsOK
          <5>2. PICK r \in Queue : r = InQueue(t, idx[t]) /\ r \in Range(InQueues[t][idx[t]])
            BY <1>1, <5>1, InQueueFacts
          <5>3. got' = [got EXCEPT ![r] = Append(@, Content(InBuffer(r)))]
            BY <4>1, <5>2 DEF PopInput, PopInputBuffer
          <5>4. r # q
            <6>1. ASSUME u # t PROVE r # q
              BY <3>2, <5>1, <5>2, <6>1, SourcesApart
            <6>2. ASSUME u = t PROVE r # q
              <7>1. i # idx[t] /\ i \in 1..NInputs(t)
                BY <2>2, <4>1, <6>2
              <7>2. Range(InQueues[t][i]) \cap Range(InQueues[t][idx[t]]) = {}
                BY <5>1, <7>1, SourcesApart
              <7> QED BY <3>2, <5>2, <6>2, <7>2
            <6> QED BY <6>1, <6>2
          <5> QED BY <1>1, <5>3, <5>4 DEF TypeInv, TypeOK, GroupsOK
        <4>2. CASE ~ PopInput(t)
          <5>1. UNCHANGED got
            BY <1>3, <4>2 DEF Run, SkipInput, Stop, Proceed, Fail, PopOut, Generate, Produce,
               Process, Reduce, Reget, Regenerate, Push, PushScatter, PushSequential, PushOriginal,
               BroadcastCopy, PushCopy, ReleaseInput, PushInputBuffer, Flush, Leave, Finish,
               FinishTo, groupVars
          <5> QED BY <5>1
        <4> QED BY <4>1, <4>2
      <3>5. PICK b : b = inputs[u][i]
        OBVIOUS
      <3>6. Value(b)' = Value(b)
        <4>1. b \in held[u]
          BY <3>1, <3>5 DEF IInv, TaskInv, InputInv
        <4> QED BY <1>1, <1>3, <4>1, WritesApart
      <3>7. InQueue(u, i)' = q /\ inputs'[u][i] = b
        BY <3>1, <3>2, <3>5 DEF InQueue
      <3> QED BY <3>3, <3>4, <3>5, <3>6, <3>7 DEF Value
    <2> QED BY <2>1, <2>2
  <1>4. ASSUME NEW t \in Task, Run(t) PROVE AllRead'
    BY <1>3, <1>4 DEF AllRead, ReadInv
  <1> QED BY <1>2, <1>4 DEF Next, Joined

LEMMA ReadInit == Init => AllRead
  <1> SUFFICES ASSUME Init, NEW t \in Task, NEW i \in 1..NInputs(t) PROVE ~ Reading(t, i)
    BY DEF AllRead, ReadInv
  <1>1. pc[t] = "get" /\ idx[t] = 1 /\ NInputs(t) \in Nat
    BY ConstantsType DEF Init, InitOf
  <1> QED BY <1>1 DEF Reading, Getting, Releasing

(* What a task reads in an input buffer is what arrived last on the queue  *)
(* it popped it from: no thread refills or copies into a buffer between    *)
(* the pop and the release (run_task, release_inputs).                     *)
THEOREM InputsIntactCorrect == Spec => []InputsIntact
  <1>1. Spec => [](IInv /\ AllRead)
    BY InitPlaces, NextPlaces, ReadInit, ReadNext, PTL DEF Spec
  <1>2. IInv /\ AllRead => InputsIntact
    BY DEF IInv, TaskInv, InputInv, AllRead, ReadInv, InputsIntact
  <1> QED BY <1>1, <1>2, PTL

----------------------------------------------------------------------------
(* Every edge is a stream                                                  *)

Read == [x \in Pointer \cup {EndOfStream} |-> Content(x)]

Contents(q) == Mapped(Read, full[q])

(* An input has ended when an end marker was read from one of its queues. *)
EndInv ==
    \A t \in Task : \A i \in 1..NInputs(t) :
        finished[t][i] <=> \E q \in Range(InQueues[t][i]) : EndOfStream \in Range(got[q])

(* The targets that a sequential group has passed were closed.             *)
Closing(t) ==
    Pattern[t] = "sequential" => \A k \in 1..current[t] - 1 : NumExpected[<<t, k>>] > 0

(* A producer that has sent an end marker does not come back to this queue. *)
LeftBehind(q) ==
    pc[q[1]] = "done" \/ (Pattern[q[1]] = "sequential" /\ q[2] < current[q[1]])

StreamInv(q) ==
    /\ EndOfStream \in Range(sent[q]) => LeftBehind(q)
    /\ NothingBehind(EndOfStream, sent[q])
    /\ CutOff(q) \/ InTransit(sent[q], got[q], Contents(q))

SInv ==
    /\ IInv
    /\ EndInv
    /\ \A t \in Task : Closing(t)
    /\ \A q \in Streams : StreamInv(q)

(* What a step of t may do to the queue q: nothing, the end marker of a    *)
(* thread that leaves, a pop, or a push of x, which then holds v, with or  *)
(* without the end marker of a sub-stream.                                 *)
Idles(q) == full'[q] = full[q] /\ sent'[q] = sent[q] /\ got'[q] = got[q]

Ends(t, q) ==
    /\ q[1] = t
    /\ pc'[t] = "done"
    /\ full'[q] = Append(full[q], EndOfStream)
    /\ sent'[q] = Append(sent[q], EndOfStream)
    /\ got'[q] = got[q]

Pops(t, q) ==
    /\ \E i \in 1..NInputs(t) : q \in Range(InQueues[t][i]) /\ ~ finished[t][i]
    /\ full[q] # <<>>
    /\ full'[q] = Tail(full[q])
    /\ got'[q] = Append(got[q], Content(Head(full[q])))
    /\ sent'[q] = sent[q]

PushesTo(t, q, x, v) ==
    /\ q[1] = t
    /\ ~ LeftBehind(q)
    /\ x \in Pointer /\ v \in Nat
    /\ Open(q) => /\ x \in Own(q)' /\ x \notin Range(full[q])
                  /\ Value(x)' = v
    /\ got'[q] = got[q]
    /\ \/ /\ full'[q] = Append(full[q], x)
          /\ sent'[q] = Append(sent[q], v)
       \/ /\ full'[q] = Append(Append(full[q], x), EndOfStream)
          /\ sent'[q] = Append(Append(sent[q], v), EndOfStream)
          /\ q \in Streams => LeftBehind(q)'

Moves(t, q) ==
    Idles(q) \/ Ends(t, q) \/ Pops(t, q) \/ \E x, v : PushesTo(t, q, x, v)

LEMMA StreamTypes ==
    ASSUME TypeInv, NEW q \in Queue
    PROVE  /\ full[q] \in Seq(Pointer \cup {EndOfStream})
           /\ sent[q] \in Seq(Tag) /\ got[q] \in Seq(Tag)
           /\ Maps(Read, Pointer \cup {EndOfStream}, Tag)
           /\ \A x : (Content(x) = EndOfStream <=> x = EndOfStream) /\ Content(x) \in Tag
           /\ EndOfStream \notin Nat
  <1>1. \A x : Content(x) \in Tag
    BY ValueType DEF Content, Tag, TypeInv
  <1>2. \A x : Content(x) = EndOfStream <=> x = EndOfStream
    BY ValueType, GroupAssumption DEF Content, TypeInv
  <1>3. Maps(Read, Pointer \cup {EndOfStream}, Tag)
    BY <1>1 DEF Read, Maps
  <1> QED BY <1>1, <1>2, <1>3, GroupAssumption DEF TypeInv, TypeOK, QueuesOK, GroupsOK

(* A thread that has left takes no step. *)
LEMMA DoneIsDone ==
    ASSUME NEW t \in Task, Run(t) PROVE pc[t] # "done"
  BY DEF Run, PopInput, SkipInput, Stop, Proceed, Fail, GotInputs, PopOut, Generate, Process, Reduce,
     Reget, Regenerate, Push, BroadcastCopy, ReleaseInput, Flush, Getting, Releasing

LEMMA FinishMoves ==
    ASSUME NEW t \in Task, Leave(t), TypeInv, NEW q \in Queue
    PROVE  Moves(t, q)
  <1>1. pc'[t] = "done"
    BY DEF Leave, TypeInv, TypeOK, ThreadsOK
  <1>2. CASE q[1] = t
    <2>1. /\ full'[q] = Append(full[q], EndOfStream)
          /\ sent'[q] = Append(sent[q], EndOfStream) /\ UNCHANGED got
      BY <1>2 DEF Leave, Finish, FinishTo
    <2> QED BY <1>1, <1>2, <2>1 DEF Ends, Moves
  <1>3. CASE q[1] # t
    <2>1. full'[q] = full[q] /\ sent'[q] = sent[q] /\ UNCHANGED got
      BY <1>3 DEF Leave, Finish, FinishTo
    <2> QED BY <2>1 DEF Idles, Moves
  <1> QED BY <1>2, <1>3

LEMMA PopMoves ==
    ASSUME NEW t \in Task, PopInput(t), TypeInv, NEW q \in Queue
    PROVE  Moves(t, q)
  <1>1. idx[t] \in 1..NInputs(t) /\ ~ finished[t][idx[t]]
    BY ConstantsType DEF PopInput, TypeInv, TypeOK, ThreadsOK
  <1>2. PICK r \in Queue : r = InQueue(t, idx[t]) /\ r \in Range(InQueues[t][idx[t]])
    BY <1>1, InQueueFacts
  <1>3. /\ full[r] # <<>> /\ full' = [full EXCEPT ![r] = Tail(@)]
        /\ got' = [got EXCEPT ![r] = Append(@, Content(Head(full[r])))]
        /\ UNCHANGED sent
    BY <1>2 DEF PopInput, PopInputBuffer, ConsumerPop, InBuffer
  <1>4. DOMAIN full = Queue /\ DOMAIN got = Queue
    BY DEF TypeInv, TypeOK, QueuesOK, GroupsOK
  <1>5. CASE q = r
    BY <1>1, <1>2, <1>3, <1>4, <1>5 DEF Pops, Moves
  <1>6. CASE q # r
    BY <1>3, <1>4, <1>6 DEF Idles, Moves
  <1> QED BY <1>5, <1>6

(* A group that does not start over goes on to its next target.            *)
LEMMA NextInTurn ==
    ASSUME TypeInv, NEW t \in Task, Mode[t] # "sink", Pattern[t] = "sequential", Closing(t),
           Complete(t)
    PROVE  /\ \A k \in 1..current[t] : NumExpected[<<t, k>>] > 0
           /\ ~ Wraps(t) => NextTarget(t) = current[t] + 1
  <1>1. PICK c \in Nat, n \in Nat : c = current[t] /\ n = NTargets(t) /\ c \in 1..n
    BY ConstantsType DEF TypeInv, Positions, Position
  <1>2. NumExpected[<<t, c>>] > 0
    BY <1>1 DEF Complete, TypeInv, TypeOK, GroupsOK
  <1>3. \A k \in 1..c : k \in 1..c - 1 \/ k = c
    BY <1>1
  <1>4. \A k \in 1..c : NumExpected[<<t, k>>] > 0
    BY <1>1, <1>2, <1>3 DEF Closing
  <1>5. c = n => Wraps(t)
    BY <1>1, <1>4 DEF Wraps
  <1>6. c < n => c % n = c
    BY <1>1
  <1>7. ~ Wraps(t) => (c % n) + 1 = c + 1
    BY <1>1, <1>5, <1>6
  <1> QED BY <1>1, <1>4, <1>7 DEF NextTarget

LEMMA PushMoves ==
    ASSUME SInv, TypeInv', NEW t \in Task, Push(t), NEW q \in Queue
    PROVE  Moves(t, q)
  <1>1. IInv /\ TypeInv /\ Closing(t) /\ Run(t)
    BY DEF SInv, IInv, Run
  <1>2. PICK o \in Queue : o = OutQueue(t) /\ o[1] = t
    BY <1>1, PushedItems
  <1>3. PICK x : x = out[t]
    OBVIOUS
  <1>4. PICK v \in Nat : v = Value(x)
    BY <1>1, ValueType DEF TypeInv
  <1>5. /\ HoldsOutput(t) /\ pc[t] \in {"push", "repush"} /\ Mode[t] # "sink"
        /\ UNCHANGED <<capacity, finished, data, got>>
    BY <1>1, PushedItems
  <1>6. \/ /\ full' = [full EXCEPT ![o] = @ \o <<x>>]
           /\ sent' = [sent EXCEPT ![o] = Append(@, v)]
        \/ /\ full' = [full EXCEPT ![o] = @ \o <<x, EndOfStream>>]
           /\ sent' = [sent EXCEPT ![o] = @ \o <<v, EndOfStream>>]
           /\ o \in Streams => LeftBehind(o)'
    <2>1. CASE PushScatter(t, out[t])
      BY <1>2, <1>3, <1>4, <2>1 DEF PushScatter, ProducerPush, OutQueue
    <2>2. CASE PushOriginal(t, out[t])
      BY <1>2, <1>3, <1>4, <2>2 DEF PushOriginal, ProducerPush, OutQueue
    <2>3. CASE PushSequential(t, out[t])
      <3>1. o = <<t, current[t]>> /\ Pattern[t] = "sequential"
        BY <1>2, <2>3 DEF PushSequential, OutQueue
      <3>2. /\ full' = [full EXCEPT ![o] = @ \o SubStream(t, x)]
            /\ sent' = [sent EXCEPT ![o] = @ \o SubStream(t, v)]
            /\ current' = [current EXCEPT ![t] = IF Complete(t) THEN NextTarget(t) ELSE @]
        BY <1>3, <1>4, <2>3, <3>1 DEF PushSequential, ProducerPush
      <3>3. CASE Complete(t)
        <4>1. SubStream(t, x) = <<x, EndOfStream>> /\ SubStream(t, v) = <<v, EndOfStream>>
          BY <3>3 DEF SubStream
        <4>2. o \in Streams => LeftBehind(o)'
          <5>1. current'[t] = NextTarget(t) /\ current[t] \in Nat
            BY <1>1, <3>2, <3>3 DEF TypeInv, TypeOK, GroupsOK
          <5>2. o \in Streams => NextTarget(t) = current[t] + 1
            BY <1>1, <1>2, <1>5, <3>1, <3>3, NextInTurn DEF Streams
          <5>3. o[2] = current[t]
            BY <3>1
          <5> QED BY <1>2, <3>1, <5>1, <5>2, <5>3 DEF LeftBehind
        <4> QED BY <3>2, <4>1, <4>2
      <3>4. CASE ~ Complete(t)
        <4>1. SubStream(t, x) = <<x>> /\ SubStream(t, v) = <<v>>
          BY <3>4 DEF SubStream
        <4>2. sent[o] \o <<v>> = Append(sent[o], v)
          BY <1>1 DEF TypeInv, TypeOK, GroupsOK, Tag
        <4> QED BY <3>2, <4>1, <4>2
      <3> QED BY <3>3, <3>4
    <2> QED BY <2>1, <2>2, <2>3 DEF Push
  <1>7. full[o] \in Seq(Pointer \cup {EndOfStream}) /\ sent[o] \in Seq(Tag)
    BY <1>1, StreamTypes
  <1>8. CASE q # o
    <2>1. full'[q] = full[q] /\ sent'[q] = sent[q] /\ got'[q] = got[q]
      BY <1>1, <1>5, <1>6, <1>8 DEF TypeInv, TypeOK, QueuesOK, GroupsOK
    <2> QED BY <2>1 DEF Moves, Idles
  <1>9. CASE q = o
    <2>1. x \in Reach(o) /\ x \in Pointer /\ x # EndOfStream
      BY <1>1, <1>2, <1>3, <1>5, PlacesType DEF TypeInv, TypeOK, ThreadsOK
    <2>2. Open(o) => x \in Own(o) /\ x \notin Range(full[o])
      BY <1>1, <1>3, <1>5, <2>1 DEF Reach, IInv, Apart
    <2>3. Own(o)' = Own(o) /\ Value(x)' = v
      BY <1>4, <1>5 DEF Own, Value
    <2>4. ~ LeftBehind(o)
      <3>1. current[t] \in Nat
        BY <1>1 DEF TypeInv, TypeOK, GroupsOK
      <3>2. Pattern[t] = "sequential" => o[2] = current[t]
        BY <1>2 DEF OutQueue
      <3> QED BY <1>2, <1>5, <3>1, <3>2 DEF LeftBehind
    <2>5. /\ full[o] \o <<x>> = Append(full[o], x)
          /\ full[o] \o <<x, EndOfStream>> = Append(Append(full[o], x), EndOfStream)
      <3> DEFINE S == Pointer \cup {EndOfStream}
      <3>1. x \in S /\ EndOfStream \in S /\ full[o] \in Seq(S)
        BY <1>7, <2>1
      <3> HIDE DEF S
      <3> QED BY <2>1, <3>1, PushedOnce
    <2>6. sent[o] \o <<v, EndOfStream>> = Append(Append(sent[o], v), EndOfStream)
      <3>1. v \in Tag /\ EndOfStream \in Tag /\ v # EndOfStream
        BY <1>4, GroupAssumption DEF Tag
      <3> QED BY <1>7, <3>1, PushedOnce, SMTT(30)
    <2>7. \/ /\ full'[q] = Append(full[q], x)
             /\ sent'[q] = Append(sent[q], v)
          \/ /\ full'[q] = Append(Append(full[q], x), EndOfStream)
             /\ sent'[q] = Append(Append(sent[q], v), EndOfStream)
             /\ q \in Streams => LeftBehind(q)'
      <3>1. DOMAIN full = Queue /\ DOMAIN sent = Queue
        BY <1>1 DEF TypeInv, TypeOK, QueuesOK, GroupsOK
      <3> QED BY <1>6, <1>9, <2>5, <2>6, <3>1
    <2>8. PushesTo(t, q, x, v)
      BY <1>2, <1>5, <1>9, <2>1, <2>2, <2>3, <2>4, <2>7 DEF PushesTo
    <2> QED BY <2>8 DEF Moves
  <1> QED BY <1>8, <1>9

LEMMA CopyMoves ==
    ASSUME IInv, TypeInv', NEW t \in Task, BroadcastCopy(t), NEW q \in Queue
    PROVE  Moves(t, q)
  <1>1. TypeInv /\ Run(t) /\ [Next]_vars
    BY DEF IInv, Run, Next
  <1>2. pc[t] \in {"push", "repush"} /\ idx[t] \in 1..NTargets(t) /\ Pattern[t] = "broadcast"
    BY <1>1, ConstantsType DEF BroadcastCopy, PushCopy, TypeInv, TypeOK, ThreadsOK
  <1>3. PICK o \in Queue : o = <<t, idx[t]>> /\ o[1] = t
    BY <1>2, ConstantsType
  <1>4. PICK x : x = Head(Grown(o, Limit(o[1])))
    OBVIOUS
  <1>5. PICK v \in Nat : v = Value(out[t])
    BY <1>1, ValueType DEF TypeInv
  <1>6. /\ ProducerPop(o, Limit(o[1])) /\ full' = [full EXCEPT ![o] = @ \o <<x>>]
        /\ sent' = [sent EXCEPT ![o] = Append(@, v)]
        /\ data' = [data EXCEPT ![x] = v]
        /\ UNCHANGED <<finished, got>>
    BY <1>3, <1>4, <1>5 DEF BroadcastCopy, PushCopy, ProducerPush
  <1>7. /\ DOMAIN full = Queue /\ DOMAIN sent = Queue /\ DOMAIN data = Buffer
        /\ full[o] \in Seq(Pointer \cup {EndOfStream})
    BY <1>1 DEF TypeInv, TypeOK, QueuesOK, GroupsOK
  <1>8. CASE q # o
    BY <1>6, <1>7, <1>8 DEF Moves, Idles
  <1>9. CASE q = o
    <2>1. x \in Reach(o)' /\ (Open(o) => x \notin Range(full[o]))
      BY <1>1, <1>4, <1>6, PoppedFacts
    <2>2. x \in Pointer
      BY <1>1, <1>4, <1>6, GrownType DEF TypeInv, ProducerPop
    <2>3. Open(o) => x \in Own(o)'
      <3>1. Open(o)' <=> Open(o)
        BY <1>6 DEF Open, Outlived
      <3> QED BY <2>1, <3>1 DEF Reach
    <2>4. Open(o) => x \in Buffer
      <3>1. \A b \in Own(o)' : b \in Buffer
        <4>1. capacity'[o] \in Nat /\ capacity'[o] <= Limit(o[1]) /\ Limit(o[1]) \in Nat
          BY <1>3, ConstantsType DEF TypeInv, TypeOK, QueuesOK
        <4>2. \A n \in 1..capacity'[o] : n \in 1..Limit(o[1])
          BY <4>1
        <4> QED BY <4>2, ConstantsType DEF Own
      <3> QED BY <2>3, <3>1
    <2>5. Open(o) => Value(x)' = v
      BY <1>6, <1>7, <2>4 DEF Value
    <2>6. ~ LeftBehind(o)
      BY <1>2, <1>3 DEF LeftBehind
    <2>7. full'[o] = Append(full[o], x) /\ sent'[o] = Append(sent[o], v)
      <3> DEFINE S == Pointer \cup {EndOfStream}
      <3>1. x \in S /\ full[o] \in Seq(S)
        BY <1>7, <2>2
      <3> HIDE DEF S
      <3>2. full[o] \o <<x>> = Append(full[o], x)
        BY <3>1, AppendRange
      <3> QED BY <1>6, <1>7, <3>2
    <2>8. PushesTo(t, q, x, v)
      BY <1>3, <1>6, <1>9, <2>1, <2>2, <2>3, <2>5, <2>6, <2>7 DEF PushesTo
    <2> QED BY <2>8 DEF Moves
  <1> QED BY <1>8, <1>9

LEMMA RunMoves ==
    ASSUME SInv, TypeInv', NEW t \in Task, Run(t), NEW q \in Queue
    PROVE  Moves(t, q)
  <1>1. IInv /\ TypeInv
    BY DEF SInv, IInv
  <1>2. CASE UNCHANGED <<full, sent, got>>
    BY <1>2 DEF Moves, Idles
  <1>3. \/ UNCHANGED <<full, sent, got>>
        \/ Leave(t) \/ PopInput(t) \/ Push(t) \/ BroadcastCopy(t)
    <2>1. CASE SkipInput(t) \/ Proceed(t) \/ PopOut(t) \/ Stop(t) \/ Fail(t)
      BY <2>1 DEF SkipInput, Proceed, PopOut, PopOutput, ProducerPop, Stop, Fail, queueVars, groupVars
    <2>2. CASE Generate(t) \/ Process(t) \/ Reduce(t)
      BY <2>2 DEF Generate, Produce, Process, Reduce, queueVars, groupVars
    <2>3. CASE Reget(t) \/ Regenerate(t) \/ ReleaseInput(t) \/ Flush(t)
      BY <2>3 DEF Reget, Regenerate, Produce, ReleaseInput, PushInputBuffer, Flush, queueVars,
                  groupVars
    <2> QED BY <2>1, <2>2, <2>3 DEF Run
  <1> QED BY <1>1, <1>2, <1>3, FinishMoves, PopMoves, PushMoves, CopyMoves

(* Nobody writes to a buffer on its way, unless its reader has left.       *)
LEMMA ContentsKept ==
    ASSUME SInv, TypeInv', NEW t \in Task, Run(t), NEW q \in Streams, ~ CutOff(q),
           NEW x \in Range(full[q])
    PROVE  Content(x)' = Content(x)
  <1>1. IInv /\ TypeInv /\ q \in Queue /\ StreamInv(q)
    BY DEF SInv, IInv, Streams
  <1>2. CASE x = EndOfStream
    BY <1>2 DEF Content
  <1>3. CASE Open(q) /\ x # EndOfStream
    <2>1. Value(x)' = Value(x)
      BY <1>1, <1>3, WritesApart
    <2> QED BY <1>3, <2>1 DEF Content
  <1>4. CASE ~ Open(q)
    <2> DEFINE S == Pointer \cup {EndOfStream}
    <2>1. /\ full[q] \in Seq(S) /\ Maps(Read, S, Tag)
          /\ sent[q] \in Seq(Tag) /\ got[q] \in Seq(Tag)
      BY <1>1, StreamTypes
    <2>2. \A y \in S : Read[y] = Content(y)
      BY DEF Read
    <2> HIDE DEF S
    <2>3. /\ Contents(q) \in Seq(Tag) /\ Len(Contents(q)) = Len(full[q])
          /\ \A i \in 1..Len(full[q]) : Contents(q)[i] = Read[full[q][i]] /\ full[q][i] \in S
      BY <2>1, MappedFacts DEF Contents
    <2>4. \A i \in 1..Len(full[q]) : Contents(q)[i] = EndOfStream
      <3>1. InTransit(sent[q], got[q], Contents(q)) /\ NothingBehind(EndOfStream, sent[q])
        BY <1>1 DEF StreamInv
      <3>2. EndOfStream \in Range(got[q])
        BY <1>4 DEF CutOff
      <3> QED BY <2>1, <2>3, <3>1, <3>2, TransitFacts
    <2>5. PICK i \in 1..Len(full[q]) : x = full[q][i]
      <3>1. DOMAIN full[q] = 1..Len(full[q])
        BY <2>1, LenProperties
      <3> QED BY <3>1 DEF Range
    <2>6. Content(x) = EndOfStream
      BY <2>2, <2>3, <2>4, <2>5
    <2> QED BY <1>1, <1>2, <2>6, StreamTypes
  <1> QED BY <1>2, <1>3, <1>4

(* A queue that its reader has left is not read any more. *)
LEMMA CutOffStays ==
    ASSUME SInv, TypeInv', NEW t \in Task, Run(t), NEW q \in Queue, CutOff(q)
    PROVE  CutOff(q)'
  <1>1. IInv /\ TypeInv /\ [Next]_vars /\ Moves(t, q)
    BY RunMoves DEF SInv, IInv, Next
  <1>2. ~ Open(q)'
    BY <1>1, Grows DEF CutOff
  <1>3. got'[q] = got[q]
    <2>1. ~ Pops(t, q)
      BY OpenFacts DEF Pops, Outlived, CutOff
    <2> QED BY <1>1, <2>1 DEF Moves, Idles, Ends, PushesTo
  <1> QED BY <1>2, <1>3 DEF CutOff

(* A producer that has room to push has not closed the stream, ... *)
LEMMA PushRoom ==
    ASSUME SInv, TypeInv', [Next]_vars, NEW t \in Task, NEW q \in Streams, ~ CutOff(q),
           NEW x, NEW v, PushesTo(t, q, x, v)
    PROVE  /\ Open(q) /\ Value(x)' = v
           /\ EndOfStream \notin Range(sent[q]) /\ EndOfStream \notin Range(got[q])
           /\ Len(sent[q]) - Len(got[q]) < Limit(q[1])
  <1>1. IInv /\ TypeInv /\ q \in Queue /\ StreamInv(q) /\ QueueInv(q)
    BY DEF SInv, IInv, Streams
  <1>2. EndOfStream \notin Range(sent[q])
    BY <1>1 DEF StreamInv, PushesTo
  <1> DEFINE S == Pointer \cup {EndOfStream}
  <1>3. /\ full[q] \in Seq(S) /\ Maps(Read, S, Tag)
        /\ sent[q] \in Seq(Tag) /\ got[q] \in Seq(Tag)
    BY <1>1, StreamTypes
  <1>4. \A y \in S : Read[y] = Content(y)
    BY DEF Read
  <1> HIDE DEF S
  <1>5. /\ Contents(q) \in Seq(Tag) /\ Len(Contents(q)) = Len(full[q])
        /\ \A i \in 1..Len(full[q]) : Contents(q)[i] = Read[full[q][i]] /\ full[q][i] \in S
    BY <1>3, MappedFacts DEF Contents
  <1>6. InTransit(sent[q], got[q], Contents(q))
    BY <1>1 DEF StreamInv
  <1>7. Range(got[q]) \subseteq Range(sent[q]) /\ Range(Contents(q)) \subseteq Range(sent[q])
    BY <1>3, <1>5, <1>6, TransitFacts
  <1>8. Open(q) /\ Value(x)' = v /\ x \in Own(q)' /\ x \notin Range(full[q])
    <2>1. Open(q)
      BY <1>2, <1>7 DEF CutOff
    <2> QED BY <2>1 DEF PushesTo
  <1>9. EndOfStream \notin Range(full[q])
    <2>1. ASSUME NEW i \in 1..Len(full[q]) PROVE full[q][i] # EndOfStream
      <3>1. Contents(q)[i] \in Range(Contents(q))
        <4>1. DOMAIN Contents(q) = 1..Len(full[q])
          BY <1>5, LenProperties
        <4> QED BY <4>1 DEF Range
      <3>2. Content(full[q][i]) # EndOfStream
        BY <1>2, <1>4, <1>5, <1>7, <3>1
      <3> QED BY <3>2 DEF Content
    <2>2. DOMAIN full[q] = 1..Len(full[q])
      BY <1>3, LenProperties
    <2> QED BY <2>1, <2>2 DEF Range
  <1>10. PICK c \in Nat : c = capacity'[q] /\ c <= Limit(q[1])
    BY <1>1 DEF TypeInv, TypeOK, QueuesOK
  <1>11. Own(q)' = {<<q, n>> : n \in 1..c}
    BY <1>10 DEF Own
  <1>12. IsInjective(full[q]) /\ Range(full[q]) \subseteq Own(q)'
    <2>1. OnceBut(EndOfStream, full[q]) /\ Range(full[q]) \subseteq Own(q) \cup {EndOfStream}
      BY <1>1, <1>8 DEF QueueInv
    <2>2. Own(q) \subseteq Own(q)'
      BY <1>1, Grows
    <2>3. \A i \in DOMAIN full[q] : full[q][i] # EndOfStream
      BY <1>9 DEF Range
    <2>4. IsInjective(full[q])
      BY <2>1, <2>3 DEF OnceBut, IsInjective
    <2> QED BY <1>9, <2>1, <2>2, <2>4
  <1>13. Len(full[q]) < c
    BY <1>3, <1>8, <1>11, <1>12, RoomForOne
  <1>14. Len(sent[q]) - Len(got[q]) < Limit(q[1])
    <2>1. Len(sent[q]) = Len(got[q]) + Len(full[q])
      BY <1>5, <1>6 DEF InTransit
    <2>2. Len(got[q]) \in Nat /\ Len(full[q]) \in Nat /\ Limit(q[1]) \in Nat
      BY <1>1, <1>3, ConstantsType
    <2> QED BY <1>10, <1>13, <2>1, <2>2
  <1> QED BY <1>2, <1>7, <1>8, <1>14

(* ... so what is on its way stays in order, whatever happens to q, ... *)
LEMMA TransitStep ==
    ASSUME SInv, TypeInv', NEW t \in Task, Run(t), NEW q \in Streams, ~ CutOff(q)
    PROVE  InTransit(sent'[q], got'[q], Contents(q)')
  <1>1. IInv /\ TypeInv /\ q \in Queue /\ StreamInv(q) /\ [Next]_vars /\ Moves(t, q)
    BY RunMoves DEF SInv, IInv, Streams, Next
  <1> DEFINE S == Pointer \cup {EndOfStream}
  <1>2. PICK c, s, g, f, h :
           /\ c \in Seq(S) /\ s \in Seq(Tag) /\ g \in Seq(Tag)
           /\ c = full[q] /\ s = sent[q] /\ g = got[q]
           /\ f = Read /\ h = Read'
           /\ Maps(f, S, Tag) /\ Maps(h, S, Tag)
    <2>1. Maps(Read', S, Tag)
      <3>1. \A x \in S : Content(x)' \in Tag
        <4>1. \A x \in S : x \in Buffer => data'[x] \in Nat
          BY DEF TypeInv, TypeOK, GroupsOK
        <4> QED BY <4>1 DEF Content, Value, Tag
      <3> QED BY <3>1 DEF Read, Maps
    <2> QED BY <1>1, <2>1, StreamTypes
  <1>3. /\ \A x \in S : f[x] = Content(x)
        /\ \A x \in S : h[x] = Content(x)'
        /\ Contents(q)' = Mapped(h, full'[q])
        /\ EndOfStream \in S /\ EndOfStream \in Tag /\ h[EndOfStream] = EndOfStream
        /\ Pointer \subseteq S /\ Nat \subseteq Tag
    BY <1>2 DEF Read, Contents, Content, Tag
  <1>4. \A x \in Range(c) : x \in S /\ h[x] = f[x]
    <2>1. \A x \in Range(c) : Content(x)' = Content(x)
      BY <1>2, ContentsKept
    <2>2. \A x \in Range(c) : x \in S
      BY <1>2, ElementOfSeq, LenProperties DEF Range
    <2> QED BY <1>3, <2>1, <2>2
  <1> HIDE DEF S
  <1>5. PICK m \in Seq(Tag) : m = Mapped(f, c) /\ m = Mapped(h, c) /\ InTransit(s, g, m)
    <2>1. Mapped(f, c) \in Seq(Tag) /\ Mapped(h, c) = Mapped(f, c)
      <3>1. \A x \in Range(c) : h[x] = f[x]
        BY <1>4
      <3> QED BY <1>2, <3>1, MappedSame
    <2>2. InTransit(s, g, Mapped(f, c))
      BY <1>1, <1>2 DEF StreamInv, Contents
    <2> QED BY <2>1, <2>2
  <1>6. CASE Idles(q)
    BY <1>2, <1>3, <1>5, <1>6 DEF Idles
  <1>7. CASE Ends(t, q)
    <2>1. Contents(q)' = Append(m, EndOfStream)
      <3>0. EndOfStream \in S
        BY <1>3
      <3>1. Mapped(h, Append(c, EndOfStream)) = Append(Mapped(h, c), h[EndOfStream])
        BY <1>2, <3>0, MappedAppend
      <3>2. full'[q] = Append(c, EndOfStream)
        BY <1>2, <1>7 DEF Ends
      <3> QED BY <1>3, <1>5, <3>1, <3>2, Zenon
    <2>2. InTransit(Append(s, EndOfStream), g, Append(m, EndOfStream))
      BY <1>2, <1>3, <1>5, TransitAppend
    <2> QED BY <1>2, <1>7, <2>1, <2>2 DEF Ends
  <1>8. CASE Pops(t, q)
    <2>1. c # <<>> /\ full'[q] = Tail(c) /\ got'[q] = Append(g, Content(Head(c))) /\ sent'[q] = s
      BY <1>2, <1>8 DEF Pops
    <2>2. m # <<>> /\ Head(m) = f[Head(c)] /\ Mapped(h, Tail(c)) = Tail(m)
      <3>1. Mapped(f, c) # <<>> /\ Head(Mapped(f, c)) = f[Head(c)]
        BY <1>2, <2>1, MappedTail
      <3>2. Mapped(h, Tail(c)) = Tail(Mapped(h, c))
        BY <1>2, <2>1, MappedTail
      <3> QED BY <1>5, <3>1, <3>2
    <2>3. Head(c) \in S
      BY <1>2, <2>1, TailRange
    <2>4. InTransit(s, Append(g, Head(m)), Tail(m))
      BY <1>2, <1>5, <2>2, TransitPop
    <2> QED BY <1>3, <2>1, <2>2, <2>3, <2>4
  <1>9. ASSUME NEW x, NEW v, PushesTo(t, q, x, v)
        PROVE  InTransit(sent'[q], got'[q], Contents(q)')
    <2>2. x \in S /\ v \in Tag
      BY <1>3, <1>9 DEF PushesTo
    <2>3. h[x] = v
      <3>1. Value(x)' = v
        BY <1>1, <1>9, PushRoom
      <3>2. x # EndOfStream
        BY <1>9, GroupAssumption, SchedulerAssumption DEF PushesTo, Pointer
      <3>3. Content(x)' = Value(x)'
        BY <3>2 DEF Content
      <3> QED BY <1>3, <2>2, <3>1, <3>3
    <2>4. Append(c, x) \in Seq(S) /\ Append(s, v) \in Seq(Tag) /\ Append(m, v) \in Seq(Tag)
      BY <1>2, <1>5, <2>2
    <2>5. Mapped(h, Append(c, x)) = Append(m, v) /\ InTransit(Append(s, v), g, Append(m, v))
      <3>1. Mapped(h, Append(c, x)) = Append(Mapped(h, c), h[x])
        BY <1>2, <2>2, MappedAppend
      <3>2. InTransit(Append(s, v), g, Append(m, v))
        BY <1>2, <1>5, <2>2, TransitAppend
      <3> QED BY <1>5, <2>3, <3>1, <3>2, Zenon
    <2>6. CASE full'[q] = Append(full[q], x) /\ sent'[q] = Append(sent[q], v)
      BY <1>2, <1>3, <1>9, <2>5, <2>6 DEF PushesTo
    <2>7. CASE /\ full'[q] = Append(Append(full[q], x), EndOfStream)
               /\ sent'[q] = Append(Append(sent[q], v), EndOfStream)
      <3>1. PICK d \in Seq(S), r \in Seq(Tag), n \in Seq(Tag) :
               d = Append(c, x) /\ r = Append(s, v) /\ n = Append(m, v)
        BY <2>4
      <3>2. Mapped(h, Append(d, EndOfStream)) = Append(n, EndOfStream)
        <4>1. EndOfStream \in S
          BY <1>3
        <4>3. Mapped(h, Append(d, EndOfStream)) = Append(Mapped(h, d), h[EndOfStream])
          BY <1>2, <4>1, MappedAppend
        <4>2. Mapped(h, d) = n
          BY <2>5, <3>1
        <4> QED BY <1>3, <4>2, <4>3, Zenon
      <3>3. InTransit(Append(r, EndOfStream), g, Append(n, EndOfStream))
        BY <1>2, <1>3, <2>5, <3>1, TransitAppend
      <3> QED BY <1>2, <1>3, <1>9, <2>7, <3>1, <3>2, <3>3 DEF PushesTo
    <2> QED BY <1>9, <2>6, <2>7 DEF PushesTo
  <1> QED BY <1>1, <1>6, <1>7, <1>8, <1>9 DEF Moves

(* ... and the step is one of the stream. *)
LEMMA EdgeStep ==
    ASSUME SInv, TypeInv', NEW t \in Task, Run(t), NEW q \in Streams, ~ CutOff(q)
    PROVE  [Edge(q)!Next]_(Edge(q)!streamVars)
  <1>1. IInv /\ TypeInv /\ q \in Queue /\ StreamInv(q) /\ [Next]_vars /\ Moves(t, q)
    BY RunMoves DEF SInv, IInv, Streams, Next
  <1>2. /\ sent[q] \in Seq(Tag) /\ got[q] \in Seq(Tag)
        /\ Len(sent[q]) \in Nat /\ Len(got[q]) \in Nat
    BY <1>1, StreamTypes
  <1>3. CASE Idles(q)
    BY <1>3 DEF Idles, Edge!streamVars
  <1>4. CASE Ends(t, q)
    BY <1>4 DEF Ends, Edge!Close, Edge!Next
  <1>5. CASE Pops(t, q)
    <2> DEFINE S == Pointer \cup {EndOfStream}
    <2>1. PICK c, f : c \in Seq(S) /\ c = full[q] /\ f = Read /\ Maps(f, S, Tag)
      BY <1>1, StreamTypes
    <2>2. c # <<>> /\ got'[q] = Append(got[q], Content(Head(c))) /\ sent'[q] = sent[q]
      BY <1>5, <2>1 DEF Pops
    <2>3. \A x \in S : f[x] = Content(x)
      BY <2>1 DEF Read
    <2> HIDE DEF S
    <2>4. PICK m \in Seq(Tag) : m = Mapped(f, c) /\ m # <<>> /\ Head(m) = Content(Head(c))
      <3>0. c # <<>>
        BY <2>2
      <3>1. /\ Mapped(f, c) \in Seq(Tag) /\ Mapped(f, c) # <<>>
            /\ Head(Mapped(f, c)) = f[Head(c)] /\ Head(c) \in S
        BY <2>1, <3>0, MappedTail
      <3> QED BY <2>3, <3>1
    <2>5. InTransit(sent[q], got[q], m)
      BY <1>1, <2>1, <2>4 DEF StreamInv, Contents
    <2>6. Len(got[q]) < Len(sent[q]) /\ sent[q][Len(got[q]) + 1] = Head(m)
      BY <1>2, <2>4, <2>5, TransitPop
    <2>7. \A i \in 1..Len(got[q]) : got[q][i] # EndOfStream
      <3>1. EndOfStream \notin Range(got[q])
        BY <1>5 DEF Pops, SInv, EndInv
      <3> QED BY <1>2, <3>1, LenProperties DEF Range
    <2>8. Edge(q)!Receive
      BY <2>2, <2>4, <2>6, <2>7 DEF Edge!Receive, Edge!Has
    <2> QED BY <2>8 DEF Edge!Next
  <1>6. ASSUME NEW x, NEW v, PushesTo(t, q, x, v)
        PROVE  [Edge(q)!Next]_(Edge(q)!streamVars)
    <2>1. /\ EndOfStream \notin Range(sent[q]) /\ Len(sent[q]) - Len(got[q]) < Limit(q[1])
          /\ v \in Nat /\ v \in Tag /\ EndOfStream \in Tag /\ got'[q] = got[q]
      BY <1>1, <1>6, PushRoom DEF PushesTo, Tag
    <2>2. ~ Edge(q)!Has(sent[q], EndOfStream)
      BY <1>2, <2>1, LenProperties DEF Edge!Has, Range
    <2>3. PICK s \in Seq(Tag), n \in Nat : s = sent[q] /\ n = Len(s)
      BY <1>2
    <2>4. PICK r \in Seq(Tag) : r = Append(s, v) /\ Len(r) = n + 1 /\ r[n + 1] = v /\ SubSeq(r, 1, n) = s
      <3>1. /\ Append(s, v) \in Seq(Tag) /\ Len(Append(s, v)) = n + 1 /\ Append(s, v)[n + 1] = v
        BY <2>1, <2>3, AppendProperties
      <3>2. SubSeq(Append(s, v), 1, n) = s
        BY <2>1, <2>3, AppendsOne
      <3> QED BY <3>1, <3>2
    <2>5. CASE sent'[q] = Append(sent[q], v)
      <3>1. Edge(q)!Send
        BY <2>1, <2>2, <2>3, <2>4, <2>5 DEF Edge!Send, Edge!Appends
      <3> QED BY <3>1 DEF Edge!Next
    <2>6. CASE sent'[q] = Append(Append(sent[q], v), EndOfStream)
      <3>1. PICK w \in Seq(Tag) : w = Append(r, EndOfStream)
        BY <2>1, AppendProperties
      <3>2. /\ Len(w) = (n + 1) + 1 /\ w[Len(w)] = EndOfStream /\ SubSeq(w, 1, n + 1) = r
        BY <2>1, <2>4, <3>1, AppendsOne
      <3>3. Len(w) = n + 2
        BY <3>2
      <3>4. Edge(q)!Appends(s, r, Nat)
        BY <2>1, <2>3, <2>4 DEF Edge!Appends
      <3>5. sent'[q] = w
        BY <2>3, <2>4, <2>6, <3>1
      <3>6. Edge(q)!SendLast
        BY <2>1, <2>2, <2>3, <3>2, <3>3, <3>4, <3>5 DEF Edge!SendLast
      <3> QED BY <3>6 DEF Edge!Next
    <2> QED BY <1>6, <2>5, <2>6 DEF PushesTo
  <1> QED BY <1>1, <1>3, <1>4, <1>5, <1>6 DEF Moves

(* Once an end marker is out, the producer has done with the queue.        *)
LEMMA LeftBehindStays ==
    ASSUME SInv, TypeInv', NEW t \in Task, Run(t), NEW q \in Streams, LeftBehind(q)
    PROVE  LeftBehind(q)'
  <1>1. IInv /\ TypeInv /\ q \in Queue /\ q[1] \in Task /\ ~ Wraps(q[1]) /\ Closing(q[1])
    BY ConstantsType DEF SInv, IInv, Streams
  <1>2. PICK u \in Task : u = q[1]
    BY <1>1
  <1>3. CASE u # t
    <2>1. pc'[u] = pc[u] /\ current'[u] = current[u]
      BY <1>1, <1>3, OwnLocals
    <2> QED BY <1>2, <2>1 DEF LeftBehind
  <1>4. CASE u = t
    <2>1. Pattern[t] = "sequential" /\ q[2] < current[t]
      BY <1>2, <1>4, DoneIsDone DEF LeftBehind
    <2>2. CASE UNCHANGED current
      BY <1>2, <1>4, <2>1, <2>2 DEF LeftBehind
    <2>3. CASE ~ UNCHANGED current
      <3>1. PushSequential(t, out[t]) /\ Push(t)
        BY <2>1, <2>3 DEF Run, PopInput, PopInputBuffer, SkipInput, Stop, Proceed, Fail, PopOut,
           Generate, Produce, Process, Reduce, Reget, Regenerate, Push, PushScatter, PushOriginal,
           BroadcastCopy, PushCopy, ReleaseInput, PushInputBuffer, Flush, Leave, Finish, FinishTo,
           groupVars
      <3>2. Mode[t] # "sink"
        BY <1>1, <3>1, PushedItems
      <3>3. /\ current' = [current EXCEPT ![t] = IF Complete(t) THEN NextTarget(t) ELSE @]
            /\ current \in [Task -> Nat \ {0}]
        BY <1>1, <3>1 DEF PushSequential, TypeInv, TypeOK, GroupsOK
      <3>4. Complete(t) => NextTarget(t) = current[t] + 1
        BY <1>1, <1>2, <1>4, <2>1, <3>2, NextInTurn
      <3>5. PICK c \in Nat : c = current[t] /\ (current'[t] = c \/ current'[t] = c + 1)
        BY <3>3, <3>4
      <3>6. PICK k \in Nat : k = q[2]
        <4>1. \E w \in Task : \E k \in 1..NTargets(w) : q = <<w, k>>
          BY <1>1, GroupAssumption DEF TaskQueue
        <4> QED BY <4>1
      <3>7. k < c => k < c + 1
        OBVIOUS
      <3>8. q[2] < current'[t]
        BY <2>1, <3>5, <3>6, <3>7
      <3> QED BY <1>2, <1>4, <2>1, <3>8 DEF LeftBehind
    <2> QED BY <2>2, <2>3
  <1> QED BY <1>3, <1>4

(* A group passes a target when it has sent it all it expects. *)
LEMMA ClosingStep ==
    ASSUME SInv, NEW t \in Task, Run(t), NEW u \in Task
    PROVE  Closing(u)'
  <1>1. TypeInv /\ Closing(u)
    BY DEF SInv, IInv
  <1>2. CASE current'[u] = current[u]
    BY <1>1, <1>2 DEF Closing
  <1>3. CASE u = t /\ Pattern[t] = "sequential" /\ ~ UNCHANGED current
    <2>1. PushSequential(t, out[t]) /\ Push(t)
      BY <1>3 DEF Run, PopInput, PopInputBuffer, SkipInput, Stop, Proceed, Fail, PopOut,
         Generate, Produce, Process, Reduce, Reget, Regenerate, Push, PushScatter, PushOriginal,
         BroadcastCopy, PushCopy, ReleaseInput, PushInputBuffer, Flush, Leave, Finish, FinishTo,
         groupVars
    <2>2. Mode[t] # "sink"
      BY <1>1, <2>1, PushedItems
    <2>3. /\ current' = [current EXCEPT ![t] = IF Complete(t) THEN NextTarget(t) ELSE @]
          /\ current \in [Task -> Nat \ {0}]
      BY <1>1, <2>1 DEF PushSequential, TypeInv, TypeOK, GroupsOK
    <2>4. CASE Complete(t)
      <3>1. \A k \in 1..current[t] : NumExpected[<<t, k>>] > 0
        BY <1>1, <1>3, <2>2, <2>4, NextInTurn
      <3>2. PICK c \in Nat, n \in Nat : c = current[t] /\ n = NTargets(t) /\ c \in 1..n
        BY <1>1, <2>2, ConstantsType DEF TypeInv, Positions, Position
      <3>3. current'[t] = (c % n) + 1
        BY <2>3, <2>4, <3>2 DEF NextTarget
      <3>4. c % n \in 0..c
        <4>1. c = n => c % n = 0
          BY <3>2
        <4>2. c < n => c % n = c
          BY <3>2
        <4> QED BY <3>2, <4>1, <4>2
      <3>5. PICK d \in 0..c : current'[t] = d + 1
        BY <3>3, <3>4
      <3>6. \A k \in 1..(d + 1) - 1 : k \in 1..c
        OBVIOUS
      <3> QED BY <1>3, <3>1, <3>2, <3>5, <3>6 DEF Closing
    <2>5. CASE ~ Complete(t)
      BY <1>2, <1>3, <2>3, <2>5
    <2> QED BY <2>4, <2>5
  <1>4. CASE u # t
    BY <1>1, <1>2, <1>4, OwnLocals
  <1>5. CASE Pattern[u] # "sequential"
    BY <1>5 DEF Closing
  <1> QED BY <1>2, <1>3, <1>4, <1>5

LEMMA EndStep ==
    ASSUME SInv, TypeInv', NEW t \in Task, Run(t)
    PROVE  EndInv'
  <1>1. TypeInv /\ EndInv /\ IInv
    BY DEF SInv, IInv
  <1>2. CASE ~ PopInput(t)
    <2>1. UNCHANGED <<finished, got>>
      BY <1>2 DEF Run, SkipInput, Stop, Proceed, Fail, PopOut, Generate, Produce,
         Process, Reduce, Reget, Regenerate, Push, PushScatter, PushSequential, PushOriginal,
         BroadcastCopy, PushCopy, ReleaseInput, PushInputBuffer, Flush, Leave, Finish,
         FinishTo, groupVars
    <2> QED BY <1>1, <2>1 DEF EndInv
  <1>3. CASE PopInput(t)
    <2>1. idx[t] \in 1..NInputs(t) /\ ~ finished[t][idx[t]]
      BY <1>1, <1>3, ConstantsType DEF PopInput, TypeInv, TypeOK, ThreadsOK
    <2>2. PICK r \in Queue : r = InQueue(t, idx[t]) /\ r \in Range(InQueues[t][idx[t]])
      BY <1>1, <2>1, InQueueFacts
    <2>3. PICK b : b = InBuffer(r)
      OBVIOUS
    <2>4. /\ got' = [got EXCEPT ![r] = Append(@, Content(b))]
          /\ b = EndOfStream => finished' = [finished EXCEPT ![t][idx[t]] = TRUE]
          /\ b # EndOfStream => UNCHANGED finished
      BY <1>3, <2>2, <2>3 DEF PopInput, PopInputBuffer
    <2>5. PICK v \in Tag : v = Content(b) /\ (v = EndOfStream <=> b = EndOfStream)
      BY <1>1, StreamTypes, <2>2
    <2>6. got[r] \in Seq(Tag) /\ got \in [Queue -> Seq(Tag)]
      BY <1>1 DEF TypeInv, TypeOK, GroupsOK
    <2>7. Range(got'[r]) = Range(got[r]) \cup {v} /\ \A q \in Queue \ {r} : got'[q] = got[q]
      <3>1. Range(Append(got[r], v)) = Range(got[r]) \cup {v}
        BY <2>5, <2>6, AppendRange
      <3>2. got'[r] = Append(got[r], v)
        BY <2>4, <2>5, <2>6
      <3> QED BY <2>4, <2>6, <3>1, <3>2
    <2>8. DOMAIN finished = Task /\ \A w \in Task : finished[w] \in [1..NInputs(w) -> BOOLEAN]
      BY <1>1 DEF TypeInv, TypeOK, InputsOK
    <2>9. ASSUME NEW u \in Task, NEW i \in 1..NInputs(u)
          PROVE  finished'[u][i] <=> \E q \in Range(InQueues[u][i]) : EndOfStream \in Range(got'[q])
      <3>1. finished[u][i] <=> \E q \in Range(InQueues[u][i]) : EndOfStream \in Range(got[q])
        BY <1>1 DEF EndInv
      <3>2. \A q \in Range(InQueues[u][i]) : q \in Queue
        BY WiringFacts
      <3>3. CASE u = t /\ i = idx[t]
        <4>1. CASE b = EndOfStream
          <5>1. finished'[u][i]
            BY <2>4, <2>8, <3>3, <4>1
          <5>2. r \in Range(InQueues[u][i]) /\ EndOfStream \in Range(got'[r])
            BY <2>2, <2>5, <2>7, <3>3, <4>1
          <5> QED BY <5>1, <5>2
        <4>2. CASE b # EndOfStream
          <5>1. \A q \in Queue : EndOfStream \in Range(got'[q]) <=> EndOfStream \in Range(got[q])
            BY <2>5, <2>7, <4>2
          <5> QED BY <2>4, <3>1, <3>2, <4>2, <5>1
        <4> QED BY <4>1, <4>2
      <3>4. CASE ~ (u = t /\ i = idx[t])
        <4>1. finished'[u][i] = finished[u][i]
          <5>1. CASE b = EndOfStream
            <6>1. finished' = [finished EXCEPT ![t][idx[t]] = TRUE]
              BY <2>4, <5>1
            <6>2. CASE u # t
              BY <2>8, <6>1, <6>2
            <6>3. CASE u = t /\ i # idx[t]
              BY <2>1, <2>8, <6>1, <6>3
            <6> QED BY <3>4, <6>2, <6>3
          <5> QED BY <2>4, <5>1
        <4>2. r \notin Range(InQueues[u][i])
          BY <2>1, <2>2, <3>4, WiringFacts, SMTT(30)
        <4> QED BY <2>7, <3>1, <3>2, <4>1, <4>2
      <3> QED BY <3>3, <3>4
    <2> QED BY <2>9 DEF EndInv
  <1> QED BY <1>2, <1>3

LEMMA StreamNext ==
    ASSUME SInv, [Next]_vars
    PROVE  SInv' /\ \A q \in Streams : [Edge(q)!Next]_(Edge(q)!streamVars) \/ CutOff(q)
  <1>1. IInv /\ IInv' /\ TypeInv'
    BY NextPlaces DEF SInv, IInv
  <1>2. \A q \in Streams : q \in Queue /\ StreamInv(q)
    BY DEF SInv, Streams
  <1>3. CASE Abort \/ UNCHANGED vars
    <2>1. UNCHANGED <<finished, pc, current, full, sent, got, data>>
      BY <1>3 DEF Abort, vars, queueVars, groupVars, threadVars
    <2>2. Read' = Read
      BY <2>1 DEF Read, Content, Value
    <2>3. \A q \in Queue : Contents(q)' = Contents(q) /\ (CutOff(q)' <=> CutOff(q))
      BY <2>1, <2>2 DEF Contents, CutOff, Open, Outlived
    <2>4. \A q \in Streams : StreamInv(q)'
      BY <1>2, <2>1, <2>3 DEF StreamInv, LeftBehind
    <2>5. EndInv' /\ \A t \in Task : Closing(t)'
      BY <2>1 DEF SInv, EndInv, Closing
    <2>6. \A q \in Streams : [Edge(q)!Next]_(Edge(q)!streamVars)
      BY <2>1 DEF Edge!streamVars
    <2> QED BY <1>1, <2>4, <2>5, <2>6 DEF SInv
  <1>4. ASSUME NEW t \in Task, Run(t)
        PROVE  SInv' /\ \A q \in Streams : [Edge(q)!Next]_(Edge(q)!streamVars) \/ CutOff(q)
    <2>1. ASSUME NEW q \in Streams PROVE StreamInv(q)'
      <3>1. sent[q] \in Seq(Tag) /\ NothingBehind(EndOfStream, sent[q]) /\ Moves(t, q)
        BY <1>1, <1>2, <1>4, StreamTypes, RunMoves DEF StreamInv, IInv
      <3>2. EndOfStream \in Range(sent[q]) => LeftBehind(q)'
        BY <1>1, <1>2, <1>4, LeftBehindStays DEF StreamInv
      <3>3. EndOfStream \in Tag /\ Nat \subseteq Tag
        BY DEF Tag
      <3>4. (EndOfStream \in Range(sent[q]) => LeftBehind(q))' /\ NothingBehind(EndOfStream, sent'[q])
        <4>1. CASE sent'[q] = sent[q]
          BY <3>1, <3>2, <4>1
        <4>2. CASE Ends(t, q)
          <5>1. NothingBehind(EndOfStream, Append(sent[q], EndOfStream))
            BY <3>1, <3>3, NothingBehindAppend
          <5> QED BY <4>2, <5>1 DEF Ends, LeftBehind
        <4>3. ASSUME NEW x, NEW v, PushesTo(t, q, x, v)
              PROVE  (EndOfStream \in Range(sent[q]) => LeftBehind(q))' /\ NothingBehind(EndOfStream, sent'[q])
          <5>1. EndOfStream \notin Range(sent[q]) /\ v \in Tag /\ v # EndOfStream
            BY <1>2, <3>3, <4>3, GroupAssumption DEF StreamInv, PushesTo
          <5>2. PICK s \in Seq(Tag) : /\ s = Append(sent[q], v)
                                      /\ Range(s) = Range(sent[q]) \cup {v}
                                      /\ NothingBehind(EndOfStream, s)
            <6>1. Append(sent[q], v) \in Seq(Tag) /\ Range(Append(sent[q], v)) = Range(sent[q]) \cup {v}
              BY <3>1, <5>1, AppendRange
            <6>2. NothingBehind(EndOfStream, Append(sent[q], v))
              BY <3>1, <5>1, NothingBehindAppend
            <6> QED BY <6>1, <6>2
          <5>3. CASE sent'[q] = Append(sent[q], v)
            BY <5>1, <5>2, <5>3
          <5>4. CASE sent'[q] = Append(Append(sent[q], v), EndOfStream) /\ LeftBehind(q)'
            <6>1. NothingBehind(EndOfStream, Append(s, EndOfStream))
              BY <3>3, <5>2, NothingBehindAppend
            <6> QED BY <5>2, <5>4, <6>1
          <5> QED BY <4>3, <5>3, <5>4 DEF PushesTo
        <4> QED BY <3>1, <4>1, <4>2, <4>3 DEF Moves, Idles, Pops
      <3>5. CutOff(q)' \/ InTransit(sent'[q], got'[q], Contents(q)')
        BY <1>1, <1>2, <1>4, CutOffStays, TransitStep
      <3> QED BY <3>4, <3>5 DEF StreamInv
    <2>2. \A q \in Streams : [Edge(q)!Next]_(Edge(q)!streamVars) \/ CutOff(q)
      BY <1>1, <1>4, EdgeStep
    <2>3. EndInv' /\ \A u \in Task : Closing(u)'
      BY <1>1, <1>4, EndStep, ClosingStep
    <2> QED BY <1>1, <2>1, <2>2, <2>3 DEF SInv
  <1> QED BY <1>3, <1>4 DEF Next, Joined

LEMMA StreamInit == Init => SInv /\ \A q \in Streams : Edge(q)!Init
  <1> SUFFICES ASSUME Init PROVE SInv /\ \A q \in Streams : Edge(q)!Init
    OBVIOUS
  <1>1. /\ \A q \in Queue : full[q] = <<>> /\ sent[q] = <<>> /\ got[q] = <<>>
        /\ \A t \in Task : current[t] = 1
        /\ \A t \in Task : \A i \in 1..NInputs(t) : ~ finished[t][i]
    BY DEF Init, InitOf, InitGroups, InitQueues
  <1>2. \A q \in Streams : q \in Queue
    BY DEF Streams
  <1>3. \A q \in Streams : Edge(q)!Init
    BY <1>1, <1>2 DEF Edge!Init
  <1>4. Range(<<>>) = {} /\ Len(<<>>) = 0 /\ 1..0 = {} /\ 1..1 - 1 = {}
    BY EmptyRange
  <1>5. EndInv
    BY <1>1, <1>4, WiringFacts DEF EndInv
  <1>6. \A t \in Task : Closing(t)
    BY <1>1, <1>4 DEF Closing
  <1>7. ASSUME NEW q \in Streams PROVE StreamInv(q)
    <2>1. full[q] = <<>> /\ sent[q] = <<>> /\ got[q] = <<>>
      BY <1>1, <1>2
    <2>2. Len(Contents(q)) = 0
      BY <1>4, <2>1 DEF Contents, Mapped
    <2>3. InTransit(sent[q], got[q], Contents(q))
      BY <1>4, <2>1, <2>2 DEF InTransit
    <2> QED BY <1>4, <2>1, <2>3 DEF StreamInv, NothingBehind
  <1> QED BY <1>3, <1>5, <1>6, <1>7, InitPlaces DEF SInv

(* Whatever the graph, every edge is the stream of module Stream until its *)
(* reader turns away from it: each item that a task pushes is received     *)
(* once, in order and unchanged, at most n_targets + 1 are in flight, and  *)
(* no item follows the end marker (ufo_group_push_output_buffer to         *)
(* ufo_group_pop_input_buffer, through the buffers all threads share).     *)
THEOREM StreamsCorrect == Spec => StreamSpec
  <1>1. Init => SInv /\ \A q \in Streams : Edge(q)!Init
    BY StreamInit
  <1>2. SInv /\ [Next]_vars => SInv'
    BY StreamNext
  <1>3. SInv /\ [Next]_vars
          => [\A q \in Streams :
                 [Edge(q)!Next]_(Edge(q)!streamVars) \/ CutOff(q)]_<<sent, got>>
    BY StreamNext
  <1> QED BY <1>1, <1>2, <1>3, PTL DEF Spec, StreamSpec

=============================================================================
