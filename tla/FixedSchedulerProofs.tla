------------------------ MODULE FixedSchedulerProofs ------------------------
(***************************************************************************)
(* Theorems about the fixed scheduler, for every graph that satisfies      *)
(* FixedAssumption: a buffer of an open connection is in one place at a    *)
(* time, every connection is a reliable, bounded stream, a task with       *)
(* several successors sends them the same items, and each call of process  *)
(* gets the items that belong together.  The last part, for forests, shows *)
(* that the tasks never all wait for each other.                           *)
(***************************************************************************)
EXTENDS FixedScheduler, SequenceFacts, NaturalsInduction, WellFoundedInduction

(* Where a thread may be, by its mode. *)
PCs(mode) ==
    CASE mode = "generator" -> {"popout", "generate", "done"}
      [] mode = "processor" -> {"get", "popout", "process", "flush", "done"}
      [] mode = "sink"      -> {"get", "process", "flush", "done"}
      [] mode = "reductor"  -> {"first", "popout", "reduce", "reget", "regenerate", "repopout",
                                "flush", "done"}

AllPCs == UNION {PCs(m) : m \in {"generator", "processor", "sink", "reductor"}}

(* The buffers that were inserted into q so far. *)
Own(q) == {<<q, n>> : n \in 1..capacity[q]}

TypeQueues ==
    /\ capacity \in [Queue -> 0..Limit]
    /\ DOMAIN free = Queue /\ \A q \in Queue : free[q] \in Seq(Own(q))
    /\ DOMAIN full = Queue /\ \A q \in Queue : full[q] \in Seq(Own(q) \cup {EndOfStream})

TypeInputs ==
    /\ DOMAIN finished = Task /\ \A t \in Task : finished[t] \in [1..NInputs(t) -> BOOLEAN]
    /\ DOMAIN inputs = Task
    /\ \A t \in Task : inputs[t] \in [1..NInputs(t) -> Buffer \cup {NullBuffer}]

TypeRest ==
    /\ pc \in [Task -> AllPCs]
    /\ idx \in [Task -> Nat \ {0}]
    /\ count \in [Task -> Nat]
    /\ out \in [Task -> Buffer \cup {NullBuffer}]
    /\ data \in [Buffer -> Nat]
    /\ held \in [Task -> SUBSET Buffer]
    /\ sent \in [Queue -> Seq(Nat \cup {EndOfStream})]
    /\ got \in [Queue -> Seq(Nat \cup {EndOfStream})]

TypeInv == TypeQueues /\ TypeInputs /\ TypeRest

(* The output a task is at: idx counts outputs, except while a reductor    *)
(* reads its inputs.                                                       *)
AtOutput(t) ==
    \/ pc[t] \in {"popout", "generate", "regenerate", "repopout"}
    \/ pc[t] = "process" /\ Mode[t] # "sink"

OutPos(t) == IF Mode[t] = "reductor" THEN 1 ELSE idx[t]

Position(t) ==
    /\ pc[t] \in PCs(Mode[t])
    /\ AtOutput(t) => idx[t] \in 1..NOutputs(t)
    /\ HoldsOutput(t) => out[t] \in Own(Out[t][OutPos(t)])

(* What a task reads comes from its inputs. *)
Owned(t) ==
    /\ \A b \in held[t] : b[1] \in Range(In[t]) /\ b \in Own(b[1])
    /\ \A i \in 1..NInputs(t) : inputs[t][i] # NullBuffer => inputs[t][i] \in Own(In[t][i])

Closed(q) == EndOfStream \in Range(got[q])

(* A stream ends when its producer has left, and an input is finished when *)
(* its end was read.                                                       *)
Ends(t) ==
    /\ pc[t] # "done" => \A q \in Range(Out[t]) : ~ Closed(q) /\ EndOfStream \notin Range(full[q])
    /\ \A i \in 1..NInputs(t) : finished[t][i] <=> Closed(In[t][i])

(* The inputs that were fetched in this round. *)
Fetched(t) ==
    CASE pc[t] \in Getting -> {i \in 1..NInputs(t) : i < idx[t]}
      [] pc[t] = "done"    -> {}
      [] OTHER             -> 1..NInputs(t)

Fetching(t) ==
    \A i \in Fetched(t) : finished[t][i] \/ inputs[t][i] \in held[t]

TaskInv(t) == Position(t) /\ Owned(t) /\ Ends(t) /\ Fetching(t)

(* The parts of Exclusive. *)
ApartFrom(q) ==
    /\ IsInjective(free[q]) /\ IsInjective(full[q])
    /\ Range(free[q]) \cap Range(full[q]) = {}
    /\ \A t \in Task : held[t] \cap (Range(free[q]) \cup Range(full[q])) = {}
    /\ \A t \in Task : HoldsOutput(t) => out[t] \notin Range(free[q]) \cup Range(full[q])

Apart ==
    /\ \A t, u \in Task : HoldsOutput(t) => out[t] \notin held[u]
    /\ \A q \in Queue : Closed(q) \/ ApartFrom(q)

IInv == TypeInv /\ (\A t \in Task : TaskInv(t)) /\ Apart

----------------------------------------------------------------------------
(* Sequences as sets, and minima *)

LEMMA MinProperties ==
    ASSUME NEW S, S \subseteq Nat, S # {}
    PROVE  Min(S) \in S /\ \A y \in S : Min(S) <= y
  <1>1. PICK x \in S : \A y \in S : ~ (<<y, x>> \in OpToRel(<, Nat))
    BY WFMin, NatLessThanWellFounded
  <1>2. \A y \in S : ~ (y < x)
    BY <1>1 DEF OpToRel
  <1>3. \A y \in S : x <= y
    BY <1>2
  <1> QED BY <1>3 DEF Min

----------------------------------------------------------------------------
(* What the assumptions say about connections and buffers *)

LEMMA WiringFacts ==
    /\ \A t \in Task : NInputs(t) \in Nat /\ NOutputs(t) \in Nat
    /\ \A t \in Task : \A i \in 1..NInputs(t) : In[t][i] \in Queue /\ In[t][i] \in Range(In[t])
    /\ \A t \in Task : \A q \in Range(In[t]) :
          q \in Queue /\ \E i \in 1..NInputs(t) : q = In[t][i]
    /\ \A t \in Task : \A k \in 1..NOutputs(t) : Out[t][k] \in Queue /\ Out[t][k] \in Range(Out[t])
    /\ \A t \in Task : Range(Out[t]) \subseteq Queue
    /\ \A t \in Task : \A i, j \in 1..NInputs(t) : In[t][i] = In[t][j] => i = j
    /\ \A t, u \in Task : \A q : q \in Range(In[t]) /\ q \in Range(In[u]) => t = u
    /\ \A t, u \in Task : \A q : q \in Range(Out[t]) /\ q \in Range(Out[u]) => t = u
  <1>1. \A t \in Task : /\ In[t] \in Seq(Queue) /\ Out[t] \in Seq(Queue)
                        /\ DOMAIN In[t] = 1..NInputs(t) /\ NInputs(t) \in Nat
                        /\ DOMAIN Out[t] = 1..NOutputs(t) /\ NOutputs(t) \in Nat
    BY FixedAssumption, LenProperties DEF NInputs, NOutputs
  <1>2. \A t \in Task : /\ \A i \in 1..NInputs(t) : In[t][i] \in Queue
                        /\ \A k \in 1..NOutputs(t) : Out[t][k] \in Queue
    BY <1>1, ElementOfSeq DEF NInputs, NOutputs
  <1>3. \A t \in Task : \A i, j \in 1..NInputs(t) : In[t][i] = In[t][j] => i = j
    BY <1>1, FixedAssumption DEF IsInjective
  <1>4. \A t, u \in Task : \A q :
          /\ q \in Range(In[t]) /\ q \in Range(In[u]) => t = u
          /\ q \in Range(Out[t]) /\ q \in Range(Out[u]) => t = u
    BY FixedAssumption
  <1>5. \A t \in Task : /\ \A q : q \in Range(In[t]) <=> \E i \in 1..NInputs(t) : q = In[t][i]
                        /\ \A q : q \in Range(Out[t]) <=> \E k \in 1..NOutputs(t) : q = Out[t][k]
    BY <1>1 DEF Range
  <1>6. \A t \in Task : \A q \in Range(In[t]) :
          q \in Queue /\ \E i \in 1..NInputs(t) : q = In[t][i]
    BY <1>2, <1>5
  <1>7. \A t \in Task : Range(Out[t]) \subseteq Queue
    BY <1>2, <1>5
  <1>8. \A t \in Task : \A i \in 1..NInputs(t) : In[t][i] \in Queue /\ In[t][i] \in Range(In[t])
    BY <1>2, <1>5
  <1>9. \A t \in Task : \A k \in 1..NOutputs(t) : Out[t][k] \in Queue /\ Out[t][k] \in Range(Out[t])
    BY <1>2, <1>5
  <1> QED BY <1>1, <1>3, <1>4, <1>6, <1>7, <1>8, <1>9

LEMMA OwnFacts ==
    ASSUME TypeInv, NEW q \in Queue
    PROVE  /\ Own(q) \subseteq Buffer
           /\ \A b \in Own(q) : b[1] = q
           /\ EndOfStream \notin Own(q) /\ NullBuffer \notin Own(q)
  <1>1. capacity[q] \in 0..Limit
    BY DEF TypeInv, TypeQueues
  <1>2. \A n \in 1..capacity[q] : n \in 1..Limit
    BY <1>1 DEF Limit
  <1>3. Own(q) \subseteq Buffer /\ \A b \in Own(q) : b[1] = q
    BY <1>2 DEF Own, Buffer
  <1> QED BY <1>3, FixedAssumption

(* Where the output of a task goes. *)
LEMMA OutputFacts ==
    ASSUME IInv, NEW t \in Task
    PROVE  /\ AtOutput(t) => /\ OutQueue(t) \in Queue /\ OutQueue(t) \in Range(Out[t])
                             /\ OutQueue(t) = Out[t][OutPos(t)]
           /\ HoldsOutput(t) => /\ Out[t][OutPos(t)] \in Queue /\ Out[t][OutPos(t)] \in Range(Out[t])
                                /\ out[t] \in Own(Out[t][OutPos(t)])
  <1>1. TypeInv /\ Position(t) /\ pc[t] \in PCs(Mode[t])
    BY DEF IInv, TaskInv, Position
  <1>2. Mode[t] = "reductor" => NOutputs(t) = 1
    BY FixedAssumption
  <1>3. HoldsOutput(t) => AtOutput(t) \/ Mode[t] = "reductor"
    <2>1. Mode[t] \in {"generator", "processor", "sink", "reductor"}
      BY FixedAssumption
    <2> QED BY <1>1, <2>1 DEF HoldsOutput, AtOutput, PCs
  <1>4. AtOutput(t) => OutPos(t) = idx[t] /\ idx[t] \in 1..NOutputs(t)
    BY <1>1, <1>2 DEF Position, OutPos
  <1>5. HoldsOutput(t) => OutPos(t) \in 1..NOutputs(t)
    BY <1>2, <1>3, <1>4 DEF OutPos
  <1> QED BY <1>1, <1>4, <1>5, WiringFacts DEF OutQueue, Position

LEMMA HeldFacts ==
    ASSUME IInv, NEW t \in Task
    PROVE  /\ held[t] \subseteq Buffer
           /\ \A u \in Task : t # u => held[t] \cap held[u] = {}
           /\ \A u \in Task : t # u /\ HoldsOutput(t) /\ HoldsOutput(u) => out[t] # out[u]
           /\ HoldsOutput(t) => out[t] \in Buffer
  <1>1. \A u \in Task : held[u] \subseteq Buffer /\ \A b \in held[u] : b[1] \in Range(In[u])
    BY DEF IInv, TypeInv, TypeRest, TaskInv, Owned
  <1>2. \A u \in Task : HoldsOutput(u) => out[u] \in Buffer /\ out[u][1] \in Range(Out[u])
    BY OutputFacts, OwnFacts DEF IInv
  <1> QED BY <1>1, <1>2, WiringFacts

----------------------------------------------------------------------------
(* A step of one task: what it leaves to the others *)

OthersSame(t) ==
    \A u \in Task \ {t} :
        /\ pc'[u] = pc[u] /\ idx'[u] = idx[u] /\ out'[u] = out[u]
        /\ finished'[u] = finished[u] /\ inputs'[u] = inputs[u] /\ held'[u] = held[u]

(* No buffer is taken back, no end of stream appears in a queue that t     *)
(* does not write, and nothing leaves one that t does not read.            *)
QueuesKeep(t) ==
    /\ \A q \in Queue : Own(q) \subseteq Own(q)'
    /\ \A q \in Queue : q \notin Range(In[t]) => got'[q] = got[q]
    /\ \A q \in Queue : q \notin Range(Out[t]) /\ ~ Closed(q) /\ EndOfStream \notin Range(full[q])
                            => ~ Closed(q)' /\ EndOfStream \notin Range(full'[q])

LEMMA OthersKeep ==
    ASSUME IInv, NEW t \in Task, OthersSame(t), QueuesKeep(t),
           NEW u \in Task, u # t
    PROVE  TaskInv(u)'
  <1>1. /\ pc'[u] = pc[u] /\ idx'[u] = idx[u] /\ out'[u] = out[u]
        /\ finished'[u] = finished[u] /\ inputs'[u] = inputs[u] /\ held'[u] = held[u]
    BY DEF OthersSame
  <1>2. TaskInv(u)
    BY DEF IInv
  <1>3. HoldsOutput(u)' = HoldsOutput(u) /\ AtOutput(u)' = AtOutput(u) /\ OutPos(u)' = OutPos(u)
    BY <1>1 DEF HoldsOutput, AtOutput, OutPos
  <1>4. Position(u)'
    <2>1. AtOutput(u)' => idx'[u] \in 1..NOutputs(u)
      BY <1>1, <1>2, <1>3 DEF TaskInv, Position
    <2>2. HoldsOutput(u)' => out'[u] \in Own(Out[u][OutPos(u)])'
      BY <1>1, <1>3, OutputFacts DEF QueuesKeep
    <2>3. pc'[u] \in PCs(Mode[u])
      BY <1>1, <1>2 DEF TaskInv, Position
    <2> QED BY <1>3, <2>1, <2>2, <2>3 DEF Position, OutPos
  <1>5. Owned(u)'
    <2>1. \A b \in held[u] : b[1] \in Range(In[u]) /\ b \in Own(b[1])
      BY <1>2 DEF TaskInv, Owned
    <2>2. \A b \in held'[u] : b[1] \in Range(In[u]) /\ b \in Own(b[1])'
      BY <1>1, <2>1, WiringFacts DEF QueuesKeep
    <2>3. \A i \in 1..NInputs(u) : inputs'[u][i] # NullBuffer => inputs'[u][i] \in Own(In[u][i])'
      BY <1>1, <1>2, WiringFacts DEF TaskInv, Owned, QueuesKeep
    <2> QED BY <2>2, <2>3 DEF Owned
  <1>6. Ends(u)'
    <2>1. ASSUME pc'[u] # "done", NEW q \in Range(Out[u])
          PROVE  ~ Closed(q)' /\ EndOfStream \notin Range(full'[q])
      <3>1. ~ Closed(q) /\ EndOfStream \notin Range(full[q])
        BY <1>1, <1>2, <2>1 DEF TaskInv, Ends
      <3>2. q \in Queue /\ q \notin Range(Out[t])
        BY WiringFacts
      <3> QED BY <3>1, <3>2 DEF QueuesKeep
    <2>2. ASSUME NEW i \in 1..NInputs(u) PROVE finished'[u][i] <=> Closed(In[u][i])'
      <3>1. In[u][i] \in Queue /\ In[u][i] \notin Range(In[t])
        BY WiringFacts
      <3>2. Closed(In[u][i])' <=> Closed(In[u][i])
        BY <3>1 DEF QueuesKeep, Closed
      <3> QED BY <1>1, <1>2, <3>2 DEF TaskInv, Ends
    <2> QED BY <2>1, <2>2 DEF Ends
  <1>7. Fetching(u)'
    <2>1. Fetched(u)' = Fetched(u)
      BY <1>1 DEF Fetched
    <2> QED BY <1>1, <1>2, <2>1 DEF TaskInv, Fetching
  <1> QED BY <1>4, <1>5, <1>6, <1>7 DEF TaskInv

(* All steps but pops only give: the output of t or the end of its stream  *)
(* goes to a queue it writes, an input that it held goes back.             *)
FullGives(t) ==
    /\ DOMAIN full' = Queue
    /\ \A q \in Queue :
          \/ full'[q] = full[q]
          \/ /\ full'[q] = Append(full[q], EndOfStream)
             /\ q \in Range(Out[t]) /\ pc'[t] = "done"
          \/ /\ full'[q] = Append(full[q], out[t])
             /\ HoldsOutput(t) /\ ~ HoldsOutput(t)' /\ out[t] \in Own(q)

FreeGives(t) ==
    /\ DOMAIN free' = Queue
    /\ held'[t] \subseteq held[t]
    /\ \A q \in Queue :
          \/ free'[q] = free[q]
          \/ \E b \in Own(q) : /\ free'[q] = Append(free[q], b)
                               /\ Closed(q) \/ b \in held[t] \ held'[t]

Gives(t) ==
    /\ UNCHANGED <<capacity, out, got>>
    /\ pc[t] # "done"
    /\ HoldsOutput(t)' => HoldsOutput(t)
    /\ FullGives(t) /\ FreeGives(t)

LEMMA GivesApart ==
    ASSUME IInv, NEW t \in Task, OthersSame(t), Gives(t)
    PROVE  Apart'
  <1>1. \A u \in Task : /\ held'[u] \subseteq held[u]
                        /\ HoldsOutput(u)' => HoldsOutput(u)
                        /\ out'[u] = out[u]
    BY DEF OthersSame, Gives, FullGives, FreeGives, HoldsOutput
  <1>2. \A u, v \in Task : HoldsOutput(u)' => out'[u] \notin held'[v]
    BY <1>1 DEF IInv, Apart
  <1>3. ASSUME NEW q \in Queue, ~ Closed(q)'
        PROVE  ApartFrom(q)'
    <2>1. ~ Closed(q) /\ ApartFrom(q)
      BY <1>3 DEF Gives, FullGives, FreeGives, Closed, IInv, Apart
    <2>2. /\ free[q] \in Seq(Own(q)) /\ full[q] \in Seq(Own(q) \cup {EndOfStream})
          /\ Own(q) \subseteq Buffer /\ EndOfStream \notin Buffer
          /\ EndOfStream \notin Range(free[q])
      <3>1. free[q] \in Seq(Own(q)) /\ full[q] \in Seq(Own(q) \cup {EndOfStream})
        BY DEF IInv, TypeInv, TypeQueues
      <3>2. Range(free[q]) \subseteq Own(q)
        BY <3>1, ElementOfSeq, LenProperties DEF Range
      <3> QED BY <3>1, <3>2, OwnFacts, FixedAssumption DEF IInv
    <2>3. PICK X : /\ Range(full'[q]) = Range(full[q]) \cup X
                   /\ IsInjective(full'[q])
                   /\ X \cap Range(full[q]) = {}
                   /\ \/ X \subseteq {EndOfStream}
                      \/ X = {out[t]} /\ HoldsOutput(t) /\ ~ HoldsOutput(t)'
      <3>1. CASE full'[q] = full[q]
        BY <2>1, <3>1 DEF ApartFrom
      <3>2. CASE /\ full'[q] = Append(full[q], EndOfStream)
                 /\ q \in Range(Out[t]) /\ pc'[t] = "done"
        <4>1. EndOfStream \notin Range(full[q])
          BY <3>2 DEF IInv, TaskInv, Ends, Gives, FullGives, FreeGives
        <4>2. /\ Range(full'[q]) = Range(full[q]) \cup {EndOfStream}
              /\ IsInjective(full'[q])
          BY <2>1, <2>2, <3>2, <4>1, AppendRange DEF ApartFrom
        <4> QED BY <4>1, <4>2
      <3>3. CASE /\ full'[q] = Append(full[q], out[t])
                 /\ HoldsOutput(t) /\ ~ HoldsOutput(t)' /\ out[t] \in Own(q)
        <4>1. out[t] \notin Range(full[q])
          BY <2>1, <3>3 DEF ApartFrom
        <4>2. /\ Range(full'[q]) = Range(full[q]) \cup {out[t]}
              /\ IsInjective(full'[q])
          BY <2>1, <2>2, <3>3, <4>1, AppendRange DEF ApartFrom
        <4> QED BY <3>3, <4>1, <4>2
      <3> QED BY <3>1, <3>2, <3>3 DEF Gives, FullGives, FreeGives
    <2>4. PICK F : /\ Range(free'[q]) = Range(free[q]) \cup F
                   /\ IsInjective(free'[q])
                   /\ F \subseteq held[t] \ held'[t]
      <3>1. CASE free'[q] = free[q]
        BY <2>1, <3>1 DEF ApartFrom
      <3>2. CASE \E b \in Own(q) : /\ free'[q] = Append(free[q], b)
                                   /\ Closed(q) \/ b \in held[t] \ held'[t]
        <4>1. PICK b \in Own(q) : /\ free'[q] = Append(free[q], b)
                                  /\ b \in held[t] \ held'[t]
          BY <2>1, <3>2
        <4>2. b \notin Range(free[q])
          BY <2>1, <4>1 DEF ApartFrom
        <4>3. Range(free'[q]) = Range(free[q]) \cup {b} /\ IsInjective(free'[q])
          BY <2>1, <2>2, <4>1, <4>2, AppendRange DEF ApartFrom
        <4> QED BY <4>1, <4>3
      <3> QED BY <3>1, <3>2 DEF Gives, FullGives, FreeGives
    <2>5. Range(free'[q]) \cap Range(full'[q]) = {}
      <3>1. Range(free[q]) \cap Range(full[q]) = {} /\ F \cap Range(full[q]) = {}
        BY <2>1, <2>4 DEF ApartFrom
      <3>2. Range(free[q]) \cap X = {}
        BY <2>1, <2>2, <2>3 DEF ApartFrom
      <3>3. F \cap X = {}
        <4>1. held[t] \subseteq Buffer /\ (HoldsOutput(t) => out[t] \notin held[t])
          BY HeldFacts DEF IInv, Apart
        <4> QED BY <2>2, <2>3, <2>4, <4>1
      <3> QED BY <2>3, <2>4, <3>1, <3>2, <3>3
    <2>6. ASSUME NEW u \in Task
          PROVE  held'[u] \cap (Range(free'[q]) \cup Range(full'[q])) = {}
      <3>1. held'[u] \cap F = {}
        BY <1>1, <2>4, HeldFacts
      <3>2. held'[u] \cap X = {}
        BY <1>1, <2>2, <2>3, HeldFacts DEF IInv, Apart
      <3> QED BY <1>1, <2>1, <2>3, <2>4, <3>1, <3>2 DEF ApartFrom
    <2>7. ASSUME NEW u \in Task, HoldsOutput(u)'
          PROVE  out'[u] \notin Range(free'[q]) \cup Range(full'[q])
      <3>1. HoldsOutput(u) /\ out'[u] = out[u]
        BY <1>1, <2>7
      <3>2. out[u] \notin F
        BY <2>4, <3>1 DEF IInv, Apart
      <3>3. out[u] \notin X
        <4>1. out[u] # EndOfStream
          BY <2>2, <3>1, HeldFacts
        <4>2. CASE X = {out[t]} /\ HoldsOutput(t) /\ ~ HoldsOutput(t)'
          BY <2>7, <3>1, <4>2, HeldFacts
        <4> QED BY <2>3, <4>1, <4>2
      <3> QED BY <2>1, <2>3, <2>4, <3>1, <3>2, <3>3 DEF ApartFrom
    <2> QED BY <2>3, <2>4, <2>5, <2>6, <2>7 DEF ApartFrom
  <1> QED BY <1>2, <1>3 DEF Apart

LEMMA GivesType ==
    ASSUME IInv, NEW t \in Task, Gives(t)
    PROVE  TypeQueues'
  <1>1. /\ \A q \in Queue : free[q] \in Seq(Own(q))
        /\ \A q \in Queue : full[q] \in Seq(Own(q) \cup {EndOfStream})
        /\ capacity' \in [Queue -> 0..Limit] /\ \A q \in Queue : Own(q)' = Own(q)
    BY DEF IInv, TypeInv, TypeQueues, Gives, FullGives, FreeGives, Own
  <1>2. ASSUME NEW q \in Queue PROVE free'[q] \in Seq(Own(q))
    <2>1. free[q] \in Seq(Own(q)) /\ (free'[q] = free[q] \/ \E b \in Own(q) : free'[q] = Append(free[q], b))
      BY <1>1 DEF Gives, FullGives, FreeGives
    <2> QED BY <2>1, AppendProperties, SMTT(30)
  <1>3. ASSUME NEW q \in Queue PROVE full'[q] \in Seq(Own(q) \cup {EndOfStream})
    <2>1. /\ full[q] \in Seq(Own(q) \cup {EndOfStream})
          /\ \/ full'[q] = full[q]
             \/ \E b \in Own(q) \cup {EndOfStream} : full'[q] = Append(full[q], b)
      BY <1>1 DEF Gives, FullGives, FreeGives
    <2> QED BY <2>1, AppendProperties
  <1> QED BY <1>1, <1>2, <1>3 DEF TypeQueues, Gives, FullGives, FreeGives

(* Such a step keeps the invariant if the thread ends up where it may be   *)
(* and has what it needs there.                                            *)
Arrives(t) ==
    /\ pc'[t] \in PCs(Mode[t])
    /\ AtOutput(t)' => idx'[t] \in 1..NOutputs(t)
    /\ HoldsOutput(t)' => OutPos(t)' = OutPos(t)
    /\ \A i \in Fetched(t)' : finished[t][i] \/ inputs[t][i] \in held'[t]

LEMMA GivesStep ==
    ASSUME IInv, NEW t \in Task, OthersSame(t), Gives(t), Arrives(t),
           UNCHANGED <<finished, inputs>>, TypeRest'
    PROVE  IInv'
  <1>1. Apart' /\ TypeQueues'
    BY GivesApart, GivesType
  <1>2. TypeInputs'
    BY DEF IInv, TypeInv, TypeInputs
  <1>3. \A q \in Queue : Own(q)' = Own(q) /\ Closed(q)' = Closed(q)
    BY DEF Gives, FullGives, FreeGives, Own, Closed
  <1>4. ASSUME NEW q \in Queue, EndOfStream \notin Range(full[q]), EndOfStream \in Range(full'[q])
        PROVE  q \in Range(Out[t]) /\ pc'[t] = "done"
    <2>1. full[q] \in Seq(Own(q) \cup {EndOfStream}) /\ EndOfStream \notin Own(q)
      BY OwnFacts DEF IInv, TypeInv, TypeQueues
    <2>2. CASE full'[q] = Append(full[q], out[t]) /\ out[t] \in Own(q)
      BY <1>4, <2>1, <2>2, AppendRange
    <2> QED BY <1>4, <2>2 DEF Gives, FullGives, FreeGives
  <1>5. QueuesKeep(t)
    BY <1>3, <1>4 DEF QueuesKeep, Gives, FullGives, FreeGives
  <1>6. \A u \in Task : u # t => TaskInv(u)'
    BY <1>5, OthersKeep
  <1>7. TaskInv(t)'
    <2>1. TaskInv(t)
      BY DEF IInv
    <2>2. Position(t)'
      <3>1. ASSUME HoldsOutput(t)' PROVE out'[t] \in Own(Out[t][OutPos(t)])'
        <4>1. HoldsOutput(t) /\ out'[t] = out[t] /\ OutPos(t)' = OutPos(t)
          BY <3>1 DEF Gives, FullGives, FreeGives, Arrives
        <4> QED BY <1>3, <4>1, OutputFacts
      <3> QED BY <3>1 DEF Position, Arrives
    <2>3. Owned(t)'
      <3>1. \A b \in held'[t] : b[1] \in Range(In[t]) /\ b \in Own(b[1])'
        BY <1>3, <2>1, WiringFacts DEF TaskInv, Owned, Gives, FullGives, FreeGives
      <3>2. \A i \in 1..NInputs(t) : inputs'[t][i] # NullBuffer => inputs'[t][i] \in Own(In[t][i])'
        BY <1>3, <2>1, WiringFacts DEF TaskInv, Owned
      <3> QED BY <3>1, <3>2 DEF Owned
    <2>4. Ends(t)'
      <3>1. ASSUME pc'[t] # "done", NEW q \in Range(Out[t])
            PROVE  ~ Closed(q)' /\ EndOfStream \notin Range(full'[q])
        <4>1. q \in Queue /\ ~ Closed(q) /\ EndOfStream \notin Range(full[q])
          BY <2>1, WiringFacts DEF TaskInv, Ends, Gives, FullGives, FreeGives
        <4> QED BY <1>3, <1>4, <3>1, <4>1
      <3>2. \A i \in 1..NInputs(t) : finished'[t][i] <=> Closed(In[t][i])'
        BY <1>3, <2>1, WiringFacts DEF TaskInv, Ends
      <3> QED BY <3>1, <3>2 DEF Ends
    <2>5. Fetching(t)'
      BY DEF Arrives, Fetching
    <2> QED BY <2>2, <2>3, <2>4, <2>5 DEF TaskInv
  <1> QED BY <1>1, <1>2, <1>6, <1>7 DEF IInv, TypeInv

----------------------------------------------------------------------------
(* What the operations give *)

(* The thread of t goes to `where', with its counter at k. *)
LEMMA ThreadMoves ==
    ASSUME IInv, NEW t \in Task, NEW where \in AllPCs, NEW k \in Nat \ {0},
           pc' = [pc EXCEPT ![t] = where], idx' = [idx EXCEPT ![t] = k]
    PROVE  /\ pc' \in [Task -> AllPCs] /\ pc'[t] = where
           /\ idx' \in [Task -> Nat \ {0}] /\ idx'[t] = k
           /\ \A u \in Task \ {t} : pc'[u] = pc[u] /\ idx'[u] = idx[u]
  BY DEF IInv, TypeInv, TypeRest

LEMMA GoToMoves ==
    ASSUME IInv, NEW t \in Task, NEW where \in AllPCs, GoTo(t, where)
    PROVE  /\ pc' \in [Task -> AllPCs] /\ pc'[t] = where
           /\ idx' \in [Task -> Nat \ {0}] /\ idx'[t] = 1
           /\ \A u \in Task \ {t} : pc'[u] = pc[u] /\ idx'[u] = idx[u]
  <1>1. pc' = [pc EXCEPT ![t] = where] /\ idx' = [idx EXCEPT ![t] = 1]
    BY DEF GoTo
  <1>2. 1 \in Nat \ {0}
    OBVIOUS
  <1> QED BY <1>1, <1>2, ThreadMoves

LEMMA LeaveGives ==
    ASSUME IInv, NEW t \in Task, Leave(t)
    PROVE  /\ FullGives(t)
           /\ sent' \in [Queue -> Seq(Nat \cup {EndOfStream})]
           /\ pc' \in [Task -> AllPCs] /\ pc'[t] = "done"
           /\ idx' \in [Task -> Nat \ {0}]
           /\ \A u \in Task \ {t} : pc'[u] = pc[u] /\ idx'[u] = idx[u]
           /\ UNCHANGED got
  <1>1. "done" \in AllPCs
    BY DEF AllPCs, PCs
  <1>2. /\ pc' \in [Task -> AllPCs] /\ pc'[t] = "done"
        /\ idx' \in [Task -> Nat \ {0}]
        /\ \A u \in Task \ {t} : pc'[u] = pc[u] /\ idx'[u] = idx[u]
    BY <1>1, GoToMoves DEF Leave
  <1>3. FullGives(t)
    BY <1>2 DEF FullGives, Leave
  <1>4. \A q \in Queue : sent[q] \in Seq(Nat \cup {EndOfStream})
    BY DEF IInv, TypeInv, TypeRest
  <1>5. \A q \in Queue : Append(sent[q], EndOfStream) \in Seq(Nat \cup {EndOfStream})
    BY <1>4, AppendProperties
  <1>6. sent' \in [Queue -> Seq(Nat \cup {EndOfStream})]
    BY <1>4, <1>5 DEF Leave
  <1> QED BY <1>2, <1>3, <1>6 DEF Leave

LEMMA PushGives ==
    ASSUME IInv, NEW t \in Task, NEW item \in Nat, PushItem(t, item),
           AtOutput(t), HoldsOutput(t), ~ HoldsOutput(t)'
    PROVE  /\ FullGives(t)
           /\ sent' \in [Queue -> Seq(Nat \cup {EndOfStream})]
           /\ data' \in [Buffer -> Nat]
           /\ UNCHANGED got
  <1> DEFINE q == OutQueue(t)
  <1>1. q \in Queue /\ out[t] \in Own(q) /\ out[t] \in Buffer
    BY OutputFacts, HeldFacts
  <1>2. /\ full' = [full EXCEPT ![q] = @ \o <<out[t]>>]
        /\ sent' = [sent EXCEPT ![q] = Append(@, item)]
        /\ data' = [data EXCEPT ![out[t]] = item]
        /\ UNCHANGED got
    BY DEF PushItem, ProducerPush
  <1> HIDE DEF q
  <1>3. full[q] \in Seq(Own(q) \cup {EndOfStream}) /\ DOMAIN full = Queue
    BY <1>1 DEF IInv, TypeInv, TypeQueues
  <1>4. full'[q] = Append(full[q], out[t]) /\ DOMAIN full' = Queue
    BY <1>1, <1>2, <1>3, AppendRange
  <1>5. FullGives(t)
    BY <1>1, <1>2, <1>3, <1>4 DEF FullGives
  <1>6. sent \in [Queue -> Seq(Nat \cup {EndOfStream})] /\ data \in [Buffer -> Nat]
    BY DEF IInv, TypeInv, TypeRest
  <1>7. Append(sent[q], item) \in Seq(Nat \cup {EndOfStream})
    BY <1>1, <1>6, AppendProperties
  <1>8. sent' \in [Queue -> Seq(Nat \cup {EndOfStream})] /\ data' \in [Buffer -> Nat]
    BY <1>1, <1>2, <1>6, <1>7
  <1> QED BY <1>2, <1>5, <1>8

LEMMA ReleaseGives ==
    ASSUME IInv, NEW t \in Task, ReleaseInputs(t),
           \A i \in 1..NInputs(t) : finished[t][i] \/ inputs[t][i] \in held[t]
    PROVE  /\ FreeGives(t)
           /\ held' \in [Task -> SUBSET Buffer]
           /\ \A u \in Task \ {t} : held'[u] = held[u]
  <1>1. held \in [Task -> SUBSET Buffer] /\ DOMAIN inputs[t] = 1..NInputs(t)
    BY DEF IInv, TypeInv, TypeRest, TypeInputs
  <1>2. held' = [held EXCEPT ![t] = @ \ Range(inputs[t])]
    BY DEF ReleaseInputs
  <1>3. /\ held' \in [Task -> SUBSET Buffer] /\ held'[t] = held[t] \ Range(inputs[t])
        /\ \A u \in Task \ {t} : held'[u] = held[u]
    BY <1>1, <1>2
  <1>4. ASSUME NEW q \in Queue, free'[q] # free[q]
        PROVE  \E b \in Own(q) : /\ free'[q] = Append(free[q], b)
                                 /\ Closed(q) \/ b \in held[t] \ held'[t]
    <2>1. q \in Released(t)
      BY <1>4 DEF ReleaseInputs
    <2>2. PICK i \in 1..NInputs(t) : q = In[t][i] /\ inputs[t][i] # NullBuffer
      BY <2>1 DEF Released
    <2>3. (CHOOSE j \in 1..NInputs(t) : In[t][j] = q) = i
      BY <2>2, WiringFacts
    <2>4. free'[q] = Append(free[q], inputs[t][i])
      BY <2>1, <2>3 DEF ReleaseInputs
    <2>5. inputs[t][i] \in Own(q) /\ (finished[t][i] <=> Closed(q))
      BY <2>2 DEF IInv, TaskInv, Owned, Ends
    <2>6. inputs[t][i] \in Range(inputs[t])
      BY <1>1 DEF Range
    <2> QED BY <1>3, <2>4, <2>5, <2>6
  <1>5. DOMAIN free' = Queue
    BY DEF ReleaseInputs
  <1> QED BY <1>3, <1>4, <1>5 DEF FreeGives

----------------------------------------------------------------------------
(* The actions *)

(* The modes, and which pcs each of them has. *)
LEMMA ModeFacts ==
    ASSUME IInv, NEW t \in Task
    PROVE  /\ Mode[t] \in {"generator", "processor", "sink", "reductor"}
           /\ pc[t] \in PCs(Mode[t]) /\ PCs(Mode[t]) \subseteq AllPCs
           /\ Mode[t] = "generator" => NInputs(t) = 0
           /\ Mode[t] # "sink" => NOutputs(t) >= 1
           /\ Mode[t] = "reductor" => NOutputs(t) = 1
           /\ NInputs(t) \in Nat /\ NOutputs(t) \in Nat
  <1>1. /\ Mode[t] \in {"generator", "processor", "sink", "reductor"}
        /\ Mode[t] = "generator" => NInputs(t) = 0
        /\ Mode[t] # "sink" => NOutputs(t) # 0
        /\ Mode[t] = "reductor" => NOutputs(t) = 1
    BY FixedAssumption
  <1>2. pc[t] \in PCs(Mode[t])
    BY DEF IInv, TaskInv, Position
  <1> QED BY <1>1, <1>2, WiringFacts DEF AllPCs

(* To move on to `done' asks for nothing. *)
LEMMA DoneArrives ==
    ASSUME IInv, NEW t \in Task, pc'[t] = "done"
    PROVE  Arrives(t) /\ ~ HoldsOutput(t)'
  <1>1. ~ AtOutput(t)' /\ ~ HoldsOutput(t)' /\ Fetched(t)' = {}
    BY DEF AtOutput, HoldsOutput, Fetched, Getting
  <1>2. pc'[t] \in PCs(Mode[t])
    BY ModeFacts DEF PCs
  <1> QED BY <1>1, <1>2 DEF Arrives

LEMMA NothingGiven ==
    ASSUME IInv, NEW t \in Task
    PROVE  /\ UNCHANGED <<free, held>> =>
                /\ FreeGives(t) /\ held' \in [Task -> SUBSET Buffer]
                /\ \A u \in Task \ {t} : held'[u] = held[u]
           /\ UNCHANGED full => FullGives(t)
  BY DEF IInv, TypeInv, TypeQueues, TypeRest, FreeGives, FullGives

(* A thread that leaves may release its inputs first. *)
LEMMA LeaveStep ==
    ASSUME IInv, NEW t \in Task, Leave(t), pc[t] # "done",
           UNCHANGED <<capacity, finished, inputs, out>>,
           FreeGives(t), held' \in [Task -> SUBSET Buffer],
           \A u \in Task \ {t} : held'[u] = held[u],
           count' \in [Task -> Nat], data' \in [Buffer -> Nat]
    PROVE  IInv'
  <1>1. /\ FullGives(t)
        /\ sent' \in [Queue -> Seq(Nat \cup {EndOfStream})]
        /\ pc' \in [Task -> AllPCs] /\ pc'[t] = "done"
        /\ idx' \in [Task -> Nat \ {0}]
        /\ \A u \in Task \ {t} : pc'[u] = pc[u] /\ idx'[u] = idx[u]
        /\ UNCHANGED got
    BY LeaveGives
  <1>2. Arrives(t) /\ ~ HoldsOutput(t)'
    BY <1>1, DoneArrives
  <1>3. OthersSame(t)
    BY <1>1 DEF OthersSame
  <1>4. TypeRest'
    BY <1>1 DEF IInv, TypeInv, TypeRest
  <1>5. Gives(t)
    BY <1>1, <1>2 DEF Gives
  <1> QED BY <1>2, <1>3, <1>4, <1>5, GivesStep

LEMMA NextOutputMoves ==
    ASSUME IInv, NEW t \in Task, AtOutput(t), NextOutput(t)
    PROVE  /\ pc' \in [Task -> AllPCs] /\ pc'[t] = "popout"
           /\ idx' \in [Task -> Nat \ {0}] /\ idx'[t] \in 1..NOutputs(t)
           /\ \A u \in Task \ {t} : pc'[u] = pc[u] /\ idx'[u] = idx[u]
  <1> DEFINE k == IF LastOutput(t) THEN 1 ELSE idx[t] + 1
  <1>1. idx[t] \in 1..NOutputs(t) /\ NOutputs(t) \in Nat
    BY ModeFacts DEF IInv, TaskInv, Position
  <1>2. k \in 1..NOutputs(t) /\ k \in Nat \ {0}
    BY <1>1 DEF LastOutput
  <1>3. pc' = [pc EXCEPT ![t] = "popout"] /\ idx' = [idx EXCEPT ![t] = k]
    BY DEF NextOutput
  <1> HIDE DEF k
  <1>4. "popout" \in AllPCs
    BY DEF AllPCs, PCs
  <1> QED BY <1>2, <1>3, <1>4, ThreadMoves

(* A buffer that is not pushed may have been filled. *)
FillsOwn(t) == data' = data \/ \E v \in Nat : data' = [data EXCEPT ![out[t]] = v]

LEMMA FillsOwnType ==
    ASSUME IInv, NEW t \in Task, FillsOwn(t)
    PROVE  data' \in [Buffer -> Nat]
  BY DEF FillsOwn, IInv, TypeInv, TypeRest

LEMMA NoMoreFacts ==
    ASSUME IInv, NEW t \in Task, NoMore(t)
    PROVE  FillsOwn(t) /\ count' \in [Task -> Nat] /\ data' \in [Buffer -> Nat]
  <1>1. count \in [Task -> Nat] /\ count[t] + 1 \in Nat
    BY DEF IInv, TypeInv, TypeRest
  <1>2. FillsOwn(t) /\ count' \in [Task -> Nat]
    BY <1>1 DEF NoMore, FillsOwn
  <1> QED BY <1>2, FillsOwnType

LEMMA GenerateStep ==
    ASSUME IInv, NEW t \in Task, Generate(t)
    PROVE  IInv'
  <1>1. Mode[t] = "generator" /\ pc[t] = "generate" /\ NInputs(t) = 0
    BY ModeFacts DEF Generate, PCs
  <1>2. /\ UNCHANGED <<free, capacity, finished, inputs, out, held>>
        /\ FreeGives(t) /\ TypeRest
    BY NothingGiven DEF Generate, IInv, TypeInv
  <1>3. AtOutput(t) /\ HoldsOutput(t)
    BY <1>1 DEF AtOutput, HoldsOutput
  <1>4. CASE /\ count' = [count EXCEPT ![t] = @ + 1]
             /\ PushItem(t, count[t] + 1)
             /\ NextOutput(t)
    <2>1. /\ pc' \in [Task -> AllPCs] /\ pc'[t] = "popout"
          /\ idx' \in [Task -> Nat \ {0}] /\ idx'[t] \in 1..NOutputs(t)
          /\ \A u \in Task \ {t} : pc'[u] = pc[u] /\ idx'[u] = idx[u]
      BY <1>3, <1>4, NextOutputMoves
    <2>2. ~ HoldsOutput(t)'
      BY <2>1 DEF HoldsOutput
    <2>3. count[t] + 1 \in Nat /\ count' \in [Task -> Nat]
      BY <1>2, <1>4 DEF TypeRest
    <2>4. /\ FullGives(t)
          /\ sent' \in [Queue -> Seq(Nat \cup {EndOfStream})]
          /\ data' \in [Buffer -> Nat]
          /\ UNCHANGED got
      BY <1>3, <1>4, <2>2, <2>3, PushGives
    <2>5. OthersSame(t)
      BY <1>2, <2>1 DEF OthersSame
    <2>6. TypeRest'
      BY <1>2, <2>1, <2>3, <2>4 DEF TypeRest
    <2>7. Gives(t)
      BY <1>1, <1>2, <1>3, <2>4 DEF Gives
    <2>8. Arrives(t)
      <3>1. Fetched(t)' = {}
        BY <1>1, <2>1 DEF Fetched, Getting
      <3>2. pc'[t] \in PCs(Mode[t])
        BY <1>1, <2>1 DEF PCs
      <3> QED BY <2>1, <2>2, <3>1, <3>2 DEF Arrives
    <2> QED BY <1>2, <2>5, <2>6, <2>7, <2>8, GivesStep
  <1>5. CASE NoMore(t) /\ Leave(t)
    BY <1>1, <1>2, <1>5, NothingGiven, NoMoreFacts, LeaveStep DEF TypeRest
  <1> QED BY <1>4, <1>5 DEF Generate

LEMMA FailGeneratorStep ==
    ASSUME IInv, NEW t \in Task, FailGenerator(t)
    PROVE  IInv'
  <1>1. /\ Leave(t) /\ pc[t] # "done"
        /\ UNCHANGED <<free, capacity, finished, inputs, out, count, data, held>>
    BY DEF FailGenerator
  <1> QED BY <1>1, NothingGiven, LeaveStep DEF IInv, TypeInv, TypeRest

LEMMA SameCounts ==
    ASSUME IInv, UNCHANGED <<count, data>>
    PROVE  count' \in [Task -> Nat] /\ data' \in [Buffer -> Nat]
  BY DEF IInv, TypeInv, TypeRest

(* Steps that only move the thread. *)
LEMMA MoveStep ==
    ASSUME IInv, NEW t \in Task, NEW where \in PCs(Mode[t]), GoTo(t, where), pc[t] # "done",
           UNCHANGED <<queueVars, finished, inputs, out, held, streams>>,
           count' \in [Task -> Nat], data' \in [Buffer -> Nat],
           pc'[t] = where => (AtOutput(t)' => Mode[t] # "sink"),
           pc'[t] = where => (HoldsOutput(t)' => HoldsOutput(t) /\ Mode[t] = "reductor"),
           \A i \in Fetched(t)' : finished[t][i] \/ inputs[t][i] \in held[t]
    PROVE  IInv'
  <1>1. where \in AllPCs
    BY ModeFacts
  <1>2. /\ pc' \in [Task -> AllPCs] /\ pc'[t] = where
        /\ idx' \in [Task -> Nat \ {0}] /\ idx'[t] = 1
        /\ \A u \in Task \ {t} : pc'[u] = pc[u] /\ idx'[u] = idx[u]
    BY <1>1, GoToMoves
  <1>3. UNCHANGED <<free, full, capacity, finished, inputs, out, held, sent, got>>
    BY DEF queueVars, streams
  <1>4. OthersSame(t)
    BY <1>2, <1>3 DEF OthersSame
  <1>5. TypeRest'
    BY <1>2, <1>3 DEF IInv, TypeInv, TypeRest
  <1>6. Gives(t)
    BY <1>2, <1>3, NothingGiven DEF Gives
  <1>7. Arrives(t)
    BY <1>2, <1>3, ModeFacts DEF Arrives, OutPos
  <1> QED BY <1>3, <1>4, <1>5, <1>6, <1>7, GivesStep

(* A task works with all the inputs of a round. *)
AllThere(t) == \A i \in 1..NInputs(t) : finished[t][i] \/ inputs[t][i] \in held[t]

LEMMA GotAll ==
    ASSUME IInv, NEW t \in Task,
           \/ pc[t] \in Getting /\ Pending(t) = {}
           \/ pc[t] \notin Getting /\ pc[t] # "done"
    PROVE  AllThere(t)
  <1>1. Fetching(t) /\ idx[t] \in Nat \ {0} /\ NInputs(t) \in Nat
    BY WiringFacts DEF IInv, TaskInv, TypeInv, TypeRest
  <1>2. CASE pc[t] \in Getting /\ Pending(t) = {}
    <2>1. \A i \in 1..NInputs(t) : finished[t][i] \/ i < idx[t]
      BY <1>1, <1>2 DEF Pending
    <2>2. Fetched(t) = {i \in 1..NInputs(t) : i < idx[t]}
      BY <1>2 DEF Fetched, Getting
    <2> QED BY <1>1, <2>1, <2>2 DEF Fetching, AllThere
  <1>3. CASE pc[t] \notin Getting /\ pc[t] # "done"
    <2>1. Fetched(t) = 1..NInputs(t)
      BY <1>3 DEF Fetched
    <2> QED BY <1>1, <2>1 DEF Fetching, AllThere
  <1> QED BY <1>2, <1>3

(* At the beginning of a round nothing has been fetched. *)
LEMMA NewRound ==
    ASSUME NEW t \in Task, pc'[t] \in Getting, idx'[t] = 1
    PROVE  Fetched(t)' = {}
  BY DEF Fetched

LEMMA GetRoundStep ==
    ASSUME IInv, NEW t \in Task, GetRound(t)
    PROVE  IInv'
  <1>1. /\ pc[t] = "get" /\ AllThere(t) /\ pc[t] # "done"
        /\ UNCHANGED <<free, capacity, finished, inputs, out, count, data, held>>
    BY GotAll DEF GetRound, GotInputs, Getting
  <1>2. CASE Leave(t)
    BY <1>1, <1>2, NothingGiven, LeaveStep DEF IInv, TypeInv, TypeRest
  <1>3. CASE GoTo(t, IF Mode[t] = "sink" THEN "process" ELSE "popout") /\ UNCHANGED <<full, streams>>
    <2> DEFINE where == IF Mode[t] = "sink" THEN "process" ELSE "popout"
    <2>1. where \in PCs(Mode[t])
      BY <1>1, ModeFacts DEF PCs
    <2>2. pc'[t] = where => (AtOutput(t)' /\ Mode[t] # "sink") \/ ~ AtOutput(t)'
      BY DEF AtOutput
    <2>3. pc'[t] = where => ~ HoldsOutput(t)'
      BY DEF HoldsOutput
    <2> HIDE DEF where
    <2>4. \A i \in Fetched(t)' : i \in 1..NInputs(t)
      BY DEF Fetched
    <2>5. UNCHANGED <<queueVars, finished, inputs, out, count, data, held, streams>>
      BY <1>1, <1>3 DEF queueVars
    <2>6. GoTo(t, where)
      BY <1>3 DEF where
    <2> QED BY <1>1, <2>1, <2>2, <2>3, <2>4, <2>5, <2>6, SameCounts, MoveStep DEF AllThere
  <1> QED BY <1>2, <1>3 DEF GetRound

LEMMA FailStep ==
    ASSUME IInv, NEW t \in Task, Fail(t)
    PROVE  IInv'
  <1>1. /\ pc[t] \in {"get", "first"} /\ GoTo(t, "flush")
        /\ UNCHANGED <<queueVars, finished, inputs, out, count, data, held, streams>>
    BY DEF Fail, GotInputs
  <1>2. "flush" \in PCs(Mode[t])
    BY <1>1, ModeFacts DEF PCs
  <1>3. pc'[t] = "flush" => ~ AtOutput(t)' /\ ~ HoldsOutput(t)'
    BY DEF AtOutput, HoldsOutput
  <1>4. pc'[t] = "flush" /\ idx'[t] = 1
    BY <1>1, <1>2, ModeFacts, GoToMoves
  <1>5. Fetched(t)' = {}
    BY <1>4, NewRound DEF Getting
  <1> QED BY <1>1, <1>2, <1>3, <1>5, SameCounts, MoveStep

LEMMA FirstRoundStep ==
    ASSUME IInv, NEW t \in Task, FirstRound(t)
    PROVE  IInv'
  <1> DEFINE where == IF AllFinished(t) THEN "done" ELSE "popout"
  <1>1. /\ pc[t] = "first" /\ AllThere(t) /\ GoTo(t, where)
        /\ UNCHANGED <<queueVars, finished, inputs, out, count, data, held, streams>>
    BY GotAll DEF FirstRound, GotInputs, Getting
  <1>2. Mode[t] = "reductor" /\ where \in PCs(Mode[t])
    BY <1>1, ModeFacts DEF PCs
  <1>3. pc'[t] = where => ~ HoldsOutput(t)'
    BY DEF HoldsOutput
  <1>4. \A i \in Fetched(t)' : i \in 1..NInputs(t)
    BY DEF Fetched
  <1> HIDE DEF where
  <1> QED BY <1>1, <1>2, <1>3, <1>4, SameCounts, MoveStep DEF AllThere

LEMMA RegetStep ==
    ASSUME IInv, NEW t \in Task, Reget(t)
    PROVE  IInv'
  <1> DEFINE where == IF go[t] /\ ~ AllFinished(t) /\ ~ aborted THEN "reduce" ELSE "regenerate"
  <1>1. /\ pc[t] = "reget" /\ AllThere(t) /\ GoTo(t, where)
        /\ UNCHANGED <<queueVars, finished, inputs, out, count, data, held, streams>>
    BY GotAll DEF Reget, GotInputs, Getting
  <1>2. Mode[t] = "reductor" /\ where \in PCs(Mode[t])
    BY <1>1, ModeFacts DEF PCs
  <1>3. HoldsOutput(t)
    BY <1>1, <1>2 DEF HoldsOutput
  <1>4. \A i \in Fetched(t)' : i \in 1..NInputs(t)
    BY DEF Fetched
  <1> HIDE DEF where
  <1> QED BY <1>1, <1>2, <1>3, <1>4, SameCounts, MoveStep DEF AllThere

(* Steps that give inputs back and begin the next round. *)
LEMMA ReleaseStep ==
    ASSUME IInv, NEW t \in Task, NEW where \in PCs(Mode[t]), where \in Getting,
           GoTo(t, where), ReleaseInputs(t), AllThere(t), pc[t] # "done",
           FullGives(t), UNCHANGED <<capacity, finished, inputs, out, count, got>>,
           data' \in [Buffer -> Nat], sent' \in [Queue -> Seq(Nat \cup {EndOfStream})],
           where = "reget" => HoldsOutput(t) /\ Mode[t] = "reductor"
    PROVE  IInv'
  <1>1. where \in AllPCs
    BY ModeFacts
  <1>2. /\ pc' \in [Task -> AllPCs] /\ pc'[t] = where
        /\ idx' \in [Task -> Nat \ {0}] /\ idx'[t] = 1
        /\ \A u \in Task \ {t} : pc'[u] = pc[u] /\ idx'[u] = idx[u]
    BY <1>1, GoToMoves
  <1>3. /\ FreeGives(t)
        /\ held' \in [Task -> SUBSET Buffer]
        /\ \A u \in Task \ {t} : held'[u] = held[u]
    BY ReleaseGives DEF AllThere
  <1>4. OthersSame(t)
    BY <1>2, <1>3 DEF OthersSame
  <1>5. TypeRest'
    BY <1>2, <1>3 DEF IInv, TypeInv, TypeRest
  <1>6. HoldsOutput(t)' => HoldsOutput(t) /\ Mode[t] = "reductor"
    BY <1>2 DEF HoldsOutput, Getting
  <1>7. ~ AtOutput(t)' /\ Fetched(t)' = {}
    BY <1>2, NewRound DEF AtOutput, Getting
  <1>8. Gives(t)
    BY <1>3, <1>6 DEF Gives
  <1>9. Arrives(t)
    BY <1>2, <1>6, <1>7 DEF Arrives, OutPos
  <1> QED BY <1>4, <1>5, <1>8, <1>9, GivesStep

LEMMA ProcessSinkStep ==
    ASSUME IInv, NEW t \in Task, ProcessSink(t)
    PROVE  IInv'
  <1>1. /\ pc[t] = "process" /\ Mode[t] = "sink" /\ AllThere(t) /\ ReleaseInputs(t)
        /\ UNCHANGED <<full, capacity, finished, inputs, out, count, data, sent, got>>
    BY GotAll DEF ProcessSink, Getting, streams
  <1>2. /\ FullGives(t) /\ data' \in [Buffer -> Nat] /\ count' \in [Task -> Nat]
        /\ sent' \in [Queue -> Seq(Nat \cup {EndOfStream})]
    BY <1>1, NothingGiven DEF IInv, TypeInv, TypeRest
  <1>3. CASE GoTo(t, "get")
    <2>1. "get" \in PCs(Mode[t]) /\ "get" \in Getting
      BY <1>1 DEF PCs, Getting
    <2> QED BY <1>1, <1>2, <1>3, <2>1, ReleaseStep
  <1>4. CASE GoTo(t, "done")
    <2>1. /\ FreeGives(t)
          /\ held' \in [Task -> SUBSET Buffer]
          /\ \A u \in Task \ {t} : held'[u] = held[u]
      BY <1>1, ReleaseGives DEF AllThere
    <2>2. /\ pc' \in [Task -> AllPCs] /\ pc'[t] = "done"
          /\ idx' \in [Task -> Nat \ {0}]
          /\ \A u \in Task \ {t} : pc'[u] = pc[u] /\ idx'[u] = idx[u]
      <3>1. "done" \in AllPCs
        BY DEF AllPCs, PCs
      <3> QED BY <1>4, <3>1, GoToMoves
    <2>3. OthersSame(t)
      BY <1>1, <2>1, <2>2 DEF OthersSame
    <2>4. TypeRest'
      BY <1>1, <1>2, <2>1, <2>2 DEF IInv, TypeInv, TypeRest
    <2>5. Arrives(t) /\ ~ HoldsOutput(t)'
      BY <2>2, DoneArrives
    <2>6. Gives(t)
      BY <1>1, <1>2, <2>1, <2>5 DEF Gives
    <2> QED BY <1>1, <2>3, <2>4, <2>5, <2>6, GivesStep
  <1> QED BY <1>3, <1>4 DEF ProcessSink

LEMMA FlushStep ==
    ASSUME IInv, NEW t \in Task, Flush(t)
    PROVE  IInv'
  <1>1. /\ pc[t] = "flush" /\ AllThere(t)
        /\ UNCHANGED <<capacity, finished, inputs, out, count, data>>
    BY GotAll DEF Flush, GotInputs, Getting
  <1>2. data' \in [Buffer -> Nat] /\ count' \in [Task -> Nat]
    BY <1>1 DEF IInv, TypeInv, TypeRest
  <1>3. CASE Leave(t) /\ UNCHANGED <<free, held>>
    BY <1>1, <1>2, <1>3, NothingGiven, LeaveStep
  <1>4. CASE ReleaseInputs(t) /\ GoTo(t, "flush") /\ UNCHANGED <<full, streams>>
    <2>1. FullGives(t) /\ sent' \in [Queue -> Seq(Nat \cup {EndOfStream})] /\ UNCHANGED got
      BY <1>4, NothingGiven DEF IInv, TypeInv, TypeRest, streams
    <2>2. "flush" \in PCs(Mode[t]) /\ "flush" \in Getting
      BY <1>1, ModeFacts DEF Getting
    <2> QED BY <1>1, <1>2, <1>4, <2>1, <2>2, ReleaseStep
  <1> QED BY <1>3, <1>4 DEF Flush

LEMMA ReduceStep ==
    ASSUME IInv, NEW t \in Task, Reduce(t)
    PROVE  IInv'
  <1>1. /\ pc[t] = "reduce" /\ AllThere(t) /\ ReleaseInputs(t) /\ GoTo(t, "reget")
        /\ FillsOwn(t)
        /\ UNCHANGED <<full, capacity, finished, inputs, out, count, sent, got>>
    BY GotAll DEF Reduce, Getting, streams, Accumulate, FillsOwn
  <1>2. Mode[t] = "reductor" /\ HoldsOutput(t)
    BY <1>1, ModeFacts DEF PCs, HoldsOutput
  <1>3. "reget" \in PCs(Mode[t]) /\ "reget" \in Getting
    BY <1>2 DEF PCs, Getting
  <1>4. /\ FullGives(t) /\ data' \in [Buffer -> Nat]
        /\ sent' \in [Queue -> Seq(Nat \cup {EndOfStream})]
    BY <1>1, NothingGiven, FillsOwnType DEF IInv, TypeInv, TypeRest
  <1> QED BY <1>1, <1>2, <1>3, <1>4, ReleaseStep

LEMMA ValueType ==
    ASSUME IInv, NEW b PROVE Value(b) \in Nat
  BY DEF IInv, TypeInv, TypeRest, Value

LEMMA ProcessStep ==
    ASSUME IInv, NEW t \in Task, Process(t)
    PROVE  IInv'
  <1>1. /\ pc[t] = "process" /\ Mode[t] = "processor" /\ AllThere(t)
        /\ UNCHANGED <<capacity, finished, inputs, out, count>>
    BY GotAll DEF Process, Getting
  <1>2. AtOutput(t) /\ HoldsOutput(t) /\ Value(inputs[t][1]) \in Nat
    BY <1>1, ValueType DEF AtOutput, HoldsOutput
  <1>3. TypeRest /\ count' \in [Task -> Nat]
    BY <1>1 DEF IInv, TypeInv, TypeRest
  <1>4. CASE PushItem(t, Value(inputs[t][1])) /\ LastOutput(t) /\ GoTo(t, "get") /\ ReleaseInputs(t)
    <2>1. "get" \in PCs(Mode[t]) /\ "get" \in Getting /\ "get" \in AllPCs
      BY <1>1 DEF PCs, AllPCs, Getting
    <2>2. ~ HoldsOutput(t)'
      <3>1. pc'[t] = "get"
        BY <1>4, <2>1, GoToMoves
      <3> QED BY <3>1 DEF HoldsOutput
    <2>3. /\ FullGives(t)
          /\ sent' \in [Queue -> Seq(Nat \cup {EndOfStream})]
          /\ data' \in [Buffer -> Nat]
          /\ UNCHANGED got
      BY <1>2, <1>4, <2>2, PushGives
    <2> QED BY <1>1, <1>4, <2>1, <2>3, ReleaseStep
  <1>5. CASE PushItem(t, Value(inputs[t][1])) /\ NextOutput(t) /\ UNCHANGED <<free, held>>
    <2>1. /\ pc' \in [Task -> AllPCs] /\ pc'[t] = "popout"
          /\ idx' \in [Task -> Nat \ {0}] /\ idx'[t] \in 1..NOutputs(t)
          /\ \A u \in Task \ {t} : pc'[u] = pc[u] /\ idx'[u] = idx[u]
      BY <1>2, <1>5, NextOutputMoves
    <2>2. ~ HoldsOutput(t)'
      BY <2>1 DEF HoldsOutput
    <2>3. /\ FullGives(t)
          /\ sent' \in [Queue -> Seq(Nat \cup {EndOfStream})]
          /\ data' \in [Buffer -> Nat]
          /\ UNCHANGED got
      BY <1>2, <1>5, <2>2, PushGives
    <2>4. OthersSame(t)
      BY <1>1, <1>5, <2>1 DEF OthersSame
    <2>5. TypeRest'
      BY <1>1, <1>3, <1>5, <2>1, <2>3 DEF TypeRest
    <2>6. Gives(t)
      BY <1>1, <1>2, <1>5, <2>3, NothingGiven DEF Gives
    <2>7. Arrives(t)
      <3>1. pc'[t] \in PCs(Mode[t])
        BY <1>1, <2>1 DEF PCs
      <3>2. \A i \in Fetched(t)' : i \in 1..NInputs(t)
        BY DEF Fetched
      <3> QED BY <1>1, <1>5, <2>1, <2>2, <3>1, <3>2 DEF Arrives, AllThere
    <2> QED BY <1>1, <2>4, <2>5, <2>6, <2>7, GivesStep
  <1>6. CASE /\ data' = [data EXCEPT ![out[t]] = Value(inputs[t][1])]
             /\ ReleaseInputs(t)
             /\ Leave(t)
    <2>1. /\ FreeGives(t)
          /\ held' \in [Task -> SUBSET Buffer]
          /\ \A u \in Task \ {t} : held'[u] = held[u]
      BY <1>1, <1>6, ReleaseGives DEF AllThere
    <2>2. data' \in [Buffer -> Nat]
      BY <1>2, <1>3, <1>6 DEF TypeRest
    <2> QED BY <1>1, <1>3, <1>6, <2>1, <2>2, LeaveStep
  <1> QED BY <1>4, <1>5, <1>6 DEF Process, AfterOutput

LEMMA RegenerateStep ==
    ASSUME IInv, NEW t \in Task, Regenerate(t)
    PROVE  IInv'
  <1>1. /\ pc[t] = "regenerate" /\ AllThere(t)
        /\ UNCHANGED <<free, capacity, finished, inputs, out, held>>
    BY GotAll DEF Regenerate, Getting
  <1>2. Mode[t] = "reductor" /\ NOutputs(t) = 1 /\ AtOutput(t) /\ HoldsOutput(t)
    BY <1>1, ModeFacts DEF PCs, AtOutput, HoldsOutput
  <1>3. TypeRest /\ FreeGives(t)
    BY <1>1, NothingGiven DEF IInv, TypeInv
  <1>4. CASE /\ count' = [count EXCEPT ![t] = @ + 1]
             /\ PushItem(t, count[t] + 1)
             /\ GoTo(t, "repopout")
    <2>1. "repopout" \in PCs(Mode[t]) /\ "repopout" \in AllPCs
      BY <1>2, ModeFacts DEF PCs
    <2>2. /\ pc' \in [Task -> AllPCs] /\ pc'[t] = "repopout"
          /\ idx' \in [Task -> Nat \ {0}] /\ idx'[t] = 1
          /\ \A u \in Task \ {t} : pc'[u] = pc[u] /\ idx'[u] = idx[u]
      BY <1>4, <2>1, GoToMoves
    <2>3. ~ HoldsOutput(t)'
      BY <2>2 DEF HoldsOutput
    <2>4. count[t] + 1 \in Nat /\ count' \in [Task -> Nat]
      BY <1>3, <1>4 DEF TypeRest
    <2>5. /\ FullGives(t)
          /\ sent' \in [Queue -> Seq(Nat \cup {EndOfStream})]
          /\ data' \in [Buffer -> Nat]
          /\ UNCHANGED got
      BY <1>2, <1>4, <2>3, <2>4, PushGives
    <2>6. OthersSame(t)
      BY <1>1, <2>2 DEF OthersSame
    <2>7. TypeRest'
      BY <1>1, <1>3, <2>2, <2>4, <2>5 DEF TypeRest
    <2>8. Gives(t)
      BY <1>1, <1>2, <1>3, <2>5 DEF Gives
    <2>9. Arrives(t)
      <3>1. \A i \in Fetched(t)' : i \in 1..NInputs(t)
        BY DEF Fetched
      <3> QED BY <1>1, <1>2, <2>1, <2>2, <2>3, <3>1 DEF Arrives, AllThere
    <2> QED BY <1>1, <2>6, <2>7, <2>8, <2>9, GivesStep
  <1>5. CASE NoMore(t) /\ Leave(t)
    BY <1>1, <1>3, <1>5, NothingGiven, NoMoreFacts, LeaveStep DEF TypeRest
  <1>6. CASE NoMore(t) /\ GoTo(t, "reduce") /\ UNCHANGED <<full, streams>>
    <2>1. "reduce" \in PCs(Mode[t])
      BY <1>2 DEF PCs
    <2>2. \A i \in Fetched(t)' : i \in 1..NInputs(t)
      BY DEF Fetched
    <2>3. UNCHANGED <<queueVars, finished, inputs, out, held, streams>>
      BY <1>1, <1>6 DEF queueVars
    <2> QED BY <1>1, <1>2, <1>6, <2>1, <2>2, <2>3, NoMoreFacts, MoveStep DEF AllThere
  <1> QED BY <1>4, <1>5, <1>6 DEF Regenerate

(* What the producer queue holds right before a pop: nothing that is in    *)
(* use.                                                                    *)
LEMMA GrownFacts ==
    ASSUME IInv, NEW q \in Queue, NEW lim \in 0..Limit, ~ Closed(q),
           ProducerPop(q, lim)
    PROVE  /\ capacity' \in [Queue -> 0..Limit]
           /\ \A r \in Queue : Own(r) \subseteq Own(r)'
           /\ \A r \in Queue : r # q => Own(r)' = Own(r) /\ free'[r] = free[r]
           /\ DOMAIN free' = Queue
           /\ Head(Grown(q, lim)) \in Own(q)' /\ free'[q] \in Seq(Own(q)')
           /\ IsInjective(free'[q]) /\ Head(Grown(q, lim)) \notin Range(free'[q])
           /\ \A x \in Range(free'[q]) \cup {Head(Grown(q, lim))} :
                 x \in Range(free[q]) \/ x \in Own(q)' \ Own(q)
  <1> DEFINE G == Grown(q, lim)
             new == <<q, capacity[q] + 1>>
  <1>1. /\ G # <<>>
        /\ free' = [free EXCEPT ![q] = Tail(G)]
        /\ capacity' = [capacity EXCEPT ![q] = IF @ < lim THEN @ + 1 ELSE @]
    BY DEF ProducerPop
  <1>2. /\ capacity \in [Queue -> 0..Limit] /\ DOMAIN free = Queue
        /\ free[q] \in Seq(Own(q)) /\ IsInjective(free[q])
    BY DEF IInv, TypeInv, TypeQueues, Apart, ApartFrom
  <1>3. /\ capacity' \in [Queue -> 0..Limit]
        /\ capacity[q] < lim => capacity'[q] = capacity[q] + 1
        /\ capacity'[q] >= capacity[q]
        /\ \A r \in Queue : r # q => capacity'[r] = capacity[r]
    BY <1>1, <1>2 DEF Limit
  <1>4. /\ Own(q) \subseteq Own(q)'
        /\ \A r \in Queue : r # q => Own(r)' = Own(r)
    BY <1>2, <1>3 DEF Own, Limit
  <1>5. /\ G \in Seq(Own(q)') /\ IsInjective(G)
        /\ \A x \in Range(G) : x \in Range(free[q]) \/ x \in Own(q)' \ Own(q)
    <2>1. free[q] \in Seq(Own(q)')
      BY <1>2, <1>4, SeqMono
    <2>2. CASE capacity[q] < lim
      <3>1. G = Append(free[q], new)
        BY <2>2 DEF Grown
      <3>2. new \in Own(q)' /\ new \notin Own(q)
        BY <1>2, <1>3, <2>2 DEF Own, Limit
      <3>3. Range(free[q]) \subseteq Own(q)
        BY <1>2, ElementOfSeq, LenProperties DEF Range
      <3> HIDE DEF new, G
      <3>4. /\ G \in Seq(Own(q)') /\ Range(G) = Range(free[q]) \cup {new}
            /\ IsInjective(G)
        BY <1>2, <2>1, <3>1, <3>2, <3>3, AppendRange
      <3> QED BY <3>2, <3>4
    <2>3. CASE ~ (capacity[q] < lim)
      <3>1. G = free[q]
        BY <2>3 DEF Grown
      <3> QED BY <1>2, <2>1, <3>1
    <2> QED BY <2>2, <2>3
  <1> HIDE DEF G
  <1>6. /\ Tail(G) \in Seq(Own(q)') /\ Head(G) \in Own(q)'
        /\ Range(G) = Range(Tail(G)) \cup {Head(G)}
        /\ IsInjective(Tail(G)) /\ Head(G) \notin Range(Tail(G))
    BY <1>1, <1>5, TailRange
  <1>7. /\ free'[q] = Tail(G) /\ DOMAIN free' = Queue
        /\ \A r \in Queue : r # q => free'[r] = free[r]
    BY <1>1, <1>2
  <1>8. \A r \in Queue : Own(r) \subseteq Own(r)'
    BY <1>4
  <1> QED BY <1>3, <1>4, <1>5, <1>6, <1>7, <1>8 DEF G

(* Where PopOut goes. *)
Filling(t) == IF pc[t] = "repopout" THEN "regenerate"
              ELSE CASE Mode[t] = "generator"  -> "generate"
                     [] Mode[t] = "reductor"   -> "reduce"
                     [] OTHER                  -> "process"

LEMMA PopOutStep ==
    ASSUME IInv, NEW t \in Task, PopOut(t)
    PROVE  IInv'
  <1>1. PICK q, b, where :
           /\ q = OutQueue(t) /\ b = Head(Grown(q, Room(t))) /\ where = Filling(t)
           /\ pc[t] \in {"popout", "repopout"} /\ ProducerPop(q, Room(t))
           /\ out' = [out EXCEPT ![t] = b]
           /\ pc' = [pc EXCEPT ![t] = where]
           /\ UNCHANGED <<full, idx, finished, inputs, count, data, held, sent, got>>
    BY Zenon DEF PopOut, Filling, streams
  <1>2. Room(t) \in 0..Limit
    BY DEF Room, Limit
  <1>3. AtOutput(t) /\ ~ HoldsOutput(t) /\ AllThere(t) /\ Mode[t] # "sink"
    <2>1. Mode[t] # "sink"
      BY <1>1, ModeFacts DEF PCs
    <2> QED BY <1>1, <2>1, GotAll DEF AtOutput, HoldsOutput, Getting
  <1>4. /\ q \in Queue /\ q \in Range(Out[t]) /\ q = Out[t][OutPos(t)]
        /\ idx[t] \in 1..NOutputs(t)
    BY <1>1, <1>3, OutputFacts DEF IInv, TaskInv, Position
  <1>5. ~ Closed(q) /\ ApartFrom(q)
    BY <1>1, <1>4 DEF IInv, TaskInv, Ends, Apart
  <1>6. where \in PCs(Mode[t]) /\ where \in {"regenerate", "generate", "reduce", "process"}
    BY <1>1, <1>3, ModeFacts DEF PCs, Filling
  <1>7. /\ capacity' \in [Queue -> 0..Limit]
        /\ \A r \in Queue : Own(r) \subseteq Own(r)'
        /\ \A r \in Queue : r # q => Own(r)' = Own(r) /\ free'[r] = free[r]
        /\ DOMAIN free' = Queue
        /\ b \in Own(q)' /\ free'[q] \in Seq(Own(q)')
        /\ IsInjective(free'[q]) /\ b \notin Range(free'[q])
        /\ \A x \in Range(free'[q]) \cup {b} : x \in Range(free[q]) \/ x \in Own(q)' \ Own(q)
    BY <1>1, <1>2, <1>4, <1>5, GrownFacts
  <1>8. TypeQueues'
    <2>1. \A r \in Queue : free'[r] \in Seq(Own(r)')
      BY <1>7 DEF IInv, TypeInv, TypeQueues
    <2>2. ASSUME NEW r \in Queue PROVE full'[r] \in Seq(Own(r)' \cup {EndOfStream})
      <3>1. full'[r] \in Seq(Own(r) \cup {EndOfStream})
        BY <1>1 DEF IInv, TypeInv, TypeQueues
      <3>2. Own(r) \cup {EndOfStream} \subseteq Own(r)' \cup {EndOfStream}
        BY <1>7
      <3> QED BY <3>1, <3>2, SeqMono
    <2> QED BY <1>1, <1>7, <2>1, <2>2 DEF IInv, TypeInv, TypeQueues
  <1>9. b \in Buffer /\ \A r \in Queue : \A x \in Own(r)' : x[1] = r
    <2>1. capacity'[q] \in 0..2 /\ b \in {<<q, n>> : n \in 1..capacity'[q]}
      BY <1>4, <1>7 DEF Own, Limit
    <2>2. b \in Buffer
      BY <1>4, <2>1 DEF Buffer, Limit
    <2> QED BY <2>2 DEF Own
  <1>10. /\ pc' \in [Task -> AllPCs] /\ pc'[t] = where
         /\ out' \in [Task -> Buffer \cup {NullBuffer}] /\ out'[t] = b
         /\ \A u \in Task \ {t} : pc'[u] = pc[u] /\ out'[u] = out[u]
    BY <1>1, <1>6, <1>9, ModeFacts DEF IInv, TypeInv, TypeRest
  <1>11. TypeRest' /\ TypeInputs'
    BY <1>1, <1>10 DEF IInv, TypeInv, TypeRest, TypeInputs
  <1>12. OthersSame(t) /\ QueuesKeep(t)
    BY <1>1, <1>7, <1>10 DEF OthersSame, QueuesKeep, Closed
  <1>13. \A u \in Task : u # t => TaskInv(u)'
    BY <1>12, OthersKeep
  <1>14. TaskInv(t)'
    <2>1. TaskInv(t)
      BY DEF IInv
    <2>2. Position(t)'
      <3>1. OutPos(t)' = OutPos(t)
        BY <1>1 DEF OutPos
      <3> QED BY <1>1, <1>4, <1>6, <1>7, <1>10, <3>1 DEF Position
    <2>3. Owned(t)'
      <3>1. \A x \in held'[t] : x[1] \in Range(In[t]) /\ x \in Own(x[1])'
        BY <1>1, <1>7, <2>1, WiringFacts DEF TaskInv, Owned
      <3>2. \A i \in 1..NInputs(t) : inputs'[t][i] # NullBuffer => inputs'[t][i] \in Own(In[t][i])'
        BY <1>1, <1>7, <2>1, WiringFacts DEF TaskInv, Owned
      <3> QED BY <3>1, <3>2 DEF Owned
    <2>4. Ends(t)'
      BY <1>1, <2>1 DEF TaskInv, Ends, Closed
    <2>5. Fetching(t)'
      <3>1. \A i \in Fetched(t)' : i \in 1..NInputs(t)
        BY DEF Fetched
      <3> QED BY <1>1, <1>3, <3>1 DEF Fetching, AllThere
    <2> QED BY <2>2, <2>3, <2>4, <2>5 DEF TaskInv
  <1>15. Apart'
    <2>1. \A u \in Task : \A x \in held[u] : x \in Own(x[1])
      BY DEF IInv, TaskInv, Owned
    <2>2. \A u \in Task : u # t => (HoldsOutput(u)' <=> HoldsOutput(u)) /\ out'[u] = out[u]
      BY <1>10 DEF HoldsOutput
    <2>3. \A u \in Task : \A x \in Range(free'[q]) \cup {b} : x \notin held[u]
      <3>1. ASSUME NEW u \in Task, NEW x \in Range(free'[q]) \cup {b}, x \in held[u] PROVE FALSE
        <4>1. x \in Own(x[1]) /\ x \notin Range(free[q])
          BY <1>5, <2>1, <3>1 DEF ApartFrom
        <4>2. x \in Own(q)' /\ x \notin Own(q) /\ x[1] = q
          BY <1>4, <1>7, <1>9, <3>1, <4>1
        <4> QED BY <4>1, <4>2
      <3> QED BY <3>1
    <2>4. ASSUME NEW u \in Task, NEW v \in Task, HoldsOutput(u)'
          PROVE  out'[u] \notin held'[v]
      BY <1>1, <1>10, <2>2, <2>3, <2>4 DEF IInv, Apart
    <2>5. \A u \in Task : u # t /\ HoldsOutput(u) =>
              out[u] # b /\ (out[u] \in Own(q)' => out[u] \in Own(q))
      <3>1. ASSUME NEW u \in Task, u # t, HoldsOutput(u) PROVE out[u][1] # q
        <4>1. Out[u][OutPos(u)] \in Range(Out[u]) /\ out[u][1] = Out[u][OutPos(u)]
          BY <3>1, OutputFacts, OwnFacts DEF IInv
        <4> QED BY <1>4, <3>1, <4>1, WiringFacts
      <3> QED BY <1>4, <1>7, <1>9, <3>1
    <2>6. /\ Range(full[q]) \subseteq Own(q) \cup {EndOfStream}
          /\ EndOfStream \notin Range(free'[q]) \cup {b}
      <3>1. full[q] \in Seq(Own(q) \cup {EndOfStream})
        BY <1>4 DEF IInv, TypeInv, TypeQueues
      <3>2. Range(full[q]) \subseteq Own(q) \cup {EndOfStream}
        BY <3>1, ElementOfSeq, LenProperties DEF Range
      <3>3. EndOfStream \notin Range(full[q])
        BY <1>1, <1>4 DEF IInv, TaskInv, Ends
      <3>4. EndOfStream \notin Own(q)'
        <4>1. capacity'[q] \in 0..2
          BY <1>4, <1>7 DEF Limit
        <4>2. Own(q)' \subseteq Buffer
          BY <1>4, <4>1 DEF Own, Buffer, Limit
        <4> QED BY <4>2, FixedAssumption
      <3>5. free[q] \in Seq(Own(q)) /\ Range(free[q]) \subseteq Own(q)
        <4>1. free[q] \in Seq(Own(q))
          BY <1>4 DEF IInv, TypeInv, TypeQueues
        <4> QED BY <4>1, ElementOfSeq, LenProperties DEF Range
      <3> QED BY <1>4, <1>7, <3>2, <3>4, <3>5
    <2>7. ApartFrom(q)'
      <3>1. IsInjective(free'[q]) /\ IsInjective(full'[q])
        BY <1>1, <1>5, <1>7 DEF ApartFrom
      <3>2. (Range(free'[q]) \cup {b}) \cap Range(full'[q]) = {}
        BY <1>1, <1>5, <1>7, <2>6 DEF ApartFrom
      <3>3. \A u \in Task : held'[u] \cap (Range(free'[q]) \cup Range(full'[q])) = {}
        BY <1>1, <1>5, <2>3 DEF ApartFrom
      <3>4. ASSUME NEW u \in Task, HoldsOutput(u)'
            PROVE  out'[u] \notin Range(free'[q]) \cup Range(full'[q])
        <4>1. CASE u = t
          BY <1>7, <1>10, <3>2, <4>1
        <4>2. CASE u # t
          BY <1>1, <1>5, <1>7, <2>2, <2>5, <3>4, <4>2 DEF ApartFrom
        <4> QED BY <4>1, <4>2
      <3> QED BY <3>1, <3>2, <3>3, <3>4 DEF ApartFrom
    <2>8. ASSUME NEW r \in Queue, r # q, ~ Closed(r)' PROVE ApartFrom(r)'
      <3>1. ~ Closed(r) /\ ApartFrom(r)
        BY <1>1, <2>8 DEF IInv, Apart, Closed
      <3>2. free'[r] = free[r] /\ full'[r] = full[r] /\ held' = held
        BY <1>1, <1>7, <2>8
      <3>3. b \notin Range(free[r]) \cup Range(full[r])
        <4>1. free[r] \in Seq(Own(r)) /\ full[r] \in Seq(Own(r) \cup {EndOfStream})
          BY DEF IInv, TypeInv, TypeQueues
        <4>2. Range(free[r]) \subseteq Own(r) /\ Range(full[r]) \subseteq Own(r) \cup {EndOfStream}
          BY <4>1, ElementOfSeq, LenProperties DEF Range
        <4>3. b \notin Own(r) /\ b # EndOfStream
          BY <1>4, <1>7, <1>9, <2>6, <2>8
        <4> QED BY <4>2, <4>3
      <3> QED BY <1>10, <2>2, <3>1, <3>2, <3>3 DEF ApartFrom
    <2> QED BY <2>4, <2>7, <2>8 DEF Apart
  <1> QED BY <1>8, <1>11, <1>13, <1>14, <1>15 DEF IInv, TypeInv

LEMMA FinishedUpdate ==
    ASSUME TypeInputs, NEW t \in Task, NEW i \in 1..NInputs(t),
           finished' = [finished EXCEPT ![t][i] = TRUE]
    PROVE  /\ DOMAIN finished' = Task
           /\ \A u \in Task : finished'[u] \in [1..NInputs(u) -> BOOLEAN]
           /\ \A u \in Task : u # t => finished'[u] = finished[u]
           /\ \A j \in 1..NInputs(t) : j # i => finished'[t][j] = finished[t][j]
           /\ finished'[t][i] = TRUE
  <1>1. /\ DOMAIN finished = Task
        /\ \A u \in Task : finished[u] \in [1..NInputs(u) -> BOOLEAN]
    BY DEF TypeInputs
  <1>2. finished' = [finished EXCEPT ![t] = [finished[t] EXCEPT ![i] = TRUE]]
    OBVIOUS
  <1>3. /\ DOMAIN finished' = Task /\ finished'[t] = [finished[t] EXCEPT ![i] = TRUE]
        /\ \A u \in Task : u # t => finished'[u] = finished[u]
    BY <1>1, <1>2
  <1>4. finished'[t] \in [1..NInputs(t) -> BOOLEAN]
    BY <1>1, <1>3
  <1> QED BY <1>1, <1>3, <1>4

LEMMA InputsUpdate ==
    ASSUME TypeInputs, NEW t \in Task, NEW i \in 1..NInputs(t), NEW b \in Buffer,
           inputs' = [inputs EXCEPT ![t][i] = b]
    PROVE  /\ DOMAIN inputs' = Task
           /\ \A u \in Task : inputs'[u] \in [1..NInputs(u) -> Buffer \cup {NullBuffer}]
           /\ \A u \in Task : u # t => inputs'[u] = inputs[u]
           /\ \A j \in 1..NInputs(t) : j # i => inputs'[t][j] = inputs[t][j]
           /\ inputs'[t][i] = b
  <1>1. /\ DOMAIN inputs = Task
        /\ \A u \in Task : inputs[u] \in [1..NInputs(u) -> Buffer \cup {NullBuffer}]
    BY DEF TypeInputs
  <1>2. inputs' = [inputs EXCEPT ![t] = [inputs[t] EXCEPT ![i] = b]]
    OBVIOUS
  <1>3. /\ DOMAIN inputs' = Task /\ inputs'[t] = [inputs[t] EXCEPT ![i] = b]
        /\ \A u \in Task : u # t => inputs'[u] = inputs[u]
    BY <1>1, <1>2
  <1>4. inputs'[t] \in [1..NInputs(t) -> Buffer \cup {NullBuffer}]
    BY <1>1, <1>3
  <1> QED BY <1>1, <1>3, <1>4

(* The item or end marker that the next pop of an input yields. *)
LEMMA PopInputFacts ==
    ASSUME IInv, NEW t \in Task, NEW i, NEW q, NEW b,
           pc[t] \in Getting, Pending(t) # {}, i = Min(Pending(t)), q = In[t][i],
           full[q] # <<>>, b = Head(full[q])
    PROVE  /\ i \in 1..NInputs(t) /\ ~ finished[t][i] /\ i >= idx[t]
           /\ \A j \in 1..NInputs(t) : j < i => finished[t][j] \/ inputs[t][j] \in held[t]
           /\ q \in Queue /\ q \in Range(In[t]) /\ ~ Closed(q)
           /\ b \in Own(q) \cup {EndOfStream} /\ b \in Range(full[q])
           /\ Tail(full[q]) \in Seq(Own(q) \cup {EndOfStream})
           /\ Range(Tail(full[q])) \subseteq Range(full[q])
           /\ IsInjective(Tail(full[q])) /\ b \notin Range(Tail(full[q]))
  <1>1. TaskInv(t) /\ NInputs(t) \in Nat /\ idx[t] \in Nat \ {0}
    BY WiringFacts DEF IInv, TypeInv, TypeRest
  <1>2. Pending(t) \subseteq Nat
    BY <1>1 DEF Pending
  <1>3. i \in Pending(t) /\ \A j \in Pending(t) : i <= j
    BY <1>2, MinProperties
  <1>4. i \in 1..NInputs(t) /\ ~ finished[t][i] /\ i >= idx[t]
    BY <1>1, <1>3 DEF Pending
  <1>5. ASSUME NEW j \in 1..NInputs(t), j < i, ~ finished[t][j] PROVE inputs[t][j] \in held[t]
    <2>1. j < idx[t]
      BY <1>1, <1>3, <1>4, <1>5 DEF Pending
    <2>2. j \in Fetched(t)
      BY <2>1 DEF Fetched, Getting
    <2> QED BY <1>1, <1>5, <2>2 DEF TaskInv, Fetching
  <1>6. q \in Queue /\ q \in Range(In[t]) /\ ~ Closed(q)
    BY <1>1, <1>4, WiringFacts DEF TaskInv, Ends
  <1>7. full[q] \in Seq(Own(q) \cup {EndOfStream}) /\ IsInjective(full[q])
    BY <1>6 DEF IInv, TypeInv, TypeQueues, Apart, ApartFrom
  <1> QED BY <1>4, <1>5, <1>6, <1>7, TailRange

LEMMA PopInputStep ==
    ASSUME IInv, NEW t \in Task, PopInput(t)
    PROVE  IInv'
  <1>1. PICK i, q, b :
           /\ i = Min(Pending(t)) /\ q = In[t][i] /\ b = Head(full[q])
           /\ pc[t] \in Getting /\ Pending(t) # {} /\ full[q] # <<>>
           /\ full' = [full EXCEPT ![q] = Tail(@)]
           /\ got' = [got EXCEPT ![q] = Append(@, Content(b))]
           /\ IF b = EndOfStream
                THEN finished' = [finished EXCEPT ![t][i] = TRUE] /\ UNCHANGED <<inputs, held>>
                ELSE /\ inputs' = [inputs EXCEPT ![t][i] = b]
                     /\ held' = [held EXCEPT ![t] = @ \cup {b}]
                     /\ UNCHANGED finished
           /\ idx' = [idx EXCEPT ![t] = i + 1]
           /\ UNCHANGED <<free, capacity, pc, out, count, data, sent>>
    BY Zenon DEF PopInput, ConsumerPop
  <1>2. /\ i \in 1..NInputs(t) /\ ~ finished[t][i] /\ i >= idx[t]
        /\ \A j \in 1..NInputs(t) : j < i => finished[t][j] \/ inputs[t][j] \in held[t]
        /\ q \in Queue /\ q \in Range(In[t]) /\ ~ Closed(q)
        /\ b \in Own(q) \cup {EndOfStream} /\ b \in Range(full[q])
        /\ Tail(full[q]) \in Seq(Own(q) \cup {EndOfStream})
        /\ Range(Tail(full[q])) \subseteq Range(full[q])
        /\ IsInjective(Tail(full[q])) /\ b \notin Range(Tail(full[q]))
    BY <1>1, PopInputFacts
  <1>3. /\ TypeInv /\ TaskInv(t) /\ ApartFrom(q)
        /\ \A r \in Queue : Own(r)' = Own(r)
    BY <1>1, <1>2 DEF IInv, Apart, Own
  <1>4. b # EndOfStream => b \in Own(q) /\ b \in Buffer /\ b[1] = q /\ b # NullBuffer
    BY <1>2, <1>3, OwnFacts
  <1>5. /\ DOMAIN full' = Queue /\ full'[q] = Tail(full[q])
        /\ \A r \in Queue : r # q => full'[r] = full[r]
    BY <1>1, <1>2, <1>3 DEF TypeInv, TypeQueues
  <1>6. TypeQueues'
    BY <1>1, <1>2, <1>3, <1>5 DEF TypeInv, TypeQueues
  <1>7. /\ DOMAIN finished' = Task /\ \A u \in Task : finished'[u] \in [1..NInputs(u) -> BOOLEAN]
        /\ \A u \in Task : u # t => finished'[u] = finished[u]
        /\ \A j \in 1..NInputs(t) : finished'[t][j] = IF j = i /\ b = EndOfStream THEN TRUE ELSE finished[t][j]
    <2>1. DOMAIN finished = Task /\ \A u \in Task : finished[u] \in [1..NInputs(u) -> BOOLEAN]
      BY <1>3 DEF TypeInv, TypeInputs
    <2>2. CASE b = EndOfStream
      <3>1. finished' = [finished EXCEPT ![t][i] = TRUE]
        BY <1>1, <2>2
      <3>2. /\ DOMAIN finished' = Task
            /\ \A u \in Task : finished'[u] \in [1..NInputs(u) -> BOOLEAN]
            /\ \A u \in Task : u # t => finished'[u] = finished[u]
            /\ \A j \in 1..NInputs(t) : j # i => finished'[t][j] = finished[t][j]
            /\ finished'[t][i] = TRUE
        BY <1>2, <1>3, <3>1, FinishedUpdate DEF TypeInv
      <3> QED BY <2>2, <3>2
    <2>3. CASE b # EndOfStream
      BY <1>1, <2>1, <2>3
    <2> QED BY <2>2, <2>3
  <1>8. /\ DOMAIN inputs' = Task
        /\ \A u \in Task : inputs'[u] \in [1..NInputs(u) -> Buffer \cup {NullBuffer}]
        /\ \A u \in Task : u # t => inputs'[u] = inputs[u]
        /\ \A j \in 1..NInputs(t) : inputs'[t][j] = IF j = i /\ b # EndOfStream THEN b ELSE inputs[t][j]
    <2>1. /\ DOMAIN inputs = Task
          /\ \A u \in Task : inputs[u] \in [1..NInputs(u) -> Buffer \cup {NullBuffer}]
      BY <1>3 DEF TypeInv, TypeInputs
    <2>2. CASE b = EndOfStream
      BY <1>1, <2>1, <2>2
    <2>3. CASE b # EndOfStream
      <3>1. inputs' = [inputs EXCEPT ![t][i] = b] /\ b \in Buffer
        BY <1>1, <1>4, <2>3
      <3>2. /\ DOMAIN inputs' = Task
            /\ \A u \in Task : inputs'[u] \in [1..NInputs(u) -> Buffer \cup {NullBuffer}]
            /\ \A u \in Task : u # t => inputs'[u] = inputs[u]
            /\ \A j \in 1..NInputs(t) : j # i => inputs'[t][j] = inputs[t][j]
            /\ inputs'[t][i] = b
        BY <1>2, <1>3, <3>1, InputsUpdate, ZenonT(30) DEF TypeInv
      <3> QED BY <2>3, <3>2
    <2> QED BY <2>2, <2>3
  <1>9. /\ held' \in [Task -> SUBSET Buffer]
        /\ \A u \in Task : u # t => held'[u] = held[u]
        /\ held'[t] = held[t] \cup ({b} \ {EndOfStream})
    <2>1. held \in [Task -> SUBSET Buffer]
      BY <1>3 DEF TypeInv, TypeRest
    <2> QED BY <1>1, <1>4, <2>1
  <1>10. /\ Content(b) \in Nat \cup {EndOfStream} /\ (Content(b) = EndOfStream <=> b = EndOfStream)
    <2>1. Value(b) \in Nat /\ Value(b) # EndOfStream
      BY ValueType, FixedAssumption
    <2> QED BY <2>1 DEF Content
  <1>11. /\ got' \in [Queue -> Seq(Nat \cup {EndOfStream})]
         /\ \A r \in Queue : r # q => got'[r] = got[r]
         /\ Closed(q)' <=> b = EndOfStream
    <2>1. got \in [Queue -> Seq(Nat \cup {EndOfStream})]
      BY <1>3 DEF TypeInv, TypeRest
    <2>2. got[q] \in Seq(Nat \cup {EndOfStream}) /\ got'[q] = Append(got[q], Content(b))
      BY <1>1, <1>2, <2>1
    <2>3. got'[q] \in Seq(Nat \cup {EndOfStream}) /\ Range(got'[q]) = Range(got[q]) \cup {Content(b)}
      BY <1>10, <2>2, AppendRange
    <2> QED BY <1>1, <1>2, <1>10, <2>1, <2>3 DEF Closed
  <1>12. TypeRest' /\ TypeInputs'
    <2>1. idx' \in [Task -> Nat \ {0}]
      BY <1>1, <1>2, <1>3 DEF TypeInv, TypeRest
    <2> QED BY <1>1, <1>3, <1>7, <1>8, <1>9, <1>11, <2>1 DEF TypeInv, TypeRest, TypeInputs
  <1>13. OthersSame(t)
    BY <1>1, <1>3, <1>7, <1>8, <1>9 DEF OthersSame, TypeInv, TypeRest
  <1>14. \A r \in Queue : ~ Closed(r) /\ EndOfStream \notin Range(full[r])
                            => ~ Closed(r)' /\ EndOfStream \notin Range(full'[r])
    BY <1>2, <1>5, <1>11 DEF Closed
  <1>15. QueuesKeep(t)
    BY <1>2, <1>3, <1>11, <1>14 DEF QueuesKeep
  <1>16. \A u \in Task : u # t => TaskInv(u)'
    BY <1>13, <1>15, OthersKeep
  <1>17. TaskInv(t)'
    <2>1. ~ AtOutput(t)' /\ (HoldsOutput(t)' <=> HoldsOutput(t)) /\ pc'[t] = pc[t] /\ out'[t] = out[t]
      BY <1>1 DEF AtOutput, HoldsOutput, Getting
    <2>2. Position(t)'
      <3>1. HoldsOutput(t) => Mode[t] = "reductor"
        BY <1>1, ModeFacts DEF HoldsOutput, Getting, PCs
      <3>2. HoldsOutput(t) => out'[t] \in Own(Out[t][OutPos(t)])' /\ OutPos(t)' = OutPos(t)
        BY <1>3, <2>1, <3>1, OutputFacts DEF OutPos
      <3>3. HoldsOutput(t)' => out'[t] \in Own(Out[t][OutPos(t)])'
        BY <2>1, <3>1, <3>2 DEF OutPos
      <3> QED BY <1>3, <2>1, <3>3 DEF Position, TaskInv
    <2>3. Owned(t)'
      <3>1. \A x \in held'[t] : x[1] \in Range(In[t]) /\ x \in Own(x[1])'
        BY <1>2, <1>3, <1>4, <1>9, WiringFacts DEF TaskInv, Owned
      <3>2. \A j \in 1..NInputs(t) : inputs'[t][j] # NullBuffer => inputs'[t][j] \in Own(In[t][j])'
        BY <1>1, <1>2, <1>3, <1>4, <1>8, WiringFacts DEF TaskInv, Owned
      <3> QED BY <3>1, <3>2 DEF Owned
    <2>4. Ends(t)'
      <3>1. ASSUME NEW r \in Range(Out[t]), pc'[t] # "done"
            PROVE  ~ Closed(r)' /\ EndOfStream \notin Range(full'[r])
        BY <1>3, <1>14, <2>1, <3>1, WiringFacts DEF TaskInv, Ends
      <3>2. ASSUME NEW j \in 1..NInputs(t) PROVE finished'[t][j] <=> Closed(In[t][j])'
        <4>1. CASE j = i
          BY <1>1, <1>2, <1>7, <1>11, <4>1
        <4>2. CASE j # i
          <5>1. In[t][j] \in Queue /\ In[t][j] # q
            BY <1>1, <1>2, <4>2, WiringFacts
          <5>2. Closed(In[t][j])' <=> Closed(In[t][j])
            BY <1>11, <5>1 DEF Closed
          <5> QED BY <1>3, <1>7, <4>2, <5>2 DEF TaskInv, Ends
        <4> QED BY <4>1, <4>2
      <3> QED BY <3>1, <3>2 DEF Ends
    <2>5. Fetching(t)'
      <3>1. idx'[t] = i + 1
        BY <1>1, <1>3 DEF TypeInv, TypeRest
      <3>2. Fetched(t)' = {j \in 1..NInputs(t) : j < i + 1}
        BY <1>1, <3>1 DEF Fetched, Getting
      <3>3. \A j \in 1..NInputs(t) : j < i + 1 => j < i \/ j = i
        BY <1>2
      <3> QED BY <1>2, <1>7, <1>8, <1>9, <3>2, <3>3 DEF Fetching
    <2> QED BY <2>2, <2>3, <2>4, <2>5 DEF TaskInv
  <1>18. Apart'
    <2>1. \A u \in Task : (HoldsOutput(u)' <=> HoldsOutput(u)) /\ out'[u] = out[u]
      BY <1>1 DEF HoldsOutput
    <2>2. \A u, v \in Task : HoldsOutput(u)' => out'[u] \notin held'[v]
      BY <1>2, <1>3, <1>9, <2>1 DEF IInv, Apart, ApartFrom
    <2>3. ASSUME ~ Closed(q)' PROVE ApartFrom(q)'
      <3>1. b # EndOfStream /\ free' = free /\ b \notin Range(free[q])
        BY <1>1, <1>2, <1>3, <1>11, <2>3 DEF ApartFrom
      <3>2. Range(full'[q]) \subseteq Range(full[q]) /\ IsInjective(full'[q]) /\ b \notin Range(full'[q])
        BY <1>2, <1>5
      <3> QED BY <1>3, <1>9, <2>1, <3>1, <3>2 DEF ApartFrom
    <2>4. ASSUME NEW r \in Queue, r # q, ~ Closed(r)' PROVE ApartFrom(r)'
      <3>1. ~ Closed(r) /\ ApartFrom(r)
        BY <1>11, <2>4 DEF IInv, Apart, Closed
      <3>2. free'[r] = free[r] /\ full'[r] = full[r]
        BY <1>1, <1>5, <2>4
      <3>3. b # EndOfStream => b \notin Range(free[r]) \cup Range(full[r])
        <4>1. free[r] \in Seq(Own(r)) /\ full[r] \in Seq(Own(r) \cup {EndOfStream})
          BY DEF IInv, TypeInv, TypeQueues
        <4>2. Range(free[r]) \subseteq Own(r) /\ Range(full[r]) \subseteq Own(r) \cup {EndOfStream}
          BY <4>1, ElementOfSeq, LenProperties DEF Range
        <4>3. b # EndOfStream => b \notin Own(r)
          BY <1>3, <1>4, <2>4, OwnFacts
        <4> QED BY <4>2, <4>3
      <3> QED BY <1>9, <2>1, <3>1, <3>2, <3>3 DEF ApartFrom
    <2> QED BY <2>2, <2>3, <2>4 DEF Apart
  <1> QED BY <1>6, <1>12, <1>16, <1>17, <1>18 DEF IInv, TypeInv

----------------------------------------------------------------------------
(* The theorems *)

LEMMA InitInv == Init => IInv
  <1> SUFFICES ASSUME Init PROVE IInv
    OBVIOUS
  <1>1. /\ free = [q \in Queue |-> <<>>] /\ full = [q \in Queue |-> <<>>]
        /\ capacity = [q \in Queue |-> 0]
        /\ pc = [t \in Task |-> Entry(t)] /\ idx = [t \in Task |-> 1]
        /\ finished = [t \in Task |-> [i \in 1..NInputs(t) |-> FALSE]]
        /\ inputs = [t \in Task |-> [i \in 1..NInputs(t) |-> NullBuffer]]
        /\ out = [t \in Task |-> NullBuffer] /\ count = [t \in Task |-> 0]
        /\ data = [b \in Buffer |-> 0] /\ held = [t \in Task |-> {}]
        /\ sent = [q \in Queue |-> <<>>] /\ got = [q \in Queue |-> <<>>]
    BY DEF Init, InitOf, InitQueues
  <1>2. \A t \in Task : /\ Mode[t] \in {"generator", "processor", "sink", "reductor"}
                        /\ Mode[t] # "sink" => 1 \in 1..NOutputs(t)
                        /\ Mode[t] = "generator" => NInputs(t) = 0
    BY FixedAssumption, WiringFacts
  <1>3. \A t \in Task : /\ Entry(t) \in PCs(Mode[t]) /\ Entry(t) \in AllPCs
                        /\ Entry(t) \in {"popout", "first", "get"}
                        /\ Entry(t) = "popout" <=> Mode[t] = "generator"
    BY <1>2 DEF Entry, PCs, AllPCs
  <1>4. TypeInv
    <2>1. TypeQueues
      BY <1>1 DEF TypeQueues, Limit
    <2>2. TypeInputs
      BY <1>1 DEF TypeInputs
    <2>3. TypeRest
      BY <1>1, <1>3 DEF TypeRest
    <2> QED BY <2>1, <2>2, <2>3 DEF TypeInv
  <1>5. \A q \in Queue : Range(free[q]) = {} /\ Range(full[q]) = {} /\ ~ Closed(q)
    BY <1>1, EmptyRange DEF Closed
  <1>6. \A t \in Task : ~ HoldsOutput(t)
    BY <1>1, <1>3 DEF HoldsOutput
  <1>7. ASSUME NEW t \in Task PROVE TaskInv(t)
    <2>1. Position(t)
      BY <1>1, <1>2, <1>3, <1>6 DEF Position, AtOutput
    <2>2. Owned(t)
      BY <1>1 DEF Owned
    <2>3. Ends(t)
      BY <1>1, <1>5, WiringFacts DEF Ends
    <2>4. Fetching(t)
      <3>1. CASE Mode[t] = "generator"
        <4>1. Fetched(t) \subseteq 1..NInputs(t) /\ NInputs(t) = 0
          BY <1>2, <3>1 DEF Fetched
        <4> QED BY <4>1 DEF Fetching
      <3>2. CASE Mode[t] # "generator"
        <4>1. pc[t] \in Getting /\ idx[t] = 1
          BY <1>1, <1>3, <3>2 DEF Getting
        <4>2. Fetched(t) = {i \in 1..NInputs(t) : i < idx[t]}
          BY <4>1 DEF Fetched
        <4> QED BY <4>1, <4>2 DEF Fetching
      <3> QED BY <3>1, <3>2
    <2> QED BY <2>1, <2>2, <2>3, <2>4 DEF TaskInv
  <1>8. Apart
    <2>1. \A q \in Queue : IsInjective(free[q]) /\ IsInjective(full[q])
      BY <1>1, EmptyRange
    <2> QED BY <1>1, <1>5, <1>6, <2>1 DEF Apart, ApartFrom
  <1> QED BY <1>4, <1>7, <1>8 DEF IInv

LEMMA RunStep ==
    ASSUME IInv, NEW t \in Task, Run(t)
    PROVE  IInv'
  BY PopInputStep, PopOutStep, GenerateStep, FailGeneratorStep, GetRoundStep, ProcessSinkStep,
     ProcessStep, FailStep, FlushStep, FirstRoundStep, ReduceStep, RegetStep, RegenerateStep
     DEF Run

(* Steps that concern no queue and no thread. *)
LEMMA QuietStep ==
    ASSUME IInv,
           UNCHANGED <<free, full, capacity, pc, idx, finished, inputs, out, count, data, held,
                       sent, got>>
    PROVE  IInv'
  <1>1. \A q \in Queue : Own(q)' = Own(q) /\ Closed(q)' = Closed(q)
    BY DEF Own, Closed
  <1>2. \A t \in Task : /\ HoldsOutput(t)' = HoldsOutput(t) /\ AtOutput(t)' = AtOutput(t)
                        /\ OutPos(t)' = OutPos(t) /\ Fetched(t)' = Fetched(t)
    BY DEF HoldsOutput, AtOutput, OutPos, Fetched
  <1>3. TypeInv'
    BY <1>1 DEF IInv, TypeInv, TypeQueues, TypeInputs, TypeRest
  <1>4. ASSUME NEW t \in Task PROVE TaskInv(t)'
    BY <1>1, <1>2, <1>4 DEF IInv, TaskInv, Position, Owned, Ends, Fetching, Own, Closed
  <1>5. Apart'
    BY <1>1, <1>2 DEF IInv, Apart, ApartFrom
  <1> QED BY <1>3, <1>4, <1>5 DEF IInv

LEMMA NextInv == IInv /\ [Next]_vars => IInv'
  <1> SUFFICES ASSUME IInv, [Next]_vars PROVE IInv'
    OBVIOUS
  <1>1. CASE \E t \in Task : Run(t)
    BY <1>1, RunStep
  <1>2. CASE Abort \/ UNCHANGED vars
    BY <1>2, QuietStep DEF Abort, vars, queueVars, threadVars, streams
  <1> QED BY <1>1, <1>2 DEF Next, Joined

LEMMA InvExclusive == IInv => Exclusive
  <1> SUFFICES ASSUME IInv PROVE Exclusive
    OBVIOUS
  <1> DEFINE filling == {out[t] : t \in {u \in Task : HoldsOutput(u)}}
             reading == UNION {held[t] : t \in Task}
  <1>1. filling \cap reading = {}
    BY DEF IInv, Apart
  <1>2. ASSUME NEW q \in Queue, EndOfStream \notin Range(got[q])
        PROVE  /\ IsInjective(free[q]) /\ IsInjective(full[q])
               /\ Range(free[q]) \cap (Range(full[q]) \ {EndOfStream}) = {}
               /\ (Range(free[q]) \cup (Range(full[q]) \ {EndOfStream})) \cap (filling \cup reading) = {}
    <2>1. ApartFrom(q)
      BY <1>2 DEF IInv, Apart, Closed
    <2>2. (Range(free[q]) \cup Range(full[q])) \cap filling = {}
      BY <2>1 DEF ApartFrom
    <2>3. (Range(free[q]) \cup Range(full[q])) \cap reading = {}
      BY <2>1 DEF ApartFrom
    <2> QED BY <2>1, <2>2, <2>3 DEF ApartFrom
  <1> QED BY <1>1, <1>2 DEF Exclusive

(* No buffer is ever in two places: one that a task fills or reads is not  *)
(* in a queue, nor filled or read by another task, as long as the stream   *)
(* it belongs to is open (run_task of ufo-fixed-scheduler.c holds it, and  *)
(* there are no locks on buffers).                                         *)
THEOREM FixedExclusive == Spec => []Exclusive
  <1>1. Init => IInv
    BY InitInv
  <1>2. IInv /\ [Next]_vars => IInv'
    BY NextInv
  <1>3. IInv => Exclusive
    BY InvExclusive
  <1> QED BY <1>1, <1>2, <1>3, PTL DEF Spec

----------------------------------------------------------------------------
(* The connections as streams *)

(* What was sent and not yet received is in flight. *)
Carries(q) ==
    /\ Len(sent[q]) = Len(got[q]) + Len(full[q])
    /\ \A i \in 1..Len(got[q]) : sent[q][i] = got[q][i]
    /\ \A i \in 1..Len(full[q]) : sent[q][Len(got[q]) + i] = Content(full[q][i])

SInv == IInv /\ \A q \in Queue : Carries(q)

(* What a step of t may do to one queue. *)
Idle(q) == full'[q] = full[q] /\ sent'[q] = sent[q] /\ got'[q] = got[q]

Pushed(t, q, v) ==
    /\ AtOutput(t) /\ HoldsOutput(t) /\ q = OutQueue(t)
    /\ data' = [data EXCEPT ![out[t]] = v]
    /\ full'[q] = Append(full[q], out[t])
    /\ sent'[q] = Append(sent[q], v)
    /\ got'[q] = got[q]

Ended(q) ==
    /\ full'[q] = Append(full[q], EndOfStream)
    /\ sent'[q] = Append(sent[q], EndOfStream)
    /\ got'[q] = got[q]

Popped(q) ==
    /\ full[q] # <<>> /\ ~ Closed(q)
    /\ full'[q] = Tail(full[q])
    /\ got'[q] = Append(got[q], Content(Head(full[q])))
    /\ sent'[q] = sent[q]
    /\ data' = data

Transfers(t) ==
    /\ \/ data' = data
       \/ HoldsOutput(t) /\ \E v \in Nat : data' = [data EXCEPT ![out[t]] = v]
    /\ \A q \in Queue : Idle(q) \/ (\E v \in Nat : Pushed(t, q, v)) \/ Ended(q) \/ Popped(q)

LEMMA LeaveTransfers ==
    ASSUME IInv, NEW t \in Task, Leave(t)
    PROVE  \A q \in Queue : Idle(q) \/ Ended(q)
  BY DEF Leave, Idle, Ended

LEMMA PushTransfers ==
    ASSUME IInv, NEW t \in Task, NEW v \in Nat, PushItem(t, v), AtOutput(t), HoldsOutput(t)
    PROVE  /\ \A q \in Queue : Idle(q) \/ Pushed(t, q, v)
           /\ data' = [data EXCEPT ![out[t]] = v]
  <1>1. /\ full' = [full EXCEPT ![OutQueue(t)] = @ \o <<out[t]>>]
        /\ sent' = [sent EXCEPT ![OutQueue(t)] = Append(@, v)]
        /\ data' = [data EXCEPT ![out[t]] = v]
        /\ UNCHANGED got
    BY DEF PushItem, ProducerPush
  <1>2. DOMAIN full = Queue /\ DOMAIN sent = Queue
    BY DEF IInv, TypeInv, TypeQueues, TypeRest
  <1>3. OutQueue(t) \in Queue /\ out[t] \in Own(OutQueue(t))
    BY OutputFacts
  <1>4. full[OutQueue(t)] \o <<out[t]>> = Append(full[OutQueue(t)], out[t])
    BY <1>3, AppendRange DEF IInv, TypeInv, TypeQueues
  <1> QED BY <1>1, <1>2, <1>3, <1>4 DEF Idle, Pushed

LEMMA RunTransfers ==
    ASSUME IInv, NEW t \in Task, Run(t)
    PROVE  Transfers(t)
  <1>1. CASE PopInput(t)
    <2>1. PICK q, b :
             /\ q = In[t][Min(Pending(t))] /\ b = Head(full[q])
             /\ pc[t] \in Getting /\ Pending(t) # {} /\ full[q] # <<>>
             /\ full' = [full EXCEPT ![q] = Tail(@)]
             /\ got' = [got EXCEPT ![q] = Append(@, Content(b))]
             /\ UNCHANGED <<data, sent>>
      BY <1>1, Zenon DEF PopInput, ConsumerPop
    <2>2. q \in Queue /\ ~ Closed(q)
      BY <2>1, PopInputFacts
    <2>3. DOMAIN full = Queue /\ DOMAIN got = Queue
      BY DEF IInv, TypeInv, TypeQueues, TypeRest
    <2>4. Popped(q) /\ \A r \in Queue : r # q => Idle(r)
      BY <2>1, <2>2, <2>3 DEF Popped, Idle
    <2> QED BY <2>1, <2>4 DEF Transfers
  <1>2. CASE PopOut(t) \/ GetRound(t) \/ ProcessSink(t) \/ Fail(t) \/ Flush(t) \/ FirstRound(t)
             \/ Reget(t) \/ FailGenerator(t)
    <2>1. UNCHANGED data
      BY <1>2 DEF PopOut, GetRound, ProcessSink, Fail, Flush, FirstRound, Reget, FailGenerator
    <2>2. Leave(t) \/ UNCHANGED <<full, sent, got>>
      BY <1>2 DEF PopOut, GetRound, ProcessSink, Fail, Flush, FirstRound, Reget, FailGenerator,
                  queueVars, streams
    <2>3. \A q \in Queue : Idle(q) \/ Ended(q)
      BY <2>2, LeaveTransfers DEF Idle
    <2> QED BY <2>1, <2>3 DEF Transfers
  <1>3. CASE Generate(t) \/ Regenerate(t)
    <2>1. AtOutput(t) /\ HoldsOutput(t)
      <3>1. pc[t] \in {"generate", "regenerate"} /\ Mode[t] # "sink"
        BY <1>3, ModeFacts DEF Generate, Regenerate, PCs
      <3> QED BY <3>1 DEF AtOutput, HoldsOutput
    <2>2. CASE PushItem(t, count[t] + 1)
      <3>1. count[t] + 1 \in Nat
        BY DEF IInv, TypeInv, TypeRest
      <3> QED BY <2>1, <2>2, <3>1, PushTransfers DEF Transfers
    <2>3. CASE NoMore(t) /\ (Leave(t) \/ UNCHANGED <<full, streams>>)
      <3>1. \A q \in Queue : Idle(q) \/ Ended(q)
        BY <2>3, LeaveTransfers DEF Idle, streams
      <3> QED BY <2>1, <2>3, <3>1, NoMoreFacts DEF Transfers, FillsOwn
    <2> QED BY <1>3, <2>2, <2>3 DEF Generate, Regenerate
  <1>4. CASE Process(t)
    <2>1. AtOutput(t) /\ HoldsOutput(t) /\ Value(inputs[t][1]) \in Nat
      BY <1>4, ValueType DEF Process, AtOutput, HoldsOutput
    <2>2. CASE PushItem(t, Value(inputs[t][1]))
      BY <2>1, <2>2, PushTransfers DEF Transfers
    <2>3. CASE data' = [data EXCEPT ![out[t]] = Value(inputs[t][1])] /\ Leave(t)
      BY <2>1, <2>3, LeaveTransfers DEF Transfers
    <2> QED BY <1>4, <2>2, <2>3 DEF Process
  <1>5. CASE Reduce(t)
    <2>1. HoldsOutput(t)
      <3>1. pc[t] = "reduce" /\ Mode[t] # "sink"
        BY <1>5, ModeFacts DEF Reduce, PCs
      <3> QED BY <3>1 DEF HoldsOutput
    <2>2. UNCHANGED <<full, sent, got>> /\ data' = [data EXCEPT ![out[t]] = 0]
      BY <1>5 DEF Reduce, Accumulate, streams
    <2> QED BY <2>1, <2>2 DEF Transfers, Idle
  <1> QED BY <1>1, <1>2, <1>3, <1>4, <1>5 DEF Run

(* A task fills only buffers that are not in flight. *)
LEMMA FilledNotInFlight ==
    ASSUME IInv, NEW t \in Task, HoldsOutput(t), NEW q \in Queue
    PROVE  out[t] \notin Range(full[q])
  <1>1. PICK r \in Queue : r = Out[t][OutPos(t)] /\ r \in Range(Out[t]) /\ out[t] \in Own(r)
    BY OutputFacts
  <1>2. out[t][1] = r /\ out[t] # EndOfStream
    BY <1>1, OwnFacts DEF IInv
  <1>3. CASE q = r
    <2>1. pc[t] # "done"
      BY DEF HoldsOutput
    <2>2. ~ Closed(r)
      BY <1>1, <2>1 DEF IInv, TaskInv, Ends
    <2> QED BY <1>3, <2>2 DEF IInv, Apart, ApartFrom
  <1>4. CASE q # r
    <2>1. full[q] \in Seq(Own(q) \cup {EndOfStream})
      BY DEF IInv, TypeInv, TypeQueues
    <2>2. Range(full[q]) \subseteq Own(q) \cup {EndOfStream}
      BY <2>1, ElementOfSeq, LenProperties DEF Range
    <2>3. \A b \in Own(q) : b[1] = q
      BY OwnFacts DEF IInv
    <2> QED BY <1>2, <1>4, <2>2, <2>3
  <1> QED BY <1>3, <1>4

LEMMA ContentFacts ==
    ASSUME IInv, NEW x
    PROVE  Content(x) \in Nat \cup {EndOfStream} /\ (Content(x) = EndOfStream <=> x = EndOfStream)
  <1>1. Value(x) \in Nat /\ Value(x) # EndOfStream
    BY ValueType, FixedAssumption
  <1> QED BY <1>1 DEF Content

(* Content after the step, of a buffer chosen before it. *)
After(x) ==
    IF x = EndOfStream THEN EndOfStream ELSE IF x \in Buffer THEN data'[x] ELSE 0

LEMMA ContentKept ==
    ASSUME IInv, NEW t \in Task, Transfers(t), NEW q \in Queue, NEW x \in Range(full[q])
    PROVE  After(x) = Content(x)
  <1>1. data \in [Buffer -> Nat]
    BY DEF IInv, TypeInv, TypeRest
  <1>2. x \in Buffer => data'[x] = data[x]
    <2>1. CASE data' = data
      BY <2>1
    <2>2. CASE HoldsOutput(t) /\ \E v \in Nat : data' = [data EXCEPT ![out[t]] = v]
      <3>1. x # out[t]
        BY <2>2, FilledNotInFlight
      <3> QED BY <1>1, <2>2, <3>1
    <2> QED BY <2>1, <2>2 DEF Transfers
  <1> QED BY <1>2 DEF After, Content, Value

LEMMA StreamTypes ==
    ASSUME IInv, NEW q \in Queue
    PROVE  /\ full[q] \in Seq(Own(q) \cup {EndOfStream})
           /\ sent[q] \in Seq(Nat \cup {EndOfStream}) /\ got[q] \in Seq(Nat \cup {EndOfStream})
           /\ Len(full[q]) \in Nat /\ Len(sent[q]) \in Nat /\ Len(got[q]) \in Nat
           /\ \A i \in 1..Len(full[q]) : full[q][i] \in Range(full[q])
           /\ \A i \in 1..Len(got[q]) : got[q][i] \in Range(got[q])
  <1>1. /\ full[q] \in Seq(Own(q) \cup {EndOfStream})
        /\ sent[q] \in Seq(Nat \cup {EndOfStream}) /\ got[q] \in Seq(Nat \cup {EndOfStream})
    BY DEF IInv, TypeInv, TypeQueues, TypeRest
  <1> QED BY <1>1, LenProperties DEF Range

LEMMA CarriesStep ==
    ASSUME SInv, NEW t \in Task, Transfers(t), NEW q \in Queue
    PROVE  Carries(q)'
  <1>1. IInv /\ Carries(q)
    BY DEF SInv
  <1>0. Carries(q)' <=>
           /\ Len(sent'[q]) = Len(got'[q]) + Len(full'[q])
           /\ \A i \in 1..Len(got'[q]) : sent'[q][i] = got'[q][i]
           /\ \A i \in 1..Len(full'[q]) : sent'[q][Len(got'[q]) + i] = After(full'[q][i])
    BY DEF Carries, Content, Value, After
  <1>x. PICK m \in Nat, n \in Nat : m = Len(got[q]) /\ n = Len(full[q])
    BY <1>1, StreamTypes
  <1>2. PICK f, s, g :
           /\ f = full[q] /\ s = sent[q] /\ g = got[q] /\ m = Len(g) /\ n = Len(f)
           /\ f \in Seq(Own(q) \cup {EndOfStream})
           /\ s \in Seq(Nat \cup {EndOfStream}) /\ g \in Seq(Nat \cup {EndOfStream})
           /\ \A i \in 1..n : f[i] \in Range(full[q])
    BY <1>1, <1>x, StreamTypes
  <1>3. /\ Len(s) = m + n /\ \A i \in 1..m : s[i] = g[i]
        /\ \A i \in 1..n : s[m + i] = Content(f[i]) /\ After(f[i]) = Content(f[i])
    BY <1>1, <1>2, ContentKept DEF Carries
  <1>4. Idle(q) \/ (\E v \in Nat : Pushed(t, q, v)) \/ Ended(q) \/ Popped(q)
    BY DEF Transfers
  <1>5. CASE Idle(q)
    <2>1. full'[q] = f /\ sent'[q] = s /\ got'[q] = g
      BY <1>2, <1>5 DEF Idle
    <2>2. \A i \in 1..n : s[m + i] = After(f[i])
      BY <1>3
    <2>3. /\ Len(sent'[q]) = Len(got'[q]) + Len(full'[q])
          /\ \A i \in 1..Len(got'[q]) : sent'[q][i] = got'[q][i]
      BY <1>2, <1>3, <2>1
    <2>4. \A i \in 1..Len(full'[q]) : sent'[q][Len(got'[q]) + i] = After(full'[q][i])
      BY <1>2, <2>1, <2>2
    <2> QED BY <1>0, <2>3, <2>4
  <1>6. ASSUME NEW x, NEW v \in Nat \cup {EndOfStream}, After(x) = v,
               full'[q] = Append(f, x), sent'[q] = Append(s, v), got'[q] = g
        PROVE  Carries(q)'
    <2>1. /\ Len(Append(f, x)) = n + 1 /\ Append(f, x)[n + 1] = x
          /\ \A i \in 1..n : Append(f, x)[i] = f[i]
      BY <1>2
    <2>2. /\ Len(Append(s, v)) = m + n + 1 /\ Append(s, v)[m + n + 1] = v
          /\ \A i \in 1..m + n : Append(s, v)[i] = s[i]
      <3>1. Len(s) = m + n /\ s \in Seq(Nat \cup {EndOfStream})
        BY <1>2, <1>3
      <3> QED BY <3>1, <1>6, AppendProperties
    <2>3. \A i \in 1..m : Append(s, v)[i] = g[i]
      BY <1>3, <2>2
    <2>4. \A i \in 1..n : Append(s, v)[m + i] = After(Append(f, x)[i])
      BY <1>3, <2>1, <2>2
    <2>5. \A i \in 1..n + 1 : Append(s, v)[m + i] = After(Append(f, x)[i])
      <3>1. \A i \in 1..n + 1 : i \in 1..n \/ i = n + 1
        OBVIOUS
      <3>2. m + n + 1 = m + (n + 1)
        OBVIOUS
      <3>3. Append(s, v)[m + (n + 1)] = v
        BY <2>2, <3>2
      <3> QED BY <1>6, <2>1, <2>4, <3>1, <3>3
    <2>6. full'[q] = Append(f, x) /\ sent'[q] = Append(s, v) /\ got'[q] = g /\ Len(g) = m
      BY <1>2, <1>6
    <2>7. /\ Len(sent'[q]) = Len(got'[q]) + Len(full'[q])
          /\ \A i \in 1..Len(got'[q]) : sent'[q][i] = got'[q][i]
      <3>1. m + n + 1 = m + (n + 1)
        OBVIOUS
      <3>2. Len(sent'[q]) = m + (n + 1) /\ Len(full'[q]) = n + 1 /\ Len(got'[q]) = m
        BY <2>1, <2>2, <2>6, <3>1
      <3> QED BY <2>3, <2>6, <3>2
    <2>8. \A i \in 1..Len(full'[q]) : sent'[q][Len(got'[q]) + i] = After(full'[q][i])
      BY <2>1, <2>5, <2>6
    <2> QED BY <1>0, <2>7, <2>8
  <1>7. CASE \E v \in Nat : Pushed(t, q, v)
    <2>1. PICK v \in Nat : Pushed(t, q, v)
      BY <1>7
    <2>2. PICK x \in Buffer : x = out[t]
      BY <1>1, <2>1, OutputFacts, OwnFacts DEF Pushed, IInv
    <2>3. data \in [Buffer -> Nat] /\ x # EndOfStream
      BY <1>1, FixedAssumption DEF IInv, TypeInv, TypeRest
    <2>4. After(x) = v
      BY <2>1, <2>2, <2>3 DEF Pushed, After
    <2> QED BY <1>2, <1>6, <2>1, <2>2, <2>4 DEF Pushed
  <1>8. CASE Ended(q)
    <2>1. After(EndOfStream) = EndOfStream
      BY DEF After
    <2> QED BY <1>2, <1>6, <1>8, <2>1 DEF Ended
  <1>9. CASE Popped(q)
    <2>1. PICK v \in Nat \cup {EndOfStream} : v = Content(f[1])
      BY <1>1, ContentFacts
    <2>2. /\ f # <<>> /\ full'[q] = Tail(f) /\ got'[q] = Append(g, v) /\ sent'[q] = s
      BY <1>2, <1>9, <2>1 DEF Popped
    <2>3. n > 0 /\ Len(Tail(f)) = n - 1 /\ \A i \in 1..n - 1 : Tail(f)[i] = f[i + 1]
      BY <1>2, <2>2, HeadTailProperties, EmptySeq
    <2>4. /\ Len(Append(g, v)) = m + 1 /\ Append(g, v)[m + 1] = v
          /\ \A i \in 1..m : Append(g, v)[i] = g[i]
      BY <1>2
    <2>5. \A i \in 1..m + 1 : s[i] = Append(g, v)[i]
      <3>1. \A i \in 1..m + 1 : i \in 1..m \/ i = m + 1
        OBVIOUS
      <3>2. 1 \in 1..n
        BY <2>3
      <3>3. s[m + 1] = v
        BY <1>3, <2>1, <3>2
      <3> QED BY <1>3, <2>4, <3>1, <3>3
    <2>6. \A i \in 1..n - 1 : s[m + 1 + i] = After(Tail(f)[i])
      <3>1. ASSUME NEW i \in 1..n - 1 PROVE s[m + 1 + i] = After(Tail(f)[i])
        <4>1. i \in Nat /\ i + 1 \in 1..n /\ m + 1 + i = m + (i + 1)
          OBVIOUS
        <4> QED BY <1>3, <2>3, <4>1
      <3> QED BY <3>1
    <2>7. /\ Len(sent'[q]) = Len(got'[q]) + Len(full'[q])
          /\ \A i \in 1..Len(got'[q]) : sent'[q][i] = got'[q][i]
      <3>1. m + n = (m + 1) + (n - 1)
        OBVIOUS
      <3>2. Len(sent'[q]) = m + n /\ Len(full'[q]) = n - 1 /\ Len(got'[q]) = m + 1
        BY <1>3, <2>2, <2>3, <2>4
      <3> QED BY <2>2, <2>5, <3>1, <3>2
    <2>8. \A i \in 1..Len(full'[q]) : sent'[q][Len(got'[q]) + i] = After(full'[q][i])
      BY <2>2, <2>3, <2>4, <2>6
    <2> QED BY <1>0, <2>7, <2>8
  <1> QED BY <1>4, <1>5, <1>7, <1>8, <1>9

(* A connection whose producer is about to push has room for the item, and *)
(* no end marker was sent on it.                                           *)
LEMMA RoomToPush ==
    ASSUME SInv, NEW t \in Task, AtOutput(t), HoldsOutput(t), NEW q, q = OutQueue(t)
    PROVE  /\ q \in Queue /\ Len(full[q]) < Limit
           /\ \A i \in 1..Len(sent[q]) : sent[q][i] # EndOfStream
  <1>1. IInv /\ q \in Queue /\ q \in Range(Out[t]) /\ out[t] \in Own(q)
    BY OutputFacts DEF SInv
  <1>2. ~ Closed(q) /\ EndOfStream \notin Range(full[q]) /\ IsInjective(full[q])
    <2>1. pc[t] # "done"
      BY DEF HoldsOutput
    <2>2. ~ Closed(q) /\ EndOfStream \notin Range(full[q])
      BY <1>1, <2>1 DEF IInv, TaskInv, Ends
    <2> QED BY <1>1, <2>2 DEF IInv, Apart, ApartFrom
  <1>3. out[t] \notin Range(full[q])
    BY <1>1, FilledNotInFlight
  <1>4. /\ full[q] \in Seq(Own(q) \cup {EndOfStream})
        /\ Len(full[q]) \in Nat /\ Len(sent[q]) \in Nat /\ Len(got[q]) \in Nat
        /\ \A i \in 1..Len(full[q]) : full[q][i] \in Range(full[q])
        /\ \A i \in 1..Len(got[q]) : got[q][i] \in Range(got[q])
    BY <1>1, StreamTypes
  <1>5. Len(full[q]) < 2
    <2> SUFFICES ASSUME Len(full[q]) >= 2 PROVE FALSE
      BY <1>4
    <2>1. 1 \in 1..Len(full[q]) /\ 2 \in 1..Len(full[q]) /\ DOMAIN full[q] = 1..Len(full[q])
      BY <1>4, LenProperties
    <2>2. full[q][1] # full[q][2]
      BY <1>2, <2>1 DEF IsInjective
    <2>3. full[q][1] \in Own(q) /\ full[q][2] \in Own(q)
      BY <1>2, <1>4, <2>1, ElementOfSeq
    <2>4. \A b \in Own(q) : b = <<q, 1>> \/ b = <<q, 2>>
      <3>1. capacity[q] \in 0..2
        BY <1>1 DEF IInv, TypeInv, TypeQueues, Limit
      <3>2. \A n \in 1..capacity[q] : n = 1 \/ n = 2
        BY <3>1
      <3> QED BY <3>2 DEF Own
    <2>5. out[t] # full[q][1] /\ out[t] # full[q][2]
      BY <1>3, <1>4, <2>1
    <2> QED BY <1>1, <2>2, <2>3, <2>4, <2>5
  <1>6. ASSUME NEW i \in 1..Len(sent[q]) PROVE sent[q][i] # EndOfStream
    <2>1. CASE i <= Len(got[q])
      <3>1. sent[q][i] = got[q][i] /\ got[q][i] \in Range(got[q])
        <4>1. i \in 1..Len(got[q])
          BY <1>4, <2>1
        <4>2. Carries(q)
          BY <1>1 DEF SInv
        <4> QED BY <1>4, <4>1, <4>2 DEF Carries
      <3> QED BY <1>2, <3>1 DEF Closed
    <2>2. CASE i > Len(got[q])
      <3>1. PICK k \in 1..Len(full[q]) : i = Len(got[q]) + k
        <4>1. i - Len(got[q]) \in 1..Len(full[q]) /\ i = Len(got[q]) + (i - Len(got[q]))
          <5>1. Len(sent[q]) = Len(got[q]) + Len(full[q])
            BY <1>1 DEF SInv, Carries
          <5>2. \A j, k, n \in Nat : n > j /\ n <= j + k => n - j \in 1..k /\ n = j + (n - j)
            OBVIOUS
          <5>3. i \in Nat /\ i <= Len(got[q]) + Len(full[q])
            <6>1. \A n \in Nat : i \in 1..n => i \in Nat /\ i <= n
              OBVIOUS
            <6>2. i \in Nat /\ i <= Len(sent[q])
              BY <1>4, <6>1
            <6> QED BY <5>1, <6>2
          <5> QED BY <1>4, <2>2, <5>2, <5>3
        <4> QED BY <4>1
      <3>2. sent[q][i] = Content(full[q][k]) /\ full[q][k] # EndOfStream
        BY <1>1, <1>2, <1>4, <3>1 DEF SInv, Carries
      <3> QED BY <1>1, <3>2, ContentFacts
    <2> QED BY <1>4, <2>1, <2>2
  <1> QED BY <1>1, <1>5, <1>6 DEF Limit

(* Every step is one of the stream. *)
LEMMA StreamStep ==
    ASSUME SInv, NEW t \in Task, Transfers(t), NEW q \in Queue
    PROVE  [Connection(q)!Next]_(Connection(q)!streamVars)
  <1>1. IInv /\ Carries(q)
    BY DEF SInv
  <1>2. /\ sent[q] \in Seq(Nat \cup {EndOfStream}) /\ got[q] \in Seq(Nat \cup {EndOfStream})
        /\ Len(full[q]) \in Nat /\ Len(sent[q]) \in Nat /\ Len(got[q]) \in Nat
    BY <1>1, StreamTypes
  <1>3. CASE Idle(q)
    BY <1>3 DEF Idle, Connection!streamVars
  <1>4. CASE Ended(q)
    BY <1>4 DEF Ended, Connection!Close, Connection!Next
  <1>5. CASE \E v \in Nat : Pushed(t, q, v)
    <2>1. PICK v \in Nat : Pushed(t, q, v)
      BY <1>5
    <2>2. Len(full[q]) < Limit /\ \A i \in 1..Len(sent[q]) : sent[q][i] # EndOfStream
      BY <2>1, RoomToPush DEF Pushed
    <2>3. Len(sent[q]) - Len(got[q]) < Limit
      BY <1>1, <1>2, <2>2 DEF Carries, Limit
    <2>4. /\ Len(sent'[q]) = Len(sent[q]) + 1 /\ sent'[q][Len(sent'[q])] \in Nat
          /\ SubSeq(sent'[q], 1, Len(sent[q])) = sent[q] /\ got'[q] = got[q]
      BY <1>2, <2>1, AppendsOne DEF Pushed
    <2>5. Connection(q)!Send
      BY <2>2, <2>3, <2>4 DEF Connection!Send, Connection!Has, Connection!Appends
    <2> QED BY <2>5 DEF Connection!Next
  <1>6. CASE Popped(q)
    <2>1. Len(full[q]) > 0 /\ Head(full[q]) = full[q][1]
      <3>1. full[q] \in Seq(Own(q) \cup {EndOfStream}) /\ full[q] # <<>>
        BY <1>1, <1>6, StreamTypes DEF Popped
      <3> QED BY <3>1, HeadTailProperties, EmptySeq
    <2>2. Len(got[q]) < Len(sent[q]) /\ sent[q][Len(got[q]) + 1] = Content(full[q][1])
      <3>1. Len(sent[q]) = Len(got[q]) + Len(full[q]) /\ 1 \in 1..Len(full[q])
        BY <1>1, <1>2, <2>1 DEF Carries
      <3>2. sent[q][Len(got[q]) + 1] = Content(full[q][1])
        BY <1>1, <3>1 DEF Carries
      <3>3. \A j, k \in Nat : k > 0 => j < j + k
        OBVIOUS
      <3> QED BY <1>2, <2>1, <3>1, <3>2, <3>3
    <2>3. \A i \in 1..Len(got[q]) : got[q][i] # EndOfStream
      BY <1>1, <1>6, StreamTypes DEF Popped, Closed
    <2>4. got'[q] = Append(got[q], sent[q][Len(got[q]) + 1]) /\ sent'[q] = sent[q]
      BY <1>6, <2>1, <2>2 DEF Popped
    <2>5. Connection(q)!Receive
      BY <2>2, <2>3, <2>4 DEF Connection!Receive, Connection!Has
    <2> QED BY <2>5 DEF Connection!Next
  <1> QED BY <1>3, <1>4, <1>5, <1>6 DEF Transfers

LEMMA NextStreams ==
    ASSUME SInv, [Next]_vars
    PROVE  SInv' /\ \A q \in Queue : [Connection(q)!Next]_(Connection(q)!streamVars)
  <1>1. IInv'
    BY NextInv DEF SInv
  <1>2. CASE \E t \in Task : Run(t)
    <2>1. PICK t \in Task : Run(t)
      BY <1>2
    <2>2. Transfers(t)
      BY <2>1, RunTransfers DEF SInv
    <2>3. \A q \in Queue : Carries(q)'
      BY <2>2, CarriesStep
    <2>4. \A q \in Queue : [Connection(q)!Next]_(Connection(q)!streamVars)
      BY <2>2, StreamStep
    <2> QED BY <1>1, <2>3, <2>4 DEF SInv
  <1>3. CASE Abort \/ UNCHANGED vars
    <2>1. UNCHANGED <<full, sent, got, data>>
      BY <1>3 DEF Abort, vars, queueVars, streams
    <2>2. \A q \in Queue : Carries(q)'
      BY <2>1 DEF SInv, Carries, Content, Value
    <2>3. \A q \in Queue : [Connection(q)!Next]_(Connection(q)!streamVars)
      BY <2>1 DEF Connection!streamVars
    <2> QED BY <1>1, <2>2, <2>3 DEF SInv
  <1> QED BY <1>2, <1>3 DEF Next, Joined

LEMMA InitStreams == Init => SInv /\ \A q \in Queue : Connection(q)!Init
  <1> SUFFICES ASSUME Init PROVE SInv /\ \A q \in Queue : Connection(q)!Init
    OBVIOUS
  <1>1. /\ full = [q \in Queue |-> <<>>]
        /\ sent = [q \in Queue |-> <<>>] /\ got = [q \in Queue |-> <<>>]
    BY DEF Init, InitOf, InitQueues
  <1>2. ASSUME NEW q \in Queue PROVE Carries(q)
    <2>1. full[q] = <<>> /\ sent[q] = <<>> /\ got[q] = <<>> /\ Len(<<>>) = 0
      BY <1>1
    <2>2. Len(sent[q]) = 0 /\ Len(got[q]) = 0 /\ Len(full[q]) = 0 /\ 1..0 = {}
      BY <2>1
    <2> QED BY <2>2 DEF Carries
  <1>3. \A q \in Queue : Connection(q)!Init
    BY <1>1 DEF Connection!Init
  <1> QED BY <1>2, <1>3, InitInv DEF SInv

(* Whatever the graph, every connection is the stream of module Stream:    *)
(* each item that a task pushes is received once, in order and unchanged,  *)
(* at most two are in flight, and no item follows the end marker           *)
(* (the loops of ufo-fixed-scheduler.c over ufo-two-way-queue.c).          *)
THEOREM FixedStreams == Spec => StreamSpec
  <1>1. Init => SInv /\ \A q \in Queue : Connection(q)!Init
    BY InitStreams
  <1>2. SInv /\ [Next]_vars => SInv'
    BY NextStreams
  <1>3. SInv /\ [Next]_vars
          => [\A q \in Queue :
                 [Connection(q)!Next]_(Connection(q)!streamVars)]_<<sent, got>>
    BY NextStreams
  <1> QED BY <1>1, <1>2, <1>3, PTL DEF Spec, StreamSpec

----------------------------------------------------------------------------
(* The items of a history *)

Tags == Nat \cup {EndOfStream}

LEMMA ItemsFacts ==
    ASSUME NEW g \in Seq(Tags)
    PROVE  /\ Items(g) \in Seq(Tags) /\ Len(Items(g)) \in Nat
           /\ EndOfStream \notin Range(g) =>
                 /\ Items(g) = g /\ Items(Append(g, EndOfStream)) = g
                 /\ \A v \in Nat : Items(Append(g, v)) = Append(g, v)
  <1>1. EndOfStream \in Tags /\ EndOfStream \notin Nat /\ Nat \subseteq Tags
    BY FixedAssumption DEF Tags
  <1>2. PICK n \in Nat : n = Len(g) /\ DOMAIN g = 1..n
    BY LenProperties
  <1>3. Items(g) \in Seq(Tags)
    <2>1. CASE g = <<>>
      BY <2>1 DEF Items
    <2>2. CASE g # <<>>
      <3>1. n > 0
        BY <1>2, <2>2, EmptySeq
      <3>2. SubSeq(g, 1, n - 1) \in Seq(Tags)
        <4>1. \A i \in 1..n - 1 : g[i] \in Tags
          BY <1>2, <3>1
        <4> QED BY <1>2, <3>1, <4>1
      <3> QED BY <1>2, <3>2 DEF Items
    <2> QED BY <2>1, <2>2
  <1>4. ASSUME EndOfStream \notin Range(g) PROVE Items(g) = g
    <2>1. n > 0 => g[n] # EndOfStream
      BY <1>2, <1>4 DEF Range
    <2>2. g # <<>> => n > 0
      BY <1>2, EmptySeq
    <2> QED BY <1>2, <2>1, <2>2 DEF Items
  <1>5. PICK a : a = Append(g, EndOfStream)
    OBVIOUS
  <1>6. /\ a \in Seq(Tags) /\ Len(a) = n + 1 /\ a[Len(a)] = EndOfStream
        /\ SubSeq(a, 1, n) = g /\ a # <<>>
    BY <1>1, <1>2, <1>5, AppendsOne, AppendProperties, EmptySeq
  <1>7. Items(a) = g
    <2>1. Len(a) - 1 = n
      BY <1>6
    <2> QED BY <1>6, <2>1 DEF Items
  <1>8. ASSUME NEW v \in Nat PROVE Items(Append(g, v)) = Append(g, v)
    <2>1. PICK b : b = Append(g, v)
      OBVIOUS
    <2>2. b[Len(b)] = v
      BY <1>1, <2>1, AppendsOne
    <2>3. v # EndOfStream
      BY <1>1
    <2> QED BY <2>1, <2>2, <2>3 DEF Items
  <1>9. Len(Items(g)) \in Nat
    BY <1>3, LenProperties
  <1> QED BY <1>3, <1>4, <1>5, <1>7, <1>8, <1>9

(* No end marker was sent by a task that has not left. *)
LEMMA NoEndSent ==
    ASSUME SInv, NEW t \in Task, pc[t] # "done", NEW q \in Range(Out[t])
    PROVE  /\ q \in Queue /\ sent[q] \in Seq(Tags)
           /\ EndOfStream \notin Range(sent[q]) /\ Items(sent[q]) = sent[q]
  <1>1. q \in Queue /\ IInv /\ Carries(q)
    BY WiringFacts DEF SInv
  <1>2. /\ sent[q] \in Seq(Tags) /\ Len(got[q]) \in Nat /\ Len(full[q]) \in Nat
        /\ \A i \in 1..Len(full[q]) : full[q][i] \in Range(full[q])
        /\ \A i \in 1..Len(got[q]) : got[q][i] \in Range(got[q])
    BY <1>1, StreamTypes DEF Tags
  <1>3. EndOfStream \notin Range(got[q]) /\ EndOfStream \notin Range(full[q])
    BY <1>1 DEF IInv, TaskInv, Ends, Closed
  <1>4. \A i \in 1..Len(sent[q]) : sent[q][i] # EndOfStream
    <2>1. PICK m \in Nat, n \in Nat : m = Len(got[q]) /\ n = Len(full[q])
      BY <1>2
    <2>2. /\ Len(sent[q]) = m + n
          /\ \A i \in 1..m : sent[q][i] = got[q][i] /\ got[q][i] # EndOfStream
          /\ \A k \in 1..n : sent[q][m + k] = Content(full[q][k]) /\ full[q][k] # EndOfStream
      BY <1>1, <1>2, <1>3, <2>1 DEF Carries
    <2>3. \A k \in 1..n : sent[q][m + k] # EndOfStream
      BY <1>1, <2>2, ContentFacts
    <2>4. ASSUME NEW i \in 1..m + n, i > m PROVE i - m \in 1..n /\ i = m + (i - m)
      BY <2>4
    <2>5. ASSUME NEW i \in 1..m + n, i > m PROVE sent[q][i] # EndOfStream
      <3>1. PICK k \in 1..n : i = m + k
        BY <2>4, <2>5
      <3> QED BY <2>3, <3>1
    <2> QED BY <2>2, <2>5
  <1>5. EndOfStream \notin Range(sent[q])
    BY <1>2, <1>4, LenProperties DEF Range
  <1> QED BY <1>1, <1>2, <1>5, ItemsFacts

(* The value after the step of a buffer chosen before it. *)
ValueAfter(x) == IF x \in Buffer THEN data'[x] ELSE 0

(* Nobody writes to what a task reads, nor to the last buffer of an input  *)
(* whose end it has read.                                                  *)
LEMMA InputKept ==
    ASSUME IInv, NEW u \in Task, Transfers(u), NEW t \in Task, NEW i \in 1..NInputs(t),
           finished[t][i] \/ inputs[t][i] \in held[t]
    PROVE  ValueAfter(inputs[t][i]) = Value(inputs[t][i])
  <1>1. data \in [Buffer -> Nat] /\ TaskInv(t)
    BY DEF IInv, TypeInv, TypeRest
  <1>2. SUFFICES ASSUME inputs[t][i] \in Buffer, HoldsOutput(u), inputs[t][i] = out[u]
                 PROVE  FALSE
    BY <1>1 DEF Transfers, ValueAfter, Value
  <1>3. inputs[t][i] \notin held[t]
    BY <1>2 DEF IInv, Apart
  <1>4. In[t][i] \in Queue /\ inputs[t][i] \in Own(In[t][i]) /\ Closed(In[t][i])
    <2>1. inputs[t][i] # NullBuffer
      BY <1>2, FixedAssumption
    <2> QED BY <1>1, <1>3, <2>1, WiringFacts DEF TaskInv, Owned, Ends
  <1>5. PICK q \in Queue : q \in Range(Out[u]) /\ out[u] \in Own(q)
    BY <1>2, OutputFacts
  <1>6. q = In[t][i]
    <2>1. out[u][1] = q
      BY <1>5, OwnFacts DEF IInv
    <2>2. out[u][1] = In[t][i]
      BY <1>2, <1>4, OwnFacts DEF IInv
    <2> QED BY <2>1, <2>2
  <1>7. pc[u] # "done"
    BY <1>2 DEF HoldsOutput
  <1> QED BY <1>4, <1>5, <1>6, <1>7 DEF IInv, TaskInv, Ends

----------------------------------------------------------------------------
(* The items of a task with several successors *)

Serving(t) == pc[t] \in {"popout", "process"}

(* All successors have been sent the same items; while the item v goes to  *)
(* one after the other, or if the task stopped then, those before n have   *)
(* it already.                                                             *)
CopiedUpTo(t, base, v, n) ==
    /\ \A k \in 1..NOutputs(t) : Items(sent[Out[t][k]]) = IF k < n THEN Append(base, v) ELSE base
    /\ n > 1 => ~ AllFinished(t)
    /\ Serving(t) => n = idx[t] /\ v = Value(inputs[t][1]) /\ ~ AllFinished(t)
    /\ pc[t] # "done" /\ ~ Serving(t) => n = 1

Copied(t) ==
    \E base \in Seq(Tags), v \in Nat, n \in 1..NOutputs(t) : CopiedUpTo(t, base, v, n)

DInv == SInv /\ \A t \in Task : Mode[t] = "processor" => Copied(t)


LEMMA InvSameData == DInv => SameData
  <1> SUFFICES ASSUME DInv, NEW t \in Task, Mode[t] = "processor",
                      NEW j \in 2..NOutputs(t), NEW i \in 1..j - 1,
                      NEW a, NEW b, a = Items(sent[Out[t][i]]), b = Items(sent[Out[t][j]])
               PROVE  /\ \A k \in DOMAIN a \cap DOMAIN b : a[k] = b[k]
                      /\ Len(b) \in {Len(a), Len(a) - 1}
                      /\ pc[t] = "done" /\ AllFinished(t) => Len(a) = Len(b)
    BY DEF SameData
  <1>1. PICK base \in Seq(Tags), v \in Nat, n \in 1..NOutputs(t) : CopiedUpTo(t, base, v, n)
    BY DEF DInv, Copied
  <1>2. NOutputs(t) \in Nat /\ i \in 1..NOutputs(t) /\ j \in 1..NOutputs(t) /\ i < j
    BY WiringFacts
  <1>3. PICK c : c = Append(base, v)
    OBVIOUS
  <1>4. /\ a = IF i < n THEN c ELSE base
        /\ b = IF j < n THEN c ELSE base
        /\ n > 1 => ~ AllFinished(t)
    BY <1>1, <1>2, <1>3 DEF CopiedUpTo
  <1>5. v \in Tags
    BY DEF Tags
  <1>6. PICK m \in Nat : m = Len(base) /\ DOMAIN base = 1..m
    BY LenProperties
  <1>7. /\ c \in Seq(Tags) /\ Len(c) = m + 1 /\ DOMAIN c = 1..m + 1
        /\ \A k \in 1..m : c[k] = base[k]
    BY <1>3, <1>5, <1>6, AppendProperties
  <1>8. CASE a = b
    BY <1>4, <1>6, <1>7, <1>8
  <1>9. CASE a = c /\ b = base /\ n > 1
    BY <1>4, <1>6, <1>7, <1>9
  <1> QED BY <1>2, <1>4, <1>8, <1>9

(* The steps of t change nothing of another task. *)
LEMMA RunElsewhere ==
    ASSUME IInv, NEW t \in Task, Run(t)
    PROVE  /\ OthersSame(t)
           /\ \A q \in Queue \ Range(Out[t]) : sent'[q] = sent[q]
           /\ \A q \in Queue \ Range(In[t]) : got'[q] = got[q]
  <1>1. /\ DOMAIN pc = Task /\ DOMAIN idx = Task /\ DOMAIN out = Task /\ DOMAIN finished = Task
        /\ DOMAIN inputs = Task /\ DOMAIN held = Task /\ DOMAIN sent = Queue /\ DOMAIN got = Queue
    BY DEF IInv, TypeInv, TypeInputs, TypeRest
  <1>2. AtOutput(t) => OutQueue(t) \in Range(Out[t])
    BY OutputFacts
  <1>3. CASE PopInput(t)
    <2>1. PICK i, q, b :
             /\ i = Min(Pending(t)) /\ q = In[t][i] /\ b = Head(full[q])
             /\ pc[t] \in Getting /\ Pending(t) # {} /\ full[q] # <<>>
             /\ got' = [got EXCEPT ![q] = Append(@, Content(b))]
             /\ IF b = EndOfStream
                  THEN finished' = [finished EXCEPT ![t][i] = TRUE] /\ UNCHANGED <<inputs, held>>
                  ELSE /\ inputs' = [inputs EXCEPT ![t][i] = b]
                       /\ held' = [held EXCEPT ![t] = @ \cup {b}]
                       /\ UNCHANGED finished
             /\ idx' = [idx EXCEPT ![t] = i + 1]
             /\ UNCHANGED <<pc, out, sent>>
      BY <1>3, Zenon DEF PopInput, ConsumerPop
    <2>2. q \in Range(In[t])
      BY <2>1, PopInputFacts
    <2>3. \A r \in Queue \ Range(In[t]) : got'[r] = got[r]
      BY <1>1, <2>1, <2>2
    <2>4. /\ \A u \in Task \ {t} : /\ idx'[u] = idx[u] /\ finished'[u] = finished[u]
                                   /\ inputs'[u] = inputs[u] /\ held'[u] = held[u]
          /\ UNCHANGED <<pc, out, sent>>
      BY <1>1, <2>1
    <2> QED BY <2>3, <2>4 DEF OthersSame
  <1>4. CASE PopOut(t)
    BY <1>1, <1>4 DEF PopOut, OthersSame, streams
  <1>5. CASE Fail(t) \/ FirstRound(t) \/ Reget(t)
    BY <1>1, <1>5 DEF Fail, FirstRound, Reget, OthersSame, GoTo, streams
  <1>6. CASE Generate(t) \/ Regenerate(t)
    <2>1. AtOutput(t)
      BY <1>6 DEF Generate, Regenerate, AtOutput
    <2>2. /\ UNCHANGED <<finished, inputs, out, held>>
          /\ \/ PushItem(t, count[t] + 1) \/ Leave(t) \/ UNCHANGED <<sent, got>>
          /\ NextOutput(t) \/ (\E where : GoTo(t, where))
      BY <1>6 DEF Generate, Regenerate, Leave, streams
    <2>3. UNCHANGED got /\ \A q \in Queue \ Range(Out[t]) : sent'[q] = sent[q]
      BY <1>1, <1>2, <2>1, <2>2 DEF PushItem, Leave
    <2> QED BY <1>1, <2>2, <2>3 DEF OthersSame, NextOutput, GoTo
  <1>7. CASE FailGenerator(t) \/ GetRound(t)
    BY <1>1, <1>7 DEF FailGenerator, GetRound, Leave, OthersSame, GoTo, streams
  <1>8. CASE ProcessSink(t) \/ Flush(t) \/ Reduce(t)
    BY <1>1, <1>8 DEF ProcessSink, Flush, Reduce, ReleaseInputs, Leave, OthersSame, GoTo, streams
  <1>9. CASE Process(t)
    <2>1. AtOutput(t)
      BY <1>9 DEF Process, AtOutput
    <2>2. /\ UNCHANGED <<finished, inputs, out>>
          /\ PushItem(t, Value(inputs[t][1])) \/ Leave(t)
          /\ NextOutput(t) \/ (\E where : GoTo(t, where))
          /\ ReleaseInputs(t) \/ UNCHANGED held
      BY <1>9 DEF Process, AfterOutput, Leave
    <2>3. UNCHANGED got /\ \A q \in Queue \ Range(Out[t]) : sent'[q] = sent[q]
      BY <1>1, <1>2, <2>1, <2>2 DEF PushItem, Leave
    <2> QED BY <1>1, <2>2, <2>3 DEF OthersSame, NextOutput, GoTo, ReleaseInputs
  <1> QED BY <1>3, <1>4, <1>5, <1>6, <1>7, <1>8, <1>9 DEF Run

LEMMA CopiedElsewhere ==
    ASSUME DInv, NEW u \in Task, Run(u), NEW t \in Task, t # u, Mode[t] = "processor"
    PROVE  Copied(t)'
  <1>1. IInv /\ Transfers(u) /\ OthersSame(u)
    BY RunTransfers, RunElsewhere DEF DInv, SInv
  <1>2. PICK base \in Seq(Tags), v \in Nat, n \in 1..NOutputs(t) : CopiedUpTo(t, base, v, n)
    BY DEF DInv, Copied
  <1>3. /\ pc'[t] = pc[t] /\ idx'[t] = idx[t] /\ finished'[t] = finished[t]
        /\ inputs'[t] = inputs[t]
    BY <1>1 DEF OthersSame
  <1>4. \A k \in 1..NOutputs(t) : sent'[Out[t][k]] = sent[Out[t][k]]
    <2>1. \A k \in 1..NOutputs(t) : Out[t][k] \in Queue \ Range(Out[u])
      BY WiringFacts
    <2> QED BY <1>1, <2>1, RunElsewhere
  <1>5. Serving(t) => Value(inputs[t][1])' = Value(inputs[t][1])
    <2>1. ASSUME Serving(t) PROVE ValueAfter(inputs[t][1]) = Value(inputs[t][1])
      <3>1. AllThere(t)
        BY <1>1, <2>1, GotAll DEF Serving, Getting
      <3>2. 1 \in 1..NInputs(t)
        BY FixedAssumption, WiringFacts
      <3> QED BY <1>1, <3>1, <3>2, InputKept DEF AllThere
    <2> QED BY <1>3, <2>1 DEF Value, ValueAfter
  <1>6. CopiedUpTo(t, base, v, n)'
    <2>1. \A k \in 1..NOutputs(t) : Items(sent[Out[t][k]])' = IF k < n THEN Append(base, v) ELSE base
      BY <1>2, <1>4 DEF CopiedUpTo, Items
    <2>2. AllFinished(t)' = AllFinished(t) /\ Serving(t)' = Serving(t)
      BY <1>3 DEF AllFinished, Serving
    <2> QED BY <1>2, <1>3, <1>5, <2>1, <2>2 DEF CopiedUpTo
  <1> QED BY <1>6 DEF Copied

LEMMA CopiedIdle ==
    ASSUME DInv, NEW t \in Task, Mode[t] = "processor", UNCHANGED sent, IInv',
           pc[t] # "done", pc'[t] # "done", ~ Serving(t),
           Serving(t)' => idx'[t] = 1 /\ ~ AllFinished(t)'
    PROVE  Copied(t)'
  <1>1. PICK base \in Seq(Tags), v \in Nat, n \in 1..NOutputs(t) : CopiedUpTo(t, base, v, n)
    BY DEF DInv, Copied
  <1>2. n = 1
    BY <1>1 DEF CopiedUpTo
  <1>3. PICK w : w = Value(inputs[t][1])'
    OBVIOUS
  <1>4. w \in Nat
    BY <1>3 DEF IInv, TypeInv, TypeRest, Value
  <1>5. NOutputs(t) \in Nat
    BY WiringFacts
  <1>6. \A k \in 1..NOutputs(t) : Items(sent[Out[t][k]])' = IF k < 1 THEN Append(base, w) ELSE base
    BY <1>1, <1>2, <1>5 DEF CopiedUpTo, Items
  <1>7. CopiedUpTo(t, base, w, 1)'
    BY <1>3, <1>6 DEF CopiedUpTo
  <1> QED BY <1>2, <1>4, <1>7 DEF Copied

LEMMA CopiedLeave ==
    ASSUME DInv, NEW t \in Task, Mode[t] = "processor", pc[t] # "done", Leave(t),
           UNCHANGED finished
    PROVE  Copied(t)'
  <1>1. PICK base \in Seq(Tags), v \in Nat, n \in 1..NOutputs(t) : CopiedUpTo(t, base, v, n)
    BY DEF DInv, Copied
  <1>2. pc'[t] = "done" /\ ~ Serving(t)' /\ AllFinished(t)' = AllFinished(t)
    <2>1. pc'[t] = "done"
      BY LeaveGives DEF DInv, SInv
    <2> QED BY <2>1 DEF Serving, AllFinished
  <1>3. ASSUME NEW k \in 1..NOutputs(t)
        PROVE  Items(sent[Out[t][k]])' = Items(sent[Out[t][k]])
    <2>1. PICK q : q = Out[t][k]
      OBVIOUS
    <2>2. q \in Range(Out[t]) /\ q \in Queue
      BY <2>1, WiringFacts
    <2>3. /\ sent[q] \in Seq(Tags)
          /\ EndOfStream \notin Range(sent[q]) /\ Items(sent[q]) = sent[q]
      BY <2>2, NoEndSent DEF DInv
    <2>4. sent'[q] = Append(sent[q], EndOfStream)
      BY <2>2 DEF Leave
    <2>5. Items(sent'[q]) = Items(sent[q])
      BY <2>3, <2>4, ItemsFacts
    <2> QED BY <2>1, <2>5 DEF Items
  <1>4. CopiedUpTo(t, base, v, n)'
    BY <1>1, <1>2, <1>3 DEF CopiedUpTo
  <1> QED BY <1>4 DEF Copied

(* One more successor gets the item of this round. *)
LEMMA CopiedPush ==
    ASSUME DInv, NEW t \in Task, Mode[t] = "processor", pc[t] = "process",
           PushItem(t, Value(inputs[t][1])), UNCHANGED <<finished, inputs>>,
           \/ LastOutput(t) /\ pc'[t] = "get"
           \/ ~ LastOutput(t) /\ pc'[t] = "popout" /\ idx'[t] = idx[t] + 1
    PROVE  Copied(t)'
  <1>1. PICK base \in Seq(Tags), v \in Nat, n \in 1..NOutputs(t) : CopiedUpTo(t, base, v, n)
    BY DEF DInv, Copied
  <1>2. /\ n = idx[t] /\ v = Value(inputs[t][1]) /\ ~ AllFinished(t)
        /\ \A k \in 1..NOutputs(t) : Items(sent[Out[t][k]]) = IF k < n THEN Append(base, v) ELSE base
    BY <1>1 DEF CopiedUpTo, Serving
  <1>3. IInv /\ DOMAIN sent = Queue /\ NOutputs(t) \in Nat
    BY WiringFacts DEF DInv, SInv, IInv, TypeInv, TypeRest
  <1>4. sent' = [sent EXCEPT ![Out[t][n]] = Append(@, v)] /\ data' = [data EXCEPT ![out[t]] = v]
    BY <1>2 DEF PushItem, OutQueue
  <1>5. ASSUME NEW k \in 1..NOutputs(t)
        PROVE  Items(sent[Out[t][k]])' = IF k < n + 1 THEN Append(base, v) ELSE base
    <2>1. PICK q : q = Out[t][k]
      OBVIOUS
    <2>2. q \in Range(Out[t]) /\ q \in Queue
      BY <2>1, WiringFacts
    <2>3. CASE k = n
      <3>1. sent'[q] = Append(sent[q], v)
        BY <1>3, <1>4, <2>1, <2>2, <2>3
      <3>2. /\ sent[q] \in Seq(Tags)
            /\ EndOfStream \notin Range(sent[q]) /\ Items(sent[q]) = sent[q]
        BY <2>2, NoEndSent DEF DInv
      <3>3. Items(sent'[q]) = Append(Items(sent[q]), v)
        BY <3>1, <3>2, ItemsFacts
      <3>4. Items(sent[q]) = base
        BY <1>2, <2>1, <2>3
      <3>5. Items(sent[q])' = Append(base, v) /\ k < n + 1
        BY <1>3, <2>3, <3>3, <3>4
      <3> QED BY <2>1, <3>5
    <2>4. CASE k # n
      <3>1. q # Out[t][n]
        <4>1. DOMAIN Out[t] = 1..NOutputs(t) /\ IsInjective(Out[t])
          <5>1. Out[t] \in Seq(Queue) /\ IsInjective(Out[t])
            BY FixedAssumption
          <5> QED BY <5>1, LenProperties DEF NOutputs
        <4> QED BY <2>1, <2>4, <4>1 DEF IsInjective
      <3>2. sent'[q] = sent[q]
        BY <1>4, <3>1
      <3>3. Items(sent[q])' = Items(sent[q])
        BY <2>1, <3>2 DEF Items
      <3>4. k < n + 1 <=> k < n
        BY <1>3, <2>4
      <3> QED BY <1>2, <2>1, <3>3, <3>4
    <2> QED BY <2>3, <2>4
  <1>6. AllFinished(t)' = AllFinished(t)
    BY DEF AllFinished
  <1>7. CASE LastOutput(t) /\ pc'[t] = "get"
    <2>1. PICK b2 : b2 = Append(base, v)
      OBVIOUS
    <2>2. v \in Tags /\ b2 \in Seq(Tags)
      BY <2>1, AppendProperties DEF Tags
    <2>3. n = NOutputs(t) /\ 1 \in 1..NOutputs(t) /\ ~ Serving(t)'
      BY <1>2, <1>3, <1>7 DEF LastOutput, Serving
    <2>4. \A k \in 1..NOutputs(t) : Items(sent[Out[t][k]])' = IF k < 1 THEN Append(b2, v) ELSE b2
      BY <1>3, <1>5, <2>1, <2>3
    <2>5. CopiedUpTo(t, b2, v, 1)'
      BY <2>3, <2>4 DEF CopiedUpTo
    <2> QED BY <2>2, <2>3, <2>5 DEF Copied
  <1>8. CASE ~ LastOutput(t) /\ pc'[t] = "popout" /\ idx'[t] = idx[t] + 1
    <2>1. n + 1 \in 1..NOutputs(t)
      BY <1>2, <1>3, <1>8 DEF LastOutput
    <2>2. Value(inputs[t][1])' = v
      <3>1. AllThere(t)
        BY <1>3, GotAll DEF Getting
      <3>2. 1 \in 1..NInputs(t)
        BY FixedAssumption, WiringFacts
      <3>3. Transfers(t)
        <4>1. AtOutput(t) /\ HoldsOutput(t)
          BY DEF AtOutput, HoldsOutput
        <4> QED BY <1>2, <1>3, <4>1, PushTransfers DEF Transfers
      <3>4. ValueAfter(inputs[t][1]) = v
        BY <1>2, <1>3, <3>1, <3>2, <3>3, InputKept DEF AllThere
      <3> QED BY <3>4 DEF Value, ValueAfter
    <2>3. CopiedUpTo(t, base, v, n + 1)'
      <3>1. Serving(t)' => n + 1 = idx'[t] /\ v = Value(inputs[t][1])' /\ ~ AllFinished(t)'
        BY <1>2, <1>6, <1>8, <2>2
      <3>2. Serving(t)' /\ ~ AllFinished(t)'
        BY <1>2, <1>6, <1>8 DEF Serving
      <3> QED BY <1>5, <3>1, <3>2 DEF CopiedUpTo
    <2> QED BY <2>1, <2>3 DEF Copied
  <1> QED BY <1>7, <1>8

LEMMA CopiedStep ==
    ASSUME DInv, NEW t \in Task, Run(t), Mode[t] = "processor"
    PROVE  Copied(t)'
  <1>1. /\ IInv /\ IInv' /\ pc[t] \in {"get", "popout", "process", "flush", "done"}
        /\ DOMAIN pc = Task /\ DOMAIN idx = Task
    BY RunStep, ModeFacts DEF DInv, SInv, IInv, TypeInv, TypeRest, PCs
  <1>2. CASE PopInput(t)
    <2>1. UNCHANGED <<pc, sent>> /\ pc[t] \in Getting
      BY <1>2 DEF PopInput
    <2>2. ~ Serving(t) /\ ~ Serving(t)' /\ pc[t] # "done" /\ pc'[t] # "done"
      BY <2>1 DEF Serving, Getting
    <2> QED BY <1>1, <2>1, <2>2, CopiedIdle
  <1>3. CASE PopOut(t)
    <2>1. /\ UNCHANGED <<sent, idx, inputs, finished, data>>
          /\ pc[t] = "popout" /\ pc'[t] = "process"
      BY <1>1, <1>3 DEF PopOut, streams
    <2>2. PICK base \in Seq(Tags), v \in Nat, n \in 1..NOutputs(t) : CopiedUpTo(t, base, v, n)
      BY DEF DInv, Copied
    <2>3. CopiedUpTo(t, base, v, n)'
      BY <2>1, <2>2 DEF CopiedUpTo, Items, Serving, AllFinished, Value
    <2> QED BY <2>3 DEF Copied
  <1>4. CASE GetRound(t)
    <2>1. pc[t] = "get" /\ ~ Serving(t) /\ UNCHANGED finished
      BY <1>4 DEF GetRound, GotInputs, Serving
    <2>2. CASE Leave(t)
      BY <2>1, <2>2, CopiedLeave
    <2>3. CASE ~ AllFinished(t) /\ GoTo(t, "popout") /\ UNCHANGED sent
      <3>1. pc'[t] = "popout" /\ idx'[t] = 1 /\ ~ AllFinished(t)'
        BY <1>1, <2>1, <2>3 DEF GoTo, AllFinished
      <3> QED BY <1>1, <2>1, <2>3, <3>1, CopiedIdle
    <2> QED BY <1>4, <2>2, <2>3 DEF GetRound, streams
  <1>5. CASE Process(t)
    <2>1. pc[t] = "process" /\ UNCHANGED <<finished, inputs>>
      BY <1>5 DEF Process
    <2>2. CASE Leave(t)
      BY <2>1, <2>2, CopiedLeave
    <2>3. CASE PushItem(t, Value(inputs[t][1])) /\ AfterOutput(t)
      <3>1. \/ LastOutput(t) /\ pc'[t] = "get"
            \/ ~ LastOutput(t) /\ pc'[t] = "popout" /\ idx'[t] = idx[t] + 1
        BY <1>1, <2>3 DEF AfterOutput, GoTo, NextOutput
      <3> QED BY <2>1, <2>3, <3>1, CopiedPush
    <2> QED BY <1>5, <2>2, <2>3 DEF Process
  <1>6. CASE Fail(t)
    <2>1. pc[t] \in {"get", "first"} /\ pc'[t] = "flush" /\ UNCHANGED sent
      BY <1>1, <1>6 DEF Fail, GotInputs, GoTo, streams
    <2> QED BY <1>1, <2>1, CopiedIdle DEF Serving
  <1>7. CASE Flush(t)
    <2>1. pc[t] = "flush" /\ UNCHANGED finished
      BY <1>7 DEF Flush, GotInputs
    <2>2. CASE Leave(t)
      BY <2>1, <2>2, CopiedLeave
    <2>3. CASE GoTo(t, "flush") /\ UNCHANGED streams
      <3>1. pc'[t] = "flush" /\ UNCHANGED sent
        BY <1>1, <2>3 DEF GoTo, streams
      <3> QED BY <1>1, <2>1, <3>1, CopiedIdle DEF Serving
    <2> QED BY <1>7, <2>2, <2>3 DEF Flush
  <1>8. ~ (Generate(t) \/ FailGenerator(t) \/ ProcessSink(t) \/ FirstRound(t) \/ Reduce(t)
           \/ Reget(t) \/ Regenerate(t))
    BY <1>1 DEF Generate, FailGenerator, ProcessSink, FirstRound, Reduce, Reget, Regenerate, GotInputs
  <1> QED BY <1>2, <1>3, <1>4, <1>5, <1>6, <1>7, <1>8 DEF Run

LEMMA NextCopied == DInv /\ [Next]_vars => DInv'
  <1> SUFFICES ASSUME DInv, [Next]_vars PROVE DInv'
    OBVIOUS
  <1>1. SInv'
    BY NextStreams DEF DInv
  <1>2. CASE \E u \in Task : Run(u)
    <2>1. PICK u \in Task : Run(u)
      BY <1>2
    <2> QED BY <1>1, <2>1, CopiedElsewhere, CopiedStep DEF DInv
  <1>3. CASE UNCHANGED <<pc, idx, finished, inputs, data, sent>>
    <2>1. ASSUME NEW t \in Task, Copied(t) PROVE Copied(t)'
      <3>1. PICK base \in Seq(Tags), v \in Nat, n \in 1..NOutputs(t) : CopiedUpTo(t, base, v, n)
        BY <2>1 DEF Copied
      <3>2. \A k \in 1..NOutputs(t) : Items(sent[Out[t][k]])' = Items(sent[Out[t][k]])
        BY <1>3
      <3>3. /\ AllFinished(t)' = AllFinished(t) /\ Serving(t)' = Serving(t)
            /\ Value(inputs[t][1])' = Value(inputs[t][1])
        BY <1>3 DEF AllFinished, Serving, Value
      <3>4. CopiedUpTo(t, base, v, n)'
        BY <1>3, <3>1, <3>2, <3>3 DEF CopiedUpTo
      <3> QED BY <3>4 DEF Copied
    <2> QED BY <1>1, <2>1 DEF DInv
  <1> QED BY <1>2, <1>3 DEF Next, Abort, Joined, vars, threadVars, streams

LEMMA InitCopied == Init => DInv
  <1> SUFFICES ASSUME Init PROVE DInv
    OBVIOUS
  <1>1. SInv
    BY InitStreams
  <1>2. ASSUME NEW t \in Task, Mode[t] = "processor" PROVE Copied(t)
    <2>1. pc[t] = "get" /\ \A q \in Queue : sent[q] = <<>>
      BY <1>2 DEF Init, InitOf, Entry
    <2>2. NOutputs(t) \in Nat /\ NOutputs(t) # 0
      BY <1>2, FixedAssumption, WiringFacts
    <2>3. \A k \in 1..NOutputs(t) : Items(sent[Out[t][k]]) = <<>>
      BY <2>1, WiringFacts DEF Items
    <2>4. PICK base \in Seq(Tags) : base = <<>>
      BY EmptySeq
    <2>5. \A k \in 1..NOutputs(t) : Items(sent[Out[t][k]]) = IF k < 1 THEN Append(base, 0) ELSE base
      BY <2>2, <2>3, <2>4
    <2>6. CopiedUpTo(t, base, 0, 1)
      <3>1. ~ Serving(t)
        BY <2>1 DEF Serving
      <3> QED BY <2>5, <3>1 DEF CopiedUpTo
    <2>7. 0 \in Nat /\ 1 \in 1..NOutputs(t)
      BY <2>2
    <2> QED BY <2>6, <2>7 DEF Copied
  <1> QED BY <1>1, <1>2 DEF DInv

(* A task with several successors hands them all the same items: process   *)
(* runs once for each of them on the same inputs (process_loop of          *)
(* ufo-fixed-scheduler.c), nobody writes to those meanwhile, and it does   *)
(* not leave between two of them unless it was stopped.                    *)
THEOREM FixedSameData == Spec => []SameData
  <1>1. DInv /\ [Next]_vars => DInv'
    BY NextCopied
  <1> QED BY <1>1, InitCopied, InvSameData, PTL DEF Spec

----------------------------------------------------------------------------
(* Ends of streams, and what is read before something is sent *)

(* An end marker is the last thing in a queue, and there is nothing behind *)
(* the one that was read.                                                  *)
EndLast(q) ==
    /\ \A k \in 1..Len(full[q]) : full[q][k] = EndOfStream => k = Len(full[q])
    /\ Closed(q) => full[q] = <<>>

(* A task that asks for an output buffer, or has it, has input to process. *)
Unfinished(t) ==
    Mode[t] \in {"processor", "sink", "reductor"} /\ pc[t] \in {"popout", "process", "reduce"}
        => ~ AllFinished(t)

(* A reductor that never stops by itself reads all before it sends. *)
ReadsAll(t) ==
    Mode[t] = "reductor" /\ t \notin MayStop =>
        /\ go[t]
        /\ pc[t] \in {"regenerate", "repopout"} => AllFinished(t) \/ aborted
        /\ sent[Out[t][1]] # <<>> => AllFinished(t)

RInv ==
    /\ DInv
    /\ go \in [Task -> BOOLEAN]
    /\ \A q \in Queue : EndLast(q)
    /\ \A t \in Task : Unfinished(t) /\ ReadsAll(t)

LEMMA RunActive ==
    ASSUME NEW t \in Task, Run(t)
    PROVE  pc[t] # "done"
  BY DEF Run, PopInput, PopOut, Generate, FailGenerator, GetRound, ProcessSink, Process, Fail,
         Flush, FirstRound, Reduce, Reget, Regenerate, GotInputs, Getting

LEMMA EndLastStep ==
    ASSUME RInv, NEW t \in Task, Run(t), NEW q \in Queue
    PROVE  EndLast(q)'
  <1>1. IInv /\ EndLast(q) /\ Transfers(t) /\ pc[t] # "done"
    BY RunTransfers, RunActive DEF RInv, DInv, SInv
  <1>n. PICK n \in Nat : n = Len(full[q])
    BY <1>1, StreamTypes
  <1>2. PICK f :
           /\ f = full[q] /\ n = Len(f) /\ f \in Seq(Own(q) \cup {EndOfStream})
           /\ \A k \in 1..n : f[k] \in Range(full[q])
           /\ got[q] \in Seq(Tags) /\ sent[q] \in Seq(Tags)
    BY <1>1, <1>n, StreamTypes DEF Tags
  <1>3. EndOfStream \in Tags /\ Nat \subseteq Tags
    BY DEF Tags
  <1>4. Idle(q) \/ (\E v \in Nat : Pushed(t, q, v)) \/ Ended(q) \/ Popped(q)
    BY <1>1 DEF Transfers
  <1>5. CASE Idle(q)
    BY <1>1, <1>5 DEF Idle, EndLast, Closed
  <1>6. ASSUME NEW x \in Own(q) \cup {EndOfStream}, q \in Range(Out[t]),
               full'[q] = Append(f, x), got'[q] = got[q]
        PROVE  EndLast(q)'
    <2>1. ~ Closed(q) /\ EndOfStream \notin Range(full[q])
      BY <1>1, <1>6 DEF IInv, TaskInv, Ends
    <2>2. \A k \in 1..n : f[k] # EndOfStream
      BY <1>2, <2>1
    <2>3. Len(full'[q]) = n + 1 /\ \A k \in 1..n : full'[q][k] = f[k]
      BY <1>2, <1>6, AppendProperties
    <2>4. \A k \in 1..n + 1 : k \in 1..n \/ k = n + 1
      OBVIOUS
    <2>5. \A k \in 1..Len(full'[q]) : full'[q][k] = EndOfStream => k = Len(full'[q])
      BY <2>2, <2>3, <2>4
    <2> QED BY <1>6, <2>1, <2>5 DEF EndLast, Closed
  <1>7. CASE \E v \in Nat : Pushed(t, q, v)
    <2>1. OutQueue(t) \in Range(Out[t]) /\ out[t] \in Own(q)
      BY <1>1, <1>7, OutputFacts DEF Pushed
    <2> QED BY <1>2, <1>6, <1>7, <2>1 DEF Pushed
  <1>8. CASE Ended(q)
    <2>1. q \in Range(Out[t])
      <3>1. Len(Append(sent[q], EndOfStream)) = Len(sent[q]) + 1 /\ Len(sent[q]) \in Nat
        BY <1>2, <1>3, AppendProperties
      <3>2. sent'[q] # sent[q]
        BY <1>8, <3>1 DEF Ended
      <3> QED BY <1>1, <3>2, RunElsewhere
    <2> QED BY <1>2, <1>6, <1>8, <2>1 DEF Ended
  <1>9. CASE Popped(q)
    <2>1. /\ f # <<>> /\ full'[q] = Tail(f) /\ ~ Closed(q)
          /\ got'[q] = Append(got[q], Content(Head(f)))
      BY <1>2, <1>9 DEF Popped
    <2>2. /\ n > 0 /\ Len(Tail(f)) = n - 1 /\ \A k \in 1..n - 1 : Tail(f)[k] = f[k + 1]
          /\ Head(f) = f[1] /\ Tail(f) \in Seq(Own(q) \cup {EndOfStream})
      BY <1>2, <2>1, HeadTailProperties, EmptySeq
    <2>3. \A k \in 1..n : f[k] = EndOfStream => k = n
      BY <1>1, <1>2 DEF EndLast
    <2>4. ASSUME NEW k \in 1..n - 1, Tail(f)[k] = EndOfStream PROVE k = n - 1
      <3>1. k + 1 \in 1..n /\ f[k + 1] = EndOfStream
        BY <2>2, <2>4
      <3>2. k + 1 = n
        BY <2>3, <3>1
      <3> QED BY <1>2, <3>2
    <2>5. ASSUME Closed(q)' PROVE Tail(f) = <<>>
      <3>1. Range(got'[q]) = Range(got[q]) \cup {Content(Head(f))}
        <4>1. Content(Head(f)) \in Tags
          BY <1>1, ContentFacts DEF Tags
        <4> QED BY <1>2, <2>1, <4>1, AppendRange
      <3>2. Content(Head(f)) = EndOfStream
        BY <2>1, <2>5, <3>1 DEF Closed
      <3>3. f[1] = EndOfStream
        BY <1>1, <2>2, <3>2, ContentFacts
      <3>4. n = 1
        BY <2>2, <2>3, <3>3
      <3>5. Tail(f) \in Seq(Own(q) \cup {EndOfStream}) /\ Len(Tail(f)) = 0
        BY <2>2, <3>4
      <3> QED BY <3>5, EmptySeq
    <2> QED BY <2>1, <2>2, <2>4, <2>5 DEF EndLast
  <1> QED BY <1>4, <1>5, <1>7, <1>8, <1>9

(* The switch of a reductor, and the calls, are its own. *)
LEMMA RunAlone ==
    ASSUME NEW t \in Task, Run(t), NEW u \in Task, u # t
    PROVE  /\ DOMAIN go = Task => go'[u] = go[u]
           /\ DOMAIN log = Task => log'[u] = log[u]
  <1>1. /\ UNCHANGED go \/ Reduce(t)
        /\ UNCHANGED log \/ Consume(t)
    BY DEF Run, PopInput, PopOut, Generate, FailGenerator, GetRound, ProcessSink, Process, Fail,
           Flush, FirstRound, Reduce, Reget, Regenerate
  <1>2. DOMAIN go = Task /\ Reduce(t) => go'[u] = go[u]
    BY DEF Reduce
  <1>3. DOMAIN log = Task /\ Consume(t) => log'[u] = log[u]
    BY DEF Consume
  <1> QED BY <1>1, <1>2, <1>3

LEMMA ReadsElsewhere ==
    ASSUME RInv, NEW u \in Task, Run(u), NEW t \in Task, t # u
    PROVE  Unfinished(t)' /\ ReadsAll(t)'
  <1>1. /\ IInv /\ OthersSame(u) /\ Unfinished(t) /\ ReadsAll(t) /\ go'[t] = go[t]
        /\ aborted' = aborted
    <2>1. aborted' = aborted
      BY DEF Run, PopInput, PopOut, Generate, FailGenerator, GetRound, ProcessSink, Process, Fail,
             Flush, FirstRound, Reduce, Reget, Regenerate
    <2> QED BY <2>1, RunElsewhere, RunAlone DEF RInv, DInv, SInv
  <1>2. pc'[t] = pc[t] /\ AllFinished(t)' = AllFinished(t)
    BY <1>1 DEF OthersSame, AllFinished
  <1>3. Mode[t] = "reductor" => sent'[Out[t][1]] = sent[Out[t][1]]
    <2>1. ASSUME Mode[t] = "reductor" PROVE Out[t][1] \in Queue \ Range(Out[u])
      <3>1. 1 \in 1..NOutputs(t)
        BY <2>1, FixedAssumption
      <3> QED BY <3>1, WiringFacts
    <2> QED BY <1>1, <2>1, RunElsewhere
  <1> QED BY <1>1, <1>2, <1>3 DEF Unfinished, ReadsAll

LEMMA UnfinishedStep ==
    ASSUME RInv, NEW t \in Task, Run(t)
    PROVE  Unfinished(t)'
  <1>1. IInv /\ Unfinished(t) /\ DOMAIN pc = Task /\ pc[t] \in PCs(Mode[t])
    BY ModeFacts DEF RInv, DInv, SInv, IInv, TypeInv, TypeRest
  <1>2. UNCHANGED finished => AllFinished(t)' = AllFinished(t)
    BY DEF AllFinished
  <1>3. CASE PopInput(t)
    BY <1>1, <1>3 DEF PopInput, Unfinished, Getting
  <1>4. CASE PopOut(t)
    BY <1>1, <1>2, <1>4 DEF PopOut, Unfinished
  <1>5. CASE Generate(t) \/ FailGenerator(t)
    BY <1>1, <1>5 DEF Generate, FailGenerator, Unfinished, PCs
  <1>6. CASE GetRound(t) \/ FirstRound(t) \/ Reget(t)
    BY <1>1, <1>2, <1>6 DEF GetRound, FirstRound, Reget, Leave, GoTo, Unfinished
  <1>7. CASE ProcessSink(t) \/ Fail(t) \/ Flush(t) \/ Reduce(t)
    BY <1>1, <1>7 DEF ProcessSink, Fail, Flush, Reduce, Leave, GoTo, Unfinished
  <1>8. CASE Process(t)
    <2>1. ~ AllFinished(t) /\ UNCHANGED finished
      BY <1>1, <1>8 DEF Process, Unfinished
    <2> QED BY <1>2, <2>1 DEF Unfinished
  <1>9. CASE Regenerate(t)
    BY <1>1, <1>2, <1>9 DEF Regenerate, Leave, GoTo, Unfinished
  <1> QED BY <1>3, <1>4, <1>5, <1>6, <1>7, <1>8, <1>9 DEF Run

LEMMA ReadsAllStep ==
    ASSUME RInv, NEW t \in Task, Run(t)
    PROVE  ReadsAll(t)'
  <1> SUFFICES ASSUME Mode[t] = "reductor", t \notin MayStop
               PROVE  /\ go'[t]
                      /\ pc'[t] \in {"regenerate", "repopout"} => AllFinished(t)' \/ aborted'
                      /\ sent'[Out[t][1]] # <<>> => AllFinished(t)'
    BY DEF ReadsAll
  <1>1. /\ IInv /\ DOMAIN pc = Task /\ DOMAIN go = Task
        /\ pc[t] \in {"first", "popout", "reduce", "reget", "regenerate", "repopout", "flush", "done"}
        /\ go[t] /\ (pc[t] \in {"regenerate", "repopout"} => AllFinished(t) \/ aborted)
        /\ sent[Out[t][1]] # <<>> => AllFinished(t)
    BY ModeFacts DEF RInv, DInv, SInv, IInv, TypeInv, TypeRest, ReadsAll, PCs
  <1>2. UNCHANGED finished => AllFinished(t)' = AllFinished(t)
    BY DEF AllFinished
  <1>3. CASE PopInput(t)
    <2>1. /\ Pending(t) # {} /\ pc[t] \in Getting /\ UNCHANGED <<pc, go, sent, aborted>>
      BY <1>3 DEF PopInput
    <2>2. ~ AllFinished(t)
      <3>1. Pending(t) \subseteq 1..NInputs(t)
        <4>1. idx[t] \in Nat \ {0} /\ NInputs(t) \in Nat
          BY <1>1, WiringFacts DEF IInv, TypeInv, TypeRest
        <4> QED BY <4>1 DEF Pending
      <3> QED BY <2>1, <3>1 DEF Pending, AllFinished
    <2> QED BY <1>1, <2>1, <2>2 DEF Getting
  <1>4. CASE PopOut(t) \/ FirstRound(t) \/ Fail(t)
    BY <1>1, <1>2, <1>4 DEF PopOut, FirstRound, Fail, GoTo, streams, GotInputs
  <1>5. CASE Reget(t)
    BY <1>1, <1>2, <1>5 DEF Reget, GoTo, streams
  <1>6. CASE Reduce(t)
    BY <1>1, <1>2, <1>6 DEF Reduce, GoTo, streams
  <1>7. CASE Flush(t)
    BY <1>1, <1>2, <1>7 DEF Flush, Leave, GoTo, streams
  <1>8. CASE Regenerate(t)
    BY <1>1, <1>2, <1>8 DEF Regenerate, Leave, GoTo, streams
  <1>9. ~ (Generate(t) \/ FailGenerator(t) \/ ProcessSink(t) \/ GetRound(t) \/ Process(t))
    BY <1>1 DEF Generate, FailGenerator, ProcessSink, GetRound, GotInputs, Process
  <1> QED BY <1>3, <1>4, <1>5, <1>6, <1>7, <1>8, <1>9 DEF Run

LEMMA NextReads == RInv /\ [Next]_vars => RInv'
  <1> SUFFICES ASSUME RInv, [Next]_vars PROVE RInv'
    OBVIOUS
  <1>1. DInv'
    BY NextCopied DEF RInv
  <1>2. CASE \E u \in Task : Run(u)
    <2>1. PICK u \in Task : Run(u)
      BY <1>2
    <2>2. \A t \in Task : Unfinished(t)' /\ ReadsAll(t)'
      BY <2>1, ReadsElsewhere, UnfinishedStep, ReadsAllStep
    <2>3. go' \in [Task -> BOOLEAN]
      <3>1. UNCHANGED go \/ Reduce(u)
        BY <2>1 DEF Run, PopInput, PopOut, Generate, FailGenerator, GetRound, ProcessSink, Process,
                    Fail, Flush, FirstRound, Reduce, Reget, Regenerate
      <3> QED BY <3>1 DEF Reduce, RInv
    <2> QED BY <1>1, <2>1, <2>2, <2>3, EndLastStep DEF RInv
  <1>3. CASE Abort \/ UNCHANGED vars
    <2>1. UNCHANGED <<full, pc, finished, go, sent, got>> /\ (aborted => aborted')
      BY <1>3 DEF Abort, vars, queueVars, threadVars, streams
    <2>2. ASSUME NEW t \in Task PROVE Unfinished(t)' /\ ReadsAll(t)'
      <3>1. AllFinished(t)' = AllFinished(t)
        BY <2>1 DEF AllFinished
      <3> QED BY <2>1, <3>1 DEF RInv, Unfinished, ReadsAll
    <2>3. \A q \in Queue : EndLast(q)'
      BY <2>1 DEF RInv, EndLast, Closed
    <2> QED BY <1>1, <2>1, <2>2, <2>3 DEF RInv
  <1> QED BY <1>2, <1>3 DEF Next, Joined

LEMMA InitReads == Init => RInv
  <1> SUFFICES ASSUME Init PROVE RInv
    OBVIOUS
  <1>1. DInv
    BY InitCopied
  <1>2. /\ go = [t \in Task |-> TRUE] /\ pc = [t \in Task |-> Entry(t)]
        /\ full = [q \in Queue |-> <<>>]
        /\ sent = [q \in Queue |-> <<>>] /\ got = [q \in Queue |-> <<>>]
    BY DEF Init, InitOf, InitQueues
  <1>3. ASSUME NEW q \in Queue PROVE EndLast(q)
    <2>1. full[q] = <<>> /\ Len(<<>>) = 0 /\ 1..0 = {}
      BY <1>2
    <2> QED BY <2>1 DEF EndLast
  <1>4. ASSUME NEW t \in Task PROVE Unfinished(t) /\ ReadsAll(t)
    <2>1. /\ Mode[t] \in {"processor", "sink", "reductor"} =>
                pc[t] \notin {"popout", "process", "reduce", "regenerate", "repopout"}
          /\ go[t]
      BY <1>2 DEF Entry
    <2>2. Mode[t] = "reductor" => sent[Out[t][1]] = <<>>
      <3>1. Mode[t] = "reductor" => Out[t][1] \in Queue
        BY FixedAssumption, WiringFacts
      <3> QED BY <1>2, <3>1
    <2> QED BY <2>1, <2>2 DEF Unfinished, ReadsAll
  <1> QED BY <1>1, <1>2, <1>3, <1>4 DEF RInv

----------------------------------------------------------------------------
(* The items and the calls of a task, input by input: n items were read in *)
(* m calls.                                                                *)

InStep(t, i, n, m) ==
    /\ pc[t] \notin {"flush", "done"} =>
          IF finished[t][i] THEN n <= m ELSE n = IF i \in Fetched(t) THEN m + 1 ELSE m
    /\ ~ finished[t][i] => m <= n

(* An input that is being read is the last item; the buffer of one that    *)
(* was given back still has it, until there is another item behind it.     *)
LastRead(t, i, q, b, items, n) ==
    n > 0 =>
        /\ b \in Own(q)
        /\ i \in Fetched(t) /\ ~ finished[t][i] => Value(b) = items[n]
        /\ Value(b) = items[n] \/ b \in Range(full[q]) \/ WrittenBehind(q)

Logged(calls, i, q, items, n, m) ==
    n > 0 =>
        \A k \in 1..m : k <= n \/ ~ WrittenBehind(q) =>
            calls[k][i] = items[IF k <= n THEN k ELSE n]

Paired(t, i, q, items, n, m) ==
    /\ InStep(t, i, n, m)
    /\ LastRead(t, i, q, inputs[t][i], items, n)
    /\ Logged(log[t], i, q, items, n, m)

InputPaired(t, i) ==
    LET items == Items(got[In[t][i]])
    IN  Paired(t, i, In[t][i], items, Len(items), Len(log[t]))

Calls(t) == Seq([1..NInputs(t) -> Nat])

AInv ==
    /\ RInv
    /\ DOMAIN log = Task /\ \A t \in Task : log[t] \in Calls(t)
    /\ \A t \in Task : NOutputs(t) <= 1 => \A i \in 1..NInputs(t) : InputPaired(t, i)

----------------------------------------------------------------------------
(* Writes behind an item *)

LEMMA RunKeepsAbort ==
    ASSUME NEW t \in Task, Run(t)
    PROVE  aborted' = aborted
  BY DEF Run, PopInput, PopOut, Generate, FailGenerator, GetRound, ProcessSink, Process, Fail,
         Flush, FirstRound, Reduce, Reget, Regenerate

(* What was written behind an item stays so. *)
LEMMA WrittenBehindStays ==
    ASSUME RInv, [Next]_vars, NEW q, WrittenBehind(q)
    PROVE  WrittenBehind(q)'
  <1>1. CASE \E u \in Task : Run(u)
    <2>1. PICK u \in Task : Run(u)
      BY <1>1
    <2>2. aborted' = aborted
      BY <2>1, RunKeepsAbort
    <2>3. ASSUME NEW p \in Task, Quit(p) PROVE Quit(p)'
      <3>1. p # u
        BY <2>1, <2>3, RunActive DEF Quit
      <3>2. pc'[p] = pc[p] /\ finished'[p] = finished[p]
        BY <2>1, <3>1, RunElsewhere DEF RInv, DInv, SInv, OthersSame
      <3> QED BY <2>3, <3>2 DEF Quit, AllFinished
    <2> QED BY <2>2, <2>3 DEF WrittenBehind
  <1>2. CASE Abort \/ UNCHANGED vars
    <2>1. UNCHANGED <<pc, finished>> /\ (aborted => aborted')
      BY <1>2 DEF Abort, vars, threadVars
    <2> QED BY <2>1 DEF WrittenBehind, Quit, AllFinished
  <1> QED BY <1>1, <1>2 DEF Next, Joined

(* A buffer is written when it is sent again; otherwise something was      *)
(* written behind the last item, or there was no item yet.                 *)
LEMMA WriteKinds ==
    ASSUME RInv, NEW u \in Task, Run(u), NEW q \in Queue, NEW b \in Own(q),
           ValueAfter(b) # Value(b)
    PROVE  b \in Range(full'[q]) \/ WrittenBehind(q)' \/ got[q] = <<>>
  <1>1. /\ IInv /\ Transfers(u) /\ Carries(q) /\ Unfinished(u) /\ ReadsAll(u)
        /\ DOMAIN pc = Task /\ data \in [Buffer -> Nat]
    BY RunTransfers DEF RInv, DInv, SInv, IInv, TypeInv, TypeRest
  <1>2. b \in Buffer /\ b[1] = q
    BY <1>1, OwnFacts DEF IInv
  <1>3. HoldsOutput(u) /\ b = out[u] /\ data' # data
    BY <1>1, <1>2 DEF Transfers, ValueAfter, Value
  <1>4. q = Out[u][OutPos(u)] /\ q \in Range(Out[u]) /\ (AtOutput(u) => q = OutQueue(u))
    <2>1. out[u] \in Own(Out[u][OutPos(u)]) /\ Out[u][OutPos(u)] \in Range(Out[u])
          /\ Out[u][OutPos(u)] \in Queue
      BY <1>1, <1>3, OutputFacts
    <2>2. out[u][1] = Out[u][OutPos(u)]
      BY <1>1, <2>1, OwnFacts DEF IInv
    <2> QED BY <1>1, <1>2, <1>3, <2>1, <2>2, OutputFacts
  <1>5. ASSUME NEW v \in Nat, PushItem(u, v), AtOutput(u) PROVE b \in Range(full'[q])
    <2>1. Idle(q) \/ Pushed(u, q, v)
      BY <1>1, <1>3, <1>5, PushTransfers
    <2>2. full'[q] = Append(full[q], out[u])
      <3>1. sent'[q] # sent[q]
        <4>1. sent' = [sent EXCEPT ![q] = Append(@, v)] /\ sent \in [Queue -> Seq(Tags)] /\ v \in Tags
          BY <1>1, <1>4, <1>5 DEF PushItem, IInv, TypeInv, TypeRest, Tags
        <4>2. sent'[q] = Append(sent[q], v) /\ sent[q] \in Seq(Tags)
          BY <4>1
        <4>3. Len(sent'[q]) = Len(sent[q]) + 1 /\ Len(sent[q]) \in Nat
          BY <4>1, <4>2, AppendProperties
        <4> QED BY <4>3
      <3> QED BY <2>1, <3>1 DEF Idle, Pushed
    <2>3. full[q] \in Seq(Own(q) \cup {EndOfStream})
      BY <1>1 DEF IInv, TypeInv, TypeQueues
    <2> QED BY <1>3, <2>2, <2>3, AppendRange
  <1>6. CASE Generate(u) \/ Regenerate(u)
    <2>1. AtOutput(u) /\ count[u] + 1 \in Nat
      BY <1>1, <1>6 DEF Generate, Regenerate, AtOutput, IInv, TypeInv, TypeRest
    <2>2. CASE PushItem(u, count[u] + 1)
      BY <1>5, <2>1, <2>2
    <2>3. CASE NoMore(u)
      <3>1. aborted
        BY <1>3, <2>3 DEF NoMore
      <3> QED BY <3>1, RunKeepsAbort DEF WrittenBehind
    <2> QED BY <1>6, <2>2, <2>3 DEF Generate, Regenerate
  <1>7. CASE Process(u)
    <2>1. AtOutput(u) /\ Value(inputs[u][1]) \in Nat
      BY <1>1, <1>7, ValueType DEF Process, AtOutput
    <2>2. CASE PushItem(u, Value(inputs[u][1]))
      BY <1>5, <2>1, <2>2
    <2>3. CASE Leave(u)
      <3>1. ~ AllFinished(u) /\ UNCHANGED finished /\ pc'[u] = "done"
        BY <1>1, <1>7, <2>3 DEF Process, Unfinished, Leave, GoTo
      <3>2. Quit(u)'
        BY <3>1 DEF Quit, AllFinished
      <3> QED BY <1>4, <3>2 DEF WrittenBehind
    <2> QED BY <1>7, <2>2, <2>3 DEF Process
  <1>8. CASE Reduce(u)
    <2>1. Mode[u] = "reductor" /\ pc[u] = "reduce"
      BY <1>1, <1>8, ModeFacts DEF Reduce, PCs
    <2>2. CASE u \in MayStop
      BY <1>4, <2>1, <2>2 DEF WrittenBehind
    <2>3. CASE u \notin MayStop
      <3>1. ~ AllFinished(u)
        BY <1>1, <2>1 DEF Unfinished
      <3>2. q = Out[u][1]
        BY <1>4, <2>1 DEF OutPos
      <3>3. sent[q] = <<>>
        BY <1>1, <2>1, <2>3, <3>1, <3>2 DEF ReadsAll
      <3>4. Len(sent[q]) = 0 /\ Len(got[q]) \in Nat /\ Len(full[q]) \in Nat /\ got[q] \in Seq(Tags)
        BY <1>1, <3>3, StreamTypes, EmptySeq DEF Tags
      <3>5. Len(got[q]) = 0
        <4>1. Len(sent[q]) = Len(got[q]) + Len(full[q])
          BY <1>1 DEF Carries
        <4>2. \A j, k \in Nat : 0 = j + k => j = 0
          OBVIOUS
        <4> QED BY <3>4, <4>1, <4>2
      <3> QED BY <3>4, <3>5, EmptySeq
    <2> QED BY <2>2, <2>3
  <1>9. UNCHANGED data \/ Generate(u) \/ Regenerate(u) \/ Process(u) \/ Reduce(u)
    BY DEF Run, PopInput, PopOut, FailGenerator, GetRound, ProcessSink, Fail, Flush, FirstRound, Reget
  <1> QED BY <1>3, <1>6, <1>7, <1>8, <1>9

(* Nothing leaves a queue unless it is received. *)
LEMMA InFlightStays ==
    ASSUME IInv, NEW u \in Task, Transfers(u), NEW q \in Queue, got'[q] = got[q]
    PROVE  Range(full[q]) \subseteq Range(full'[q])
  <1>1. full[q] \in Seq(Own(q) \cup {EndOfStream}) /\ got[q] \in Seq(Tags)
    BY StreamTypes DEF Tags
  <1>2. CASE Idle(q)
    BY <1>2 DEF Idle
  <1>3. CASE Ended(q)
    BY <1>1, <1>3, AppendRange DEF Ended
  <1>4. CASE \E v \in Nat : Pushed(u, q, v)
    <2>1. out[u] \in Own(q) /\ full'[q] = Append(full[q], out[u])
      BY <1>4, OutputFacts DEF Pushed
    <2> QED BY <1>1, <2>1, AppendRange
  <1>5. ~ Popped(q)
    <2>1. SUFFICES ASSUME Popped(q) PROVE FALSE
      OBVIOUS
    <2>2. Content(Head(full[q])) \in Tags /\ got'[q] = Append(got[q], Content(Head(full[q])))
      BY <2>1, ContentFacts DEF Popped, Tags
    <2>3. Len(got'[q]) = Len(got[q]) + 1 /\ Len(got[q]) \in Nat
      BY <1>1, <2>2, AppendProperties
    <2> QED BY <2>3
  <1> QED BY <1>2, <1>3, <1>4, <1>5 DEF Transfers

----------------------------------------------------------------------------
(* Rounds and calls *)

(* What the steps of t but pops do to its inputs: a call of process, which *)
(* ends the round, or none.                                                *)
Called(t) ==
    /\ log'[t] = Append(log[t], [i \in 1..NInputs(t) |-> Value(inputs[t][i])])
    /\ pc[t] \notin {"flush", "done"}
    /\ Fetched(t) = 1..NInputs(t) /\ Fetched(t)' = {}

NotCalled(t) ==
    /\ log'[t] = log[t]
    /\ pc'[t] \notin {"flush", "done"} =>
          /\ pc[t] \notin {"flush", "done"}
          /\ \A i \in 1..NInputs(t) : ~ finished[t][i] => i \in Fetched(t) /\ i \in Fetched(t)'

Works(t) ==
    /\ UNCHANGED <<finished, inputs, got>>
    /\ \A i \in 1..NInputs(t) : ~ finished[t][i] /\ i \in Fetched(t)' => i \in Fetched(t)
    /\ Called(t) \/ NotCalled(t)

(* The inputs of a round that is complete have been fetched. *)
LEMMA GotFetched ==
    ASSUME IInv, NEW t \in Task, pc[t] \in Getting => Pending(t) = {}, pc[t] # "done"
    PROVE  \A i \in 1..NInputs(t) : ~ finished[t][i] => i \in Fetched(t)
  <1>1. idx[t] \in Nat \ {0} /\ NInputs(t) \in Nat
    BY WiringFacts DEF IInv, TypeInv, TypeRest
  <1>2. CASE pc[t] \in Getting
    <2>1. Fetched(t) = {i \in 1..NInputs(t) : i < idx[t]}
      BY <1>2 DEF Fetched
    <2>2. \A i \in 1..NInputs(t) : finished[t][i] \/ i < idx[t]
      BY <1>1, <1>2 DEF Pending
    <2> QED BY <2>1, <2>2
  <1>3. CASE pc[t] \notin Getting
    BY <1>3 DEF Fetched
  <1> QED BY <1>2, <1>3

LEMMA WorksStep ==
    ASSUME RInv, NEW t \in Task, Run(t), ~ PopInput(t), NOutputs(t) <= 1, DOMAIN log = Task
    PROVE  Works(t)
  <1>1. /\ IInv /\ DOMAIN pc = Task /\ DOMAIN idx = Task /\ pc[t] # "done"
        /\ pc[t] \in PCs(Mode[t]) /\ NInputs(t) \in Nat
    BY RunActive, ModeFacts DEF RInv, DInv, SInv, IInv, TypeInv, TypeRest
  <1>2. pc[t] \in Getting => Pending(t) = {}
    BY DEF Run, PopInput, PopOut, Generate, FailGenerator, GetRound, ProcessSink, Process, Fail,
           Flush, FirstRound, Reduce, Reget, Regenerate, GotInputs, Getting
  <1>3. UNCHANGED <<finished, inputs, got>>
    BY DEF Run, PopOut, Generate, FailGenerator, GetRound, ProcessSink, Process, Fail,
           Flush, FirstRound, Reduce, Reget, Regenerate, PushItem, Leave, streams
  <1>4. \A i \in 1..NInputs(t) : ~ finished[t][i] => i \in Fetched(t)
    BY <1>1, <1>2, GotFetched
  <1>5. ASSUME Consume(t), pc[t] \in {"process", "reduce"}, pc'[t] \in {"get", "reget", "done"},
               idx'[t] = 1
        PROVE  Called(t)
    <2>1. log'[t] = Append(log[t], [i \in 1..NInputs(t) |-> Value(inputs[t][i])])
      BY <1>5 DEF Consume
    <2>2. Fetched(t) = 1..NInputs(t)
      BY <1>5 DEF Fetched, Getting
    <2>3. Fetched(t)' = {}
      BY <1>5, NewRound DEF Fetched, Getting
    <2> QED BY <1>5, <2>1, <2>2, <2>3 DEF Called
  <1>6. CASE ProcessSink(t)
    <2>1. Consume(t) /\ pc[t] = "process" /\ pc'[t] \in {"get", "done"} /\ idx'[t] = 1
      BY <1>1, <1>6 DEF ProcessSink, GoTo
    <2> QED BY <1>3, <1>4, <1>5, <2>1 DEF Works
  <1>7. CASE Process(t)
    <2>1. LastOutput(t)
      <3>1. idx[t] \in 1..NOutputs(t) /\ NOutputs(t) \in Nat
        BY <1>1, <1>7, WiringFacts DEF Process, IInv, TaskInv, Position, AtOutput
      <3> QED BY <3>1 DEF LastOutput
    <2>2. Consume(t) /\ pc[t] = "process" /\ pc'[t] \in {"get", "done"} /\ idx'[t] = 1
      BY <1>1, <1>7, <2>1 DEF Process, AfterOutput, Leave, GoTo
    <2> QED BY <1>3, <1>4, <1>5, <2>2 DEF Works
  <1>8. CASE Reduce(t)
    <2>1. Consume(t) /\ pc[t] = "reduce" /\ pc'[t] = "reget" /\ idx'[t] = 1
      BY <1>1, <1>8 DEF Reduce, GoTo
    <2> QED BY <1>3, <1>4, <1>5, <2>1 DEF Works
  <1>9. ASSUME log' = log, pc'[t] \notin Getting,
               pc'[t] \notin {"flush", "done"} => pc[t] \notin {"flush", "done"}
        PROVE  Works(t)
    <2>1. pc'[t] # "done" => Fetched(t)' = 1..NInputs(t)
      BY <1>9 DEF Fetched
    <2> QED BY <1>3, <1>4, <1>9, <2>1 DEF Works, NotCalled
  <1>10. ASSUME log' = log, pc'[t] = "flush", idx'[t] = 1
         PROVE  Works(t)
    <2>1. Fetched(t)' = {}
      BY <1>10, NewRound DEF Getting
    <2> QED BY <1>3, <1>10, <2>1 DEF Works, NotCalled
  <1>11. CASE PopOut(t)
    BY <1>1, <1>9, <1>11 DEF PopOut, Getting
  <1>12. CASE Generate(t) \/ FailGenerator(t)
    BY <1>1, <1>9, <1>12 DEF Generate, FailGenerator, NextOutput, Leave, GoTo, Getting
  <1>13. CASE GetRound(t)
    BY <1>1, <1>9, <1>13 DEF GetRound, GotInputs, Leave, GoTo, Getting
  <1>14. CASE Fail(t)
    BY <1>1, <1>10, <1>14 DEF Fail, GoTo
  <1>15. CASE Flush(t)
    BY <1>1, <1>9, <1>10, <1>15 DEF Flush, Leave, GoTo, Getting
  <1>16. CASE FirstRound(t) \/ Reget(t)
    BY <1>1, <1>9, <1>16 DEF FirstRound, Reget, GotInputs, GoTo, Getting
  <1>17. CASE Regenerate(t)
    BY <1>1, <1>9, <1>17 DEF Regenerate, Leave, GoTo, Getting
  <1> QED BY <1>6, <1>7, <1>8, <1>11, <1>12, <1>13, <1>14, <1>15, <1>16, <1>17 DEF Run

(* The calls of a task. *)
LEMMA CallsStep ==
    ASSUME RInv, NEW t \in Task, Run(t), DOMAIN log = Task, \A v \in Task : log[v] \in Calls(v)
    PROVE  DOMAIN log' = Task /\ \A v \in Task : log'[v] \in Calls(v)
  <1>1. log' = log \/ Consume(t)
    BY DEF Run, PopInput, PopOut, Generate, FailGenerator, GetRound, ProcessSink, Process, Fail,
           Flush, FirstRound, Reduce, Reget, Regenerate
  <1>2. CASE Consume(t)
    <2>1. PICK c : c = [i \in 1..NInputs(t) |-> Value(inputs[t][i])]
      OBVIOUS
    <2>2. c \in [1..NInputs(t) -> Nat]
      <3>1. IInv
        BY DEF RInv, DInv, SInv
      <3> QED BY <2>1, <3>1, ValueType
    <2>3. log' = [log EXCEPT ![t] = Append(@, c)]
      BY <1>2, <2>1 DEF Consume
    <2>4. Append(log[t], c) \in Calls(t)
      BY <2>2, AppendProperties DEF Calls
    <2> QED BY <2>3, <2>4
  <1> QED BY <1>1, <1>2

(* The input whose queue is not read in a step. *)
LEMMA LastReadStays ==
    ASSUME RInv, NEW u \in Task, Run(u), IInv',
           NEW t \in Task, NEW i \in 1..NInputs(t), NEW q, q = In[t][i], NEW b, b = inputs[t][i],
           NEW items, NEW n, n > 0 => got[q] # <<>>,
           got'[q] = got[q], inputs'[t][i] = b, finished'[t][i] = finished[t][i],
           ~ finished[t][i] /\ i \in Fetched(t)' => i \in Fetched(t),
           LastRead(t, i, q, b, items, n)
    PROVE  LastRead(t, i, q, b, items, n)'
  <1>1. /\ IInv /\ Transfers(u) /\ q \in Queue /\ TaskInv(t)
    BY RunTransfers, WiringFacts DEF RInv, DInv, SInv, IInv
  <1> SUFFICES ASSUME n > 0
               PROVE  /\ b \in Own(q)'
                      /\ i \in Fetched(t)' /\ ~ finished'[t][i] => ValueAfter(b) = items[n]
                      /\ \/ ValueAfter(b) = items[n] \/ b \in Range(full'[q])
                         \/ WrittenBehind(q)'
    BY DEF LastRead, ValueAfter, Value
  <1>2. /\ b \in Own(q) /\ b # NullBuffer
        /\ i \in Fetched(t) /\ ~ finished[t][i] => Value(b) = items[n]
        /\ Value(b) = items[n] \/ b \in Range(full[q]) \/ WrittenBehind(q)
    BY <1>1, OwnFacts DEF LastRead, IInv
  <1>3. b \in Own(q)'
    <2>1. Owned(t)'
      BY DEF IInv, TaskInv
    <2> QED BY <1>2, <2>1 DEF Owned
  <1>4. i \in Fetched(t)' /\ ~ finished'[t][i] => ValueAfter(b) = items[n]
    <2>1. ASSUME i \in Fetched(t), ~ finished[t][i] PROVE ValueAfter(b) = Value(b)
      <3>1. inputs[t][i] \in held[t]
        BY <1>1, <2>1 DEF TaskInv, Fetching
      <3> QED BY <1>1, <3>1, InputKept
    <2> QED BY <1>2, <2>1
  <1>5. ValueAfter(b) = items[n] \/ b \in Range(full'[q]) \/ WrittenBehind(q)'
    <2>1. WrittenBehind(q) => WrittenBehind(q)'
      <3>1. [Next]_vars
        BY DEF Next
      <3> QED BY <3>1, WrittenBehindStays
    <2>2. b \in Range(full[q]) => b \in Range(full'[q])
      BY <1>1, InFlightStays
    <2>3. ValueAfter(b) # Value(b) => b \in Range(full'[q]) \/ WrittenBehind(q)'
      BY <1>1, <1>2, WriteKinds
    <2> QED BY <1>2, <2>1, <2>2, <2>3
  <1> QED BY <1>3, <1>4, <1>5

LEMMA LoggedStays ==
    ASSUME RInv, [Next]_vars, NEW calls, NEW i, NEW q, NEW items, NEW n, NEW m,
           Logged(calls, i, q, items, n, m)
    PROVE  Logged(calls, i, q, items, n, m)'
  <1>1. WrittenBehind(q) => WrittenBehind(q)'
    BY WrittenBehindStays
  <1> QED BY <1>1 DEF Logged

(* The pairing before and after a step, with the histories as constants. *)
LEMMA PairedFacts ==
    ASSUME AInv, NEW t \in Task, NEW i \in 1..NInputs(t), NOutputs(t) <= 1
    PROVE  \E items \in Seq(Tags), n \in Nat, m \in Nat, calls \in Calls(t) :
              /\ items = Items(got[In[t][i]]) /\ n = Len(items)
              /\ calls = log[t] /\ m = Len(calls)
              /\ n > 0 => got[In[t][i]] # <<>>
              /\ Paired(t, i, In[t][i], items, n, m)
  <1>1. IInv /\ In[t][i] \in Queue
    BY WiringFacts DEF AInv, RInv, DInv, SInv
  <1>2. got[In[t][i]] \in Seq(Tags)
    BY <1>1, StreamTypes DEF Tags
  <1>3. PICK items \in Seq(Tags) : items = Items(got[In[t][i]])
    BY <1>2, ItemsFacts
  <1>4. PICK calls \in Calls(t) : calls = log[t]
    BY DEF AInv
  <1>5. Len(items) \in Nat /\ Len(calls) \in Nat
    BY LenProperties DEF Calls
  <1>6. Len(items) > 0 => got[In[t][i]] # <<>>
    <2>1. Items(<<>>) = <<>> /\ Len(<<>>) = 0
      BY DEF Items
    <2> QED BY <1>3, <2>1
  <1>7. Paired(t, i, In[t][i], items, Len(items), Len(calls))
    BY <1>3, <1>4 DEF AInv, InputPaired
  <1> QED BY <1>3, <1>4, <1>5, <1>6, <1>7

LEMMA PairedAfter ==
    ASSUME NEW t \in Task, NEW i \in 1..NInputs(t), NEW q, q = In[t][i],
           NEW items, NEW n, NEW b, NEW calls, NEW m,
           items = Items(got[q])', n = Len(items), calls = log'[t], m = Len(calls), b = inputs'[t][i],
           InStep(t, i, n, m)', LastRead(t, i, q, b, items, n)', Logged(calls, i, q, items, n, m)'
    PROVE  InputPaired(t, i)'
  BY DEF InputPaired, Paired

LEMMA PairedElsewhere ==
    ASSUME AInv, NEW u \in Task, Run(u), IInv',
           NEW t \in Task, t # u, NOutputs(t) <= 1, NEW i \in 1..NInputs(t)
    PROVE  InputPaired(t, i)'
  <1>1. PICK q : q = In[t][i]
    OBVIOUS
  <1>2. PICK items \in Seq(Tags), n \in Nat, m \in Nat, calls \in Calls(t) :
              /\ items = Items(got[q]) /\ n = Len(items)
              /\ calls = log[t] /\ m = Len(calls)
              /\ n > 0 => got[q] # <<>>
              /\ Paired(t, i, q, items, n, m)
    BY <1>1, PairedFacts
  <1>3. RInv /\ IInv /\ OthersSame(u) /\ log'[t] = log[t] /\ got'[q] = got[q] /\ [Next]_vars
    <2>1. q \in Queue \ Range(In[u])
      BY <1>1, WiringFacts
    <2> QED BY <2>1, RunElsewhere, RunAlone DEF AInv, RInv, DInv, SInv, Next
  <1>4. /\ finished'[t] = finished[t] /\ inputs'[t] = inputs[t] /\ pc'[t] = pc[t]
        /\ Fetched(t)' = Fetched(t)
    BY <1>3 DEF OthersSame, Fetched
  <1>5. PICK b : b = inputs[t][i]
    OBVIOUS
  <1>6. LastRead(t, i, q, b, items, n)'
    BY <1>1, <1>2, <1>3, <1>4, <1>5, LastReadStays DEF Paired
  <1>7. Logged(calls, i, q, items, n, m)'
    BY <1>2, <1>3, LoggedStays DEF Paired
  <1>8. InStep(t, i, n, m)'
    BY <1>2, <1>4 DEF Paired, InStep
  <1>9. items = Items(got[q])'
    BY <1>2, <1>3 DEF Items
  <1> QED BY <1>1, <1>2, <1>3, <1>4, <1>5, <1>6, <1>7, <1>8, <1>9, PairedAfter

(* What a call of process gets. *)
LEMMA CalledWith ==
    ASSUME RInv, NEW t \in Task, Called(t), NEW i \in 1..NInputs(t),
           NEW items \in Seq(Tags), NEW n \in Nat, NEW m \in Nat, n > 0,
           Paired(t, i, In[t][i], items, n, m)
    PROVE  /\ m + 1 <= n => Value(inputs[t][i]) = items[m + 1]
           /\ m + 1 > n /\ ~ WrittenBehind(In[t][i]) => Value(inputs[t][i]) = items[n]
  <1>0. PICK q, b : q = In[t][i] /\ b = inputs[t][i]
    OBVIOUS
  <1>1. /\ i \in Fetched(t) /\ b \in Own(q) /\ q \in Queue /\ IInv
        /\ EndLast(q) /\ TaskInv(t)
        /\ ~ finished[t][i] => Value(b) = items[n]
        /\ Value(b) = items[n] \/ b \in Range(full[q]) \/ WrittenBehind(q)
    BY <1>0, WiringFacts DEF Called, Paired, LastRead, RInv, DInv, SInv, IInv
  <1>2. IF finished[t][i] THEN n <= m ELSE n = m + 1
    BY <1>1 DEF Called, Paired, InStep
  <1>3. CASE ~ finished[t][i]
    BY <1>0, <1>1, <1>2, <1>3
  <1>4. CASE finished[t][i]
    <2>1. full[q] = <<>>
      BY <1>0, <1>1, <1>4 DEF TaskInv, Ends, EndLast
    <2>2. b \notin Range(full[q])
      BY <2>1, EmptyRange
    <2> QED BY <1>0, <1>1, <1>2, <1>4, <2>2
  <1> QED BY <1>3, <1>4

LEMMA PairedWorks ==
    ASSUME AInv, NEW t \in Task, Run(t), ~ PopInput(t), IInv',
           NOutputs(t) <= 1, NEW i \in 1..NInputs(t)
    PROVE  InputPaired(t, i)'
  <1>1. PICK q, b : q = In[t][i] /\ b = inputs[t][i]
    OBVIOUS
  <1>2. PICK items \in Seq(Tags), n \in Nat, m \in Nat, calls \in Calls(t) :
              /\ items = Items(got[q]) /\ n = Len(items)
              /\ calls = log[t] /\ m = Len(calls)
              /\ n > 0 => got[q] # <<>>
              /\ Paired(t, i, q, items, n, m)
    BY <1>1, PairedFacts
  <1>3. RInv /\ IInv /\ Works(t) /\ [Next]_vars /\ pc[t] # "done"
    BY WorksStep, RunActive DEF AInv, RInv, DInv, SInv, Next
  <1>4. /\ UNCHANGED <<finished, inputs, got>>
        /\ ~ finished[t][i] /\ i \in Fetched(t)' => i \in Fetched(t)
    BY <1>3 DEF Works
  <1>5. LastRead(t, i, q, b, items, n)'
    BY <1>1, <1>2, <1>3, <1>4, LastReadStays DEF Paired
  <1>6. items = Items(got[q])'
    BY <1>2, <1>4 DEF Items
  <1>7. InStep(t, i, n, m) /\ LastRead(t, i, q, b, items, n) /\ Logged(calls, i, q, items, n, m)
    BY <1>1, <1>2 DEF Paired
  <1>8. CASE NotCalled(t)
    <2>1. Logged(calls, i, q, items, n, m)'
      BY <1>3, <1>7, LoggedStays
    <2>2. InStep(t, i, n, m)'
      BY <1>4, <1>7, <1>8 DEF NotCalled, InStep
    <2>3. log'[t] = calls
      BY <1>2, <1>8 DEF NotCalled
    <2> QED BY <1>1, <1>2, <1>4, <1>5, <1>6, <2>1, <2>2, <2>3, PairedAfter
  <1>9. CASE Called(t)
    <2>1. PICK c \in [1..NInputs(t) -> Nat] : c = [j \in 1..NInputs(t) |-> Value(inputs[t][j])]
      <3>1. [j \in 1..NInputs(t) |-> Value(inputs[t][j])] \in [1..NInputs(t) -> Nat]
        BY <1>3, ValueType
      <3> QED BY <3>1
    <2>2. PICK more \in Calls(t) : more = Append(calls, c)
      BY AppendProperties DEF Calls
    <2>3. /\ more = log'[t] /\ Len(more) = m + 1 /\ more[m + 1] = c
          /\ \A k \in 1..m : more[k] = calls[k]
      <3>1. more = log'[t]
        BY <1>2, <1>9, <2>1, <2>2 DEF Called
      <3> QED BY <1>2, <2>1, <2>2, <3>1, AppendProperties DEF Calls
    <2>4. c[i] = Value(b)
      BY <1>1, <2>1
    <2>5. InStep(t, i, n, m + 1)'
      <3>1. pc[t] \notin {"flush", "done"} /\ i \in Fetched(t) /\ Fetched(t)' = {}
        BY <1>9 DEF Called
      <3>2. IF finished[t][i] THEN n <= m ELSE n = m + 1
        BY <1>7, <3>1 DEF InStep
      <3>3. IF finished'[t][i] THEN n <= m + 1 ELSE n = m + 1
        BY <1>4, <3>2
      <3> QED BY <3>1, <3>3 DEF InStep
    <2>6. Logged(more, i, q, items, n, m + 1)'
      <3>1. SUFFICES ASSUME n > 0, NEW k \in 1..m + 1, k <= n \/ ~ WrittenBehind(q)'
                     PROVE  more[k][i] = items[IF k <= n THEN k ELSE n]
        BY DEF Logged
      <3>2. k <= n \/ ~ WrittenBehind(q)
        BY <1>3, <3>1, WrittenBehindStays
      <3>3. CASE k \in 1..m
        <4>1. calls[k][i] = items[IF k <= n THEN k ELSE n]
          BY <1>7, <3>1, <3>2, <3>3 DEF Logged
        <4> QED BY <2>3, <3>3, <4>1
      <3>4. CASE k = m + 1
        <4>1. /\ m + 1 <= n => Value(b) = items[m + 1]
              /\ m + 1 > n /\ ~ WrittenBehind(q) => Value(b) = items[n]
          BY <1>1, <1>2, <1>3, <1>9, <3>1, CalledWith
        <4>2. Value(b) = items[IF k <= n THEN k ELSE n]
          BY <3>2, <3>4, <4>1
        <4> QED BY <2>3, <2>4, <3>4, <4>2
      <3> QED BY <3>3, <3>4
    <2> QED BY <1>1, <1>2, <1>4, <1>5, <1>6, <2>3, <2>5, <2>6, PairedAfter
  <1> QED BY <1>3, <1>8, <1>9 DEF Works

(* The pop of an input, as a step of that input and of the others. *)
LEMMA PopFacts ==
    ASSUME RInv, NEW t \in Task, PopInput(t)
    PROVE  \E j \in 1..NInputs(t) :
              /\ full[In[t][j]] # <<>> /\ ~ Closed(In[t][j]) /\ ~ finished[t][j]
              /\ full' = [full EXCEPT ![In[t][j]] = Tail(@)]
              /\ got'[In[t][j]] = Append(got[In[t][j]], Content(Head(full[In[t][j]])))
              /\ \A i \in 1..NInputs(t) \ {j} :
                    /\ got'[In[t][i]] = got[In[t][i]] /\ full'[In[t][i]] = full[In[t][i]]
                    /\ finished'[t][i] = finished[t][i] /\ inputs'[t][i] = inputs[t][i]
                    /\ ~ finished[t][i] => (i \in Fetched(t)' <=> i \in Fetched(t))
              /\ finished'[t][j] = (Head(full[In[t][j]]) = EndOfStream)
              /\ inputs'[t][j] = IF Head(full[In[t][j]]) = EndOfStream
                                   THEN inputs[t][j] ELSE Head(full[In[t][j]])
              /\ j \notin Fetched(t) /\ j \in Fetched(t)' /\ j = Min(Pending(t))
              /\ pc[t] \in Getting /\ UNCHANGED <<pc, data, log, aborted>>
  <1>1. PICK j, q, b :
           /\ j = Min(Pending(t)) /\ q = In[t][j] /\ b = Head(full[q])
           /\ pc[t] \in Getting /\ Pending(t) # {} /\ full[q] # <<>>
           /\ full' = [full EXCEPT ![q] = Tail(@)]
           /\ got' = [got EXCEPT ![q] = Append(@, Content(b))]
           /\ IF b = EndOfStream
                THEN finished' = [finished EXCEPT ![t][j] = TRUE] /\ UNCHANGED <<inputs, held>>
                ELSE /\ inputs' = [inputs EXCEPT ![t][j] = b]
                     /\ held' = [held EXCEPT ![t] = @ \cup {b}]
                     /\ UNCHANGED finished
           /\ idx' = [idx EXCEPT ![t] = j + 1]
           /\ UNCHANGED <<pc, data, log, aborted>>
    BY Zenon DEF PopInput, ConsumerPop
  <1>2. IInv /\ TypeInv /\ NInputs(t) \in Nat
    BY WiringFacts DEF RInv, DInv, SInv, IInv
  <1>3. /\ j \in 1..NInputs(t) /\ ~ finished[t][j] /\ j >= idx[t]
        /\ q \in Queue /\ ~ Closed(q) /\ b \in Own(q) \cup {EndOfStream}
    BY <1>1, <1>2, PopInputFacts
  <1>4. \A i \in 1..NInputs(t) : i < j => finished[t][i] \/ i < idx[t]
    <2>1. idx[t] \in Nat \ {0}
      BY <1>2 DEF TypeInv, TypeRest
    <2>2. Pending(t) \subseteq Nat
      BY <1>2, <2>1 DEF Pending
    <2>3. \A i \in Pending(t) : j <= i
      BY <1>1, <2>2, MinProperties
    <2> QED BY <1>2, <1>3, <2>1, <2>3 DEF Pending
  <1>5. idx'[t] = j + 1 /\ idx[t] \in Nat /\ pc'[t] \in Getting
    BY <1>1, <1>2 DEF TypeInv, TypeRest
  <1>6. /\ Fetched(t) = {i \in 1..NInputs(t) : i < idx[t]}
        /\ Fetched(t)' = {i \in 1..NInputs(t) : i < j + 1}
    <2>1. pc[t] \in Getting
      BY <1>1
    <2>2. Fetched(t) = {i \in 1..NInputs(t) : i < idx[t]}
      BY <2>1 DEF Fetched, Getting
    <2>3. pc'[t] \in Getting
      BY <1>5
    <2>4. Fetched(t)' = {i \in 1..NInputs(t) : i < idx'[t]}
      BY <2>3 DEF Fetched, Getting
    <2> QED BY <1>5, <2>2, <2>4
  <1>7. j \notin Fetched(t) /\ j \in Fetched(t)'
    BY <1>3, <1>5, <1>6
  <1>8. ASSUME NEW i \in 1..NInputs(t) \ {j}, ~ finished[t][i]
        PROVE  i \in Fetched(t)' <=> i \in Fetched(t)
    <2>1. i < j + 1 <=> i < j
      BY <1>3, <1>8
    <2>2. i < j => i < idx[t]
      BY <1>4, <1>8
    <2>3. i < idx[t] => i < j
      BY <1>3, <1>5, <1>8
    <2> QED BY <1>6, <1>8, <2>1, <2>2, <2>3
  <1>9. ASSUME NEW i \in 1..NInputs(t) \ {j}
        PROVE  /\ got'[In[t][i]] = got[In[t][i]] /\ full'[In[t][i]] = full[In[t][i]]
               /\ finished'[t][i] = finished[t][i] /\ inputs'[t][i] = inputs[t][i]
    <2>1. In[t][i] # q /\ In[t][i] \in Queue
      BY <1>1, <1>3, <1>9, WiringFacts
    <2>2. DOMAIN full = Queue /\ DOMAIN got = Queue
      BY <1>2 DEF TypeInv, TypeQueues, TypeRest
    <2>3. finished'[t][i] = finished[t][i]
      <3>1. CASE b = EndOfStream
        <4>1. finished' = [finished EXCEPT ![t][j] = TRUE]
          BY <1>1, <3>1
        <4> QED BY <1>2, <1>3, <1>9, <4>1, FinishedUpdate DEF TypeInv
      <3>2. CASE b # EndOfStream
        BY <1>1, <3>2
      <3> QED BY <3>1, <3>2
    <2>4. inputs'[t][i] = inputs[t][i]
      <3>1. CASE b = EndOfStream
        BY <1>1, <3>1
      <3>2. CASE b # EndOfStream
        <4>1. inputs' = [inputs EXCEPT ![t][j] = b] /\ b \in Buffer
          BY <1>1, <1>2, <1>3, <3>2, OwnFacts
        <4> QED BY <1>2, <1>3, <1>9, <4>1, InputsUpdate DEF TypeInv
      <3> QED BY <3>1, <3>2
    <2> QED BY <1>1, <2>1, <2>2, <2>3, <2>4
  <1>10. got'[q] = Append(got[q], Content(b))
    <2>1. DOMAIN got = Queue
      BY <1>2 DEF TypeInv, TypeRest
    <2> QED BY <1>1, <1>3, <2>1
  <1>11. finished'[t][j] = (b = EndOfStream)
    <2>1. finished[t] \in [1..NInputs(t) -> BOOLEAN]
      BY <1>2 DEF TypeInv, TypeInputs
    <2>2. CASE b = EndOfStream
      <3>1. finished' = [finished EXCEPT ![t][j] = TRUE]
        BY <1>1, <2>2
      <3>2. finished'[t][j] = TRUE
        BY <1>2, <1>3, <3>1, FinishedUpdate DEF TypeInv
      <3> QED BY <2>2, <3>2
    <2>3. CASE b # EndOfStream
      <3>1. finished'[t][j] = FALSE
        BY <1>1, <1>3, <2>1, <2>3
      <3> QED BY <2>3, <3>1
    <2> QED BY <2>2, <2>3
  <1>12. inputs'[t][j] = IF b = EndOfStream THEN inputs[t][j] ELSE b
    <2>1. CASE b = EndOfStream
      BY <1>1, <2>1
    <2>2. CASE b # EndOfStream
      <3>1. inputs' = [inputs EXCEPT ![t][j] = b] /\ b \in Buffer
        BY <1>1, <1>2, <1>3, <2>2, OwnFacts
      <3>2. inputs'[t][j] = b
        BY <1>2, <1>3, <3>1, InputsUpdate DEF TypeInv
      <3> QED BY <2>2, <3>2
    <2> QED BY <2>1, <2>2
  <1>13. /\ full[In[t][j]] # <<>> /\ ~ Closed(In[t][j])
         /\ full' = [full EXCEPT ![In[t][j]] = Tail(@)]
    BY <1>1, <1>3
  <1> QED BY <1>1, <1>3, <1>7, <1>8, <1>9, <1>10, <1>11, <1>12, <1>13

LEMMA PairedPop ==
    ASSUME AInv, NEW t \in Task, PopInput(t), IInv',
           NOutputs(t) <= 1, NEW i \in 1..NInputs(t)
    PROVE  InputPaired(t, i)'
  <1>1. PICK q : q = In[t][i]
    OBVIOUS
  <1>2. PICK items \in Seq(Tags), n \in Nat, m \in Nat, calls \in Calls(t) :
              /\ items = Items(got[q]) /\ n = Len(items)
              /\ calls = log[t] /\ m = Len(calls)
              /\ n > 0 => got[q] # <<>>
              /\ Paired(t, i, q, items, n, m)
    BY <1>1, PairedFacts
  <1>3. /\ RInv /\ IInv /\ [Next]_vars /\ Run(t) /\ q \in Queue /\ TaskInv(t) /\ EndLast(q)
        /\ \A r \in Queue : Own(r)' = Own(r)
    <2>1. RInv /\ IInv /\ [Next]_vars /\ Run(t) /\ q \in Queue
      BY <1>1, WiringFacts DEF AInv, RInv, DInv, SInv, Next, Run
    <2>2. capacity' = capacity
      BY DEF PopInput, ConsumerPop
    <2> QED BY <2>1, <2>2 DEF RInv, IInv, Own
  <1>4. PICK j \in 1..NInputs(t) :
              /\ full[In[t][j]] # <<>> /\ ~ Closed(In[t][j]) /\ ~ finished[t][j]
              /\ full' = [full EXCEPT ![In[t][j]] = Tail(@)]
              /\ got'[In[t][j]] = Append(got[In[t][j]], Content(Head(full[In[t][j]])))
              /\ \A k \in 1..NInputs(t) \ {j} :
                    /\ got'[In[t][k]] = got[In[t][k]] /\ full'[In[t][k]] = full[In[t][k]]
                    /\ finished'[t][k] = finished[t][k] /\ inputs'[t][k] = inputs[t][k]
                    /\ ~ finished[t][k] => (k \in Fetched(t)' <=> k \in Fetched(t))
              /\ finished'[t][j] = (Head(full[In[t][j]]) = EndOfStream)
              /\ inputs'[t][j] = IF Head(full[In[t][j]]) = EndOfStream
                                   THEN inputs[t][j] ELSE Head(full[In[t][j]])
              /\ j \notin Fetched(t) /\ j \in Fetched(t)' /\ j = Min(Pending(t))
              /\ pc[t] \in Getting /\ UNCHANGED <<pc, data, log, aborted>>
    BY <1>3, PopFacts
  <1>5. /\ InStep(t, i, n, m) /\ LastRead(t, i, q, inputs[t][i], items, n)
        /\ Logged(calls, i, q, items, n, m)
    BY <1>1, <1>2 DEF Paired
  <1>6. CASE i # j
    <2>1. /\ got'[q] = got[q] /\ finished'[t][i] = finished[t][i] /\ inputs'[t][i] = inputs[t][i]
          /\ ~ finished[t][i] => (i \in Fetched(t)' <=> i \in Fetched(t))
          /\ pc'[t] = pc[t] /\ log'[t] = calls
      BY <1>1, <1>2, <1>4, <1>6
    <2>2. LastRead(t, i, q, inputs[t][i], items, n)'
      <3>1. PICK b : b = inputs[t][i]
        OBVIOUS
      <3>2. LastRead(t, i, q, b, items, n)'
        BY <1>1, <1>2, <1>3, <1>5, <2>1, <3>1, LastReadStays
      <3> QED BY <2>1, <3>1, <3>2 DEF LastRead
    <2>3. Logged(calls, i, q, items, n, m)'
      BY <1>3, <1>5, LoggedStays
    <2>4. InStep(t, i, n, m)'
      BY <1>5, <2>1 DEF InStep
    <2>5. items = Items(got[q])'
      BY <1>2, <2>1 DEF Items
    <2>6. PICK b : b = inputs'[t][i]
      OBVIOUS
    <2>7. LastRead(t, i, q, b, items, n)'
      BY <2>2, <2>6 DEF LastRead
    <2> QED BY <1>1, <1>2, <2>1, <2>3, <2>4, <2>5, <2>6, <2>7, PairedAfter
  <1>7. CASE i = j
    <2>1. PICK x : x = Head(full[q])
      OBVIOUS
    <2>2. /\ full[q] # <<>> /\ ~ Closed(q) /\ ~ finished[t][i]
          /\ full' = [full EXCEPT ![q] = Tail(@)]
          /\ got'[q] = Append(got[q], Content(x))
          /\ finished'[t][i] = (x = EndOfStream)
          /\ inputs'[t][i] = IF x = EndOfStream THEN inputs[t][i] ELSE x
          /\ i \notin Fetched(t) /\ i \in Fetched(t)'
          /\ pc[t] \in Getting /\ pc' = pc /\ data' = data /\ log'[t] = calls
      BY <1>1, <1>2, <1>4, <1>7, <2>1
    <2>3. /\ full[q] \in Seq(Own(q) \cup {EndOfStream}) /\ got[q] \in Seq(Tags)
          /\ EndOfStream \notin Range(got[q])
      BY <1>3, <2>2, StreamTypes DEF Tags, Closed
    <2>4. /\ x \in Own(q) \cup {EndOfStream} /\ x = full[q][1]
          /\ Len(full[q]) \in Nat /\ Len(full[q]) > 0
      BY <2>1, <2>2, <2>3, HeadTailProperties, EmptySeq
    <2>5. items = got[q]
      BY <1>2, <2>3, ItemsFacts
    <2>6. (pc[t] # "flush" => n = m) /\ m <= n
      BY <1>5, <2>2 DEF InStep, Getting
    <2>7. CASE x = EndOfStream
      <3>1. Items(got[q])' = items
        <4>1. got'[q] = Append(got[q], EndOfStream)
          BY <2>2, <2>7 DEF Content
        <4>2. Items(Append(got[q], EndOfStream)) = got[q]
          BY <2>3, ItemsFacts
        <4> QED BY <2>5, <4>1, <4>2 DEF Items
      <3>2. PICK b : b = inputs'[t][i]
        OBVIOUS
      <3>3. b = inputs[t][i] /\ finished'[t][i]
        BY <2>2, <2>7, <3>2
      <3>4. LastRead(t, i, q, b, items, n)'
        <4>1. SUFFICES ASSUME n > 0
                       PROVE  /\ b \in Own(q)
                              /\ Value(b) = items[n] \/ b \in Range(full'[q]) \/ WrittenBehind(q)'
          BY <1>3, <2>2, <3>3 DEF LastRead, Value
        <4>2. b \in Own(q) /\ (Value(b) = items[n] \/ b \in Range(full[q]) \/ WrittenBehind(q))
          BY <1>5, <3>3, <4>1 DEF LastRead
        <4>3. b \notin Range(full[q])
          <5>1. \A k \in 1..Len(full[q]) : full[q][k] = EndOfStream => k = Len(full[q])
            BY <1>3 DEF EndLast
          <5>2. Len(full[q]) = 1
            <6>1. 1 \in 1..Len(full[q]) /\ full[q][1] = EndOfStream
              BY <2>4, <2>7
            <6> QED BY <5>1, <6>1
          <5>3. Range(full[q]) = {EndOfStream}
            <6>1. DOMAIN full[q] = 1..1
              BY <2>3, <5>2, LenProperties
            <6>2. \A k \in 1..1 : k = 1
              OBVIOUS
            <6>3. full[q][1] = EndOfStream
              BY <2>4, <2>7
            <6>4. Range(full[q]) = {full[q][k] : k \in 1..1}
              BY <6>1 DEF Range
            <6> QED BY <6>2, <6>3, <6>4
          <5>4. EndOfStream \notin Own(q)
            BY <1>3, OwnFacts DEF IInv
          <5> QED BY <4>2, <5>3, <5>4
        <4> QED BY <1>3, <4>2, <4>3, WrittenBehindStays
      <3>5. Logged(calls, i, q, items, n, m)'
        BY <1>3, <1>5, LoggedStays
      <3>6. InStep(t, i, n, m)'
        BY <2>2, <2>6, <3>3 DEF InStep
      <3> QED BY <1>1, <1>2, <2>2, <3>1, <3>2, <3>4, <3>5, <3>6, PairedAfter
    <2>8. CASE x # EndOfStream
      <3>1. x \in Own(q) /\ Content(x) = Value(x) /\ Value(x) \in Nat /\ Value(x)' = Value(x)
        BY <1>3, <2>2, <2>4, <2>8, ValueType DEF Content, Value
      <3>2. PICK more \in Seq(Tags) : more = Append(items, Value(x))
        BY <3>1, AppendProperties DEF Tags
      <3>3. Len(more) = n + 1 /\ more[n + 1] = Value(x) /\ \A k \in 1..n : more[k] = items[k]
        <4>1. Value(x) \in Tags
          BY <3>1 DEF Tags
        <4> QED BY <1>2, <3>2, <4>1, AppendProperties
      <3>4. Items(got[q])' = more
        <4>1. got'[q] = Append(got[q], Value(x))
          BY <2>2, <3>1
        <4>2. Items(Append(got[q], Value(x))) = Append(got[q], Value(x))
          BY <2>3, <3>1, ItemsFacts
        <4> QED BY <2>5, <3>2, <4>1, <4>2 DEF Items
      <3>5. inputs'[t][i] = x /\ ~ finished'[t][i]
        BY <2>2, <2>8
      <3>6. LastRead(t, i, q, x, more, n + 1)'
        BY <1>3, <3>1, <3>3 DEF LastRead
      <3>7. InStep(t, i, n + 1, m)'
        BY <2>2, <2>6, <3>5 DEF InStep
      <3>8. Logged(calls, i, q, more, n + 1, m)'
        <4>1. SUFFICES ASSUME NEW k \in 1..m
                       PROVE  calls[k][i] = more[IF k <= n + 1 THEN k ELSE n + 1]
          BY DEF Logged
        <4>2. k <= n /\ k \in 1..n /\ n > 0
          BY <2>6
        <4>3. calls[k][i] = items[k]
          BY <1>5, <4>2 DEF Logged
        <4>4. k <= n + 1
          BY <4>2
        <4> QED BY <3>3, <4>2, <4>3, <4>4
      <3>9. PICK n2 \in Nat : n2 = n + 1
        OBVIOUS
      <3>10. /\ LastRead(t, i, q, x, more, n2)' /\ InStep(t, i, n2, m)'
             /\ Logged(calls, i, q, more, n2, m)' /\ n2 = Len(more)
        BY <3>3, <3>6, <3>7, <3>8, <3>9
      <3> QED BY <1>1, <1>2, <2>2, <3>4, <3>5, <3>10, PairedAfter
    <2> QED BY <2>7, <2>8
  <1> QED BY <1>6, <1>7

LEMMA NextAligned == AInv /\ [Next]_vars => AInv'
  <1> SUFFICES ASSUME AInv, [Next]_vars PROVE AInv'
    OBVIOUS
  <1>1. RInv' /\ IInv'
    BY NextReads DEF AInv, RInv, DInv, SInv
  <1>2. CASE \E u \in Task : Run(u)
    <2>1. PICK u \in Task : Run(u)
      BY <1>2
    <2>2. DOMAIN log' = Task /\ \A v \in Task : log'[v] \in Calls(v)
      BY <2>1, CallsStep DEF AInv
    <2>3. ASSUME NEW t \in Task, NOutputs(t) <= 1, NEW i \in 1..NInputs(t)
          PROVE  InputPaired(t, i)'
      BY <1>1, <2>1, <2>3, PairedElsewhere, PairedWorks, PairedPop
    <2> QED BY <1>1, <2>2, <2>3 DEF AInv, Calls
  <1>3. CASE Abort \/ UNCHANGED vars
    <2>1. UNCHANGED <<full, capacity, pc, idx, finished, inputs, data, log, got>>
      BY <1>3 DEF Abort, vars, queueVars, threadVars, streams
    <2>2. ASSUME NEW t \in Task, NOutputs(t) <= 1, NEW i \in 1..NInputs(t)
          PROVE  InputPaired(t, i)'
      <3>1. PICK q, b : q = In[t][i] /\ b = inputs[t][i]
        OBVIOUS
      <3>2. PICK items \in Seq(Tags), n \in Nat, m \in Nat, calls \in Calls(t) :
                  /\ items = Items(got[q]) /\ n = Len(items)
                  /\ calls = log[t] /\ m = Len(calls)
                  /\ n > 0 => got[q] # <<>>
                  /\ Paired(t, i, q, items, n, m)
        BY <2>2, <3>1, PairedFacts
      <3>3. InStep(t, i, n, m) /\ LastRead(t, i, q, b, items, n) /\ Logged(calls, i, q, items, n, m)
        BY <3>1, <3>2 DEF Paired
      <3>4. Own(q)' = Own(q) /\ Fetched(t)' = Fetched(t) /\ Value(b)' = Value(b)
        BY <2>1 DEF Own, Fetched, Value
      <3>5. WrittenBehind(q) => WrittenBehind(q)'
        BY WrittenBehindStays DEF AInv
      <3>6. LastRead(t, i, q, b, items, n)'
        BY <2>1, <3>3, <3>4, <3>5 DEF LastRead
      <3>7. InStep(t, i, n, m)' /\ Logged(calls, i, q, items, n, m)'
        BY <2>1, <3>3, <3>4, <3>5 DEF InStep, Logged
      <3>8. items = Items(got[q])' /\ calls = log'[t] /\ b = inputs'[t][i]
        BY <2>1, <3>1, <3>2 DEF Items
      <3> QED BY <3>1, <3>2, <3>6, <3>7, <3>8, PairedAfter
    <2> QED BY <1>1, <2>1, <2>2 DEF AInv, Calls
  <1> QED BY <1>2, <1>3 DEF Next, Joined

LEMMA InitAligned == Init => AInv
  <1> SUFFICES ASSUME Init PROVE AInv
    OBVIOUS
  <1>1. RInv
    BY InitReads
  <1>2. /\ log = [t \in Task |-> <<>>] /\ got = [q \in Queue |-> <<>>]
        /\ pc = [t \in Task |-> Entry(t)] /\ idx = [t \in Task |-> 1]
    BY DEF Init, InitOf
  <1>3. ASSUME NEW t \in Task, NEW i \in 1..NInputs(t) PROVE InputPaired(t, i)
    <2>1. got[In[t][i]] = <<>> /\ log[t] = <<>> /\ Len(<<>>) = 0
      BY <1>2, WiringFacts
    <2>2. Items(got[In[t][i]]) = <<>>
      BY <2>1 DEF Items
    <2>3. pc[t] \in {"first", "get"}
      <3>1. Mode[t] # "generator"
        BY FixedAssumption
      <3> QED BY <1>2, <3>1 DEF Entry
    <2>4. i \notin Fetched(t)
      <3>1. Fetched(t) = {j \in 1..NInputs(t) : j < idx[t]}
        BY <2>3 DEF Fetched, Getting
      <3>2. idx[t] = 1 /\ ~ (i < 1)
        BY <1>2, WiringFacts
      <3> QED BY <3>1, <3>2
    <2>5. InStep(t, i, 0, 0)
      BY <2>4 DEF InStep
    <2>6. \A q, b : LastRead(t, i, q, b, <<>>, 0) /\ Logged(<<>>, i, q, <<>>, 0, 0)
      BY DEF LastRead, Logged
    <2> QED BY <2>1, <2>2, <2>5, <2>6 DEF InputPaired, Paired
  <1>4. ASSUME NEW t \in Task PROVE log[t] \in Calls(t)
    BY <1>2, EmptySeq DEF Calls
  <1> QED BY <1>1, <1>2, <1>3, <1>4 DEF AInv

LEMMA InvAligned == AInv => InputsAligned
  <1> SUFFICES ASSUME AInv, NEW t \in Task, NOutputs(t) <= 1,
                      NEW k \in DOMAIN log[t], NEW i \in 1..NInputs(t),
                      NEW items, items = Items(got[In[t][i]]), items # <<>>,
                      k <= Len(items) \/ ~ WrittenBehind(In[t][i])
               PROVE  log[t][k][i] = items[IF k <= Len(items) THEN k ELSE Len(items)]
    BY DEF InputsAligned
  <1>1. PICK n \in Nat, m \in Nat, calls \in Calls(t) :
              /\ items \in Seq(Tags) /\ n = Len(items) /\ calls = log[t] /\ m = Len(calls)
              /\ Paired(t, i, In[t][i], items, n, m)
    BY PairedFacts
  <1>2. n > 0 /\ DOMAIN calls = 1..m
    BY <1>1, EmptySeq, LenProperties DEF Calls
  <1> QED BY <1>1, <1>2 DEF Paired, Logged

(* The k-th call of process works with the k-th item of every input, and   *)
(* with the last one of an input that has ended: the buffer of that one    *)
(* went back to its producer long before, and nobody but a producer that   *)
(* was stopped or aborted, or a reductor that reads on, writes to it then  *)
(* (pop_input_data and release_input_data of ufo-fixed-scheduler.c).       *)
THEOREM FixedInputsAligned == Spec => []InputsAligned
  <1>1. AInv /\ [Next]_vars => AInv'
    BY NextAligned
  <1> QED BY <1>1, InitAligned, InvAligned, PTL DEF Spec

----------------------------------------------------------------------------
(* Progress *)

(* Every connection has a task at both ends. *)
Wired == \A q \in Queue : \E p, r \in Task : q \in Range(Out[p]) /\ q \in Range(In[r])

EdgesWithin(D) == {q \in Queue : \E p, r \in D : q \in Range(Out[p]) /\ q \in Range(In[r])}

(* The graph is a finite forest: there are fewer connections between the   *)
(* tasks of any set than tasks in it.                                      *)
Forest ==
    /\ IsFiniteSet(Task) /\ IsFiniteSet(Queue)
    /\ \A D \in SUBSET Task : D # {} => Cardinality(EdgesWithin(D)) < Cardinality(D)

(* F are connections that get an item in every run that goes on: a         *)
(* generator has one for each successor, a task in between gets one itself *)
(* and does not fail.  Every reductor reads such a connection.             *)
Supplied(F) ==
    /\ F \subseteq Queue
    /\ \A t \in Task : Range(Out[t]) \cap F # {} =>
          CASE Mode[t] = "generator" -> MinItems[t] >= NOutputs(t)
            [] Mode[t] = "reductor"  -> MinItems[t] > 0 /\ t \notin MayFail
            [] OTHER                 -> t \notin MayFail /\ Range(In[t]) \cap F # {}
    /\ \A t \in Task : Mode[t] = "reductor" => Range(In[t]) \cap F # {}

(* The buffers of an input that its task holds are the one it reads now    *)
(* and, when get_requisition has failed, x: the one it read then, which    *)
(* nobody gives back.                                                      *)
KeptBut(t, i, x) ==
    \A b \in held[t] : b[1] = In[t][i] =>
        (i \in Fetched(t) /\ b = inputs[t][i]) \/ (pc[t] = "flush" /\ b = x)

Kept(t, i) == pc[t] # "done" /\ ~ finished[t][i] => \E x : KeptBut(t, i, x)

(* Its pointer is not lost. *)
Remembered(t, i) == \A b \in held[t] : b[1] = In[t][i] => inputs[t][i] # NullBuffer

Draining(t) == pc[t] = "flush" => t \in failed \cap MayFail

(* A reductor inserts a buffer once. *)
OneBuffer(t) ==
    Mode[t] = "reductor" =>
        /\ pc[t] \in {"first", "popout"} => capacity[Out[t][1]] = 0
        /\ pc[t] \in {"reduce", "reget", "regenerate", "repopout"} => capacity[Out[t][1]] = 1

(* While the producer p of q goes on, every buffer of q is at one of its   *)
(* four places.                                                            *)
Conserved(p, r, q) ==
    pc[p] # "done" =>
        \A b \in Own(q) : \/ b \in Range(free[q]) \cup Range(full[q]) \cup held[r]
                          \/ HoldsOutput(p) /\ out[p] = b

HInv ==
    /\ AInv
    /\ \A t \in Task : Draining(t) /\ OneBuffer(t)
    /\ \A t \in Task : \A i \in 1..NInputs(t) : Kept(t, i) /\ Remembered(t, i)
    /\ \A p, r \in Task : \A q \in Range(Out[p]) \cap Range(In[r]) : Conserved(p, r, q)

----------------------------------------------------------------------------
(* What a task holds of its inputs *)

(* All steps but pops keep the inputs, or give them all back. *)
LEMMA RestFacts ==
    ASSUME IInv, NEW t \in Task, Run(t), ~ PopInput(t), ~ PopOut(t)
    PROVE  /\ UNCHANGED <<finished, inputs, capacity, out, got>>
           /\ pc[t] \in Getting => Pending(t) = {}
           /\ \/ UNCHANGED <<free, held>>
              \/ ReleaseInputs(t) /\ pc'[t] \in Getting \cup {"done"} /\ idx'[t] = 1
           /\ pc'[t] \in Getting => Fail(t) \/ ReleaseInputs(t)
  <1>1. DOMAIN pc = Task /\ DOMAIN idx = Task
    BY DEF IInv, TypeInv, TypeRest
  <1>2. /\ UNCHANGED <<finished, inputs, capacity, out, got>>
        /\ pc[t] \in Getting => Pending(t) = {}
    BY DEF Run, Generate, FailGenerator, GetRound, ProcessSink, Process, Fail, Flush, FirstRound,
           Reduce, Reget, Regenerate, PushItem, Leave, streams, queueVars, GotInputs, Getting
  <1>3. CASE Generate(t) \/ FailGenerator(t) \/ GetRound(t) \/ Fail(t) \/ FirstRound(t) \/ Reget(t)
             \/ Regenerate(t)
    <2>1. UNCHANGED <<free, held>>
      BY <1>3 DEF Generate, FailGenerator, GetRound, Fail, FirstRound, Reget, Regenerate, queueVars
    <2>2. pc'[t] \in Getting => Fail(t)
      BY <1>1, <1>3 DEF Generate, FailGenerator, GetRound, GotInputs, FirstRound, Reget, Regenerate,
                        NextOutput, Leave, GoTo, Getting
    <2> QED BY <1>2, <2>1, <2>2
  <1>4. CASE ProcessSink(t) \/ Flush(t) \/ Reduce(t)
    BY <1>1, <1>2, <1>4 DEF ProcessSink, Flush, Reduce, Leave, GoTo, Getting
  <1>5. CASE Process(t)
    BY <1>1, <1>2, <1>5 DEF Process, AfterOutput, NextOutput, Leave, GoTo, Getting
  <1> QED BY <1>2, <1>3, <1>4, <1>5 DEF Run

(* What goes back to the queue is what the task reads. *)
LEMMA ReleasePlaces ==
    ASSUME IInv, NEW t \in Task, ReleaseInputs(t)
    PROVE  /\ held'[t] = held[t] \ Range(inputs[t])
           /\ \A q \in Queue : Range(free[q]) \subseteq Range(free'[q])
           /\ \A i \in 1..NInputs(t) : inputs[t][i] # NullBuffer =>
                  inputs[t][i] \in Range(free'[In[t][i]])
  <1>1. held \in [Task -> SUBSET Buffer] /\ held'[t] = held[t] \ Range(inputs[t])
    BY DEF ReleaseInputs, IInv, TypeInv, TypeRest
  <1>2. ASSUME NEW i \in 1..NInputs(t), inputs[t][i] # NullBuffer
        PROVE  free'[In[t][i]] = Append(free[In[t][i]], inputs[t][i]) /\ inputs[t][i] \in Own(In[t][i])
    <2>1. In[t][i] \in Released(t) /\ In[t][i] \in Queue
      BY <1>2, WiringFacts DEF Released
    <2>2. (CHOOSE j \in 1..NInputs(t) : In[t][j] = In[t][i]) = i
      BY WiringFacts
    <2> QED BY <1>2, <2>1, <2>2 DEF ReleaseInputs, IInv, TaskInv, Owned
  <1>3. \A q \in Queue : free[q] \in Seq(Own(q))
    BY DEF IInv, TypeInv, TypeQueues
  <1>4. ASSUME NEW q \in Queue PROVE Range(free[q]) \subseteq Range(free'[q])
    <2>1. CASE q \in Released(t)
      <3>1. PICK i \in 1..NInputs(t) : q = In[t][i] /\ inputs[t][i] # NullBuffer
        BY <2>1 DEF Released
      <3>2. PICK b \in Own(q) : free'[q] = Append(free[q], b)
        BY <1>2, <3>1
      <3> QED BY <1>3, <3>2, AppendRange
    <2>2. CASE q \notin Released(t)
      BY <2>2 DEF ReleaseInputs
    <2> QED BY <2>1, <2>2
  <1>5. ASSUME NEW i \in 1..NInputs(t), inputs[t][i] # NullBuffer
        PROVE  inputs[t][i] \in Range(free'[In[t][i]])
    <2>1. PICK q \in Queue : q = In[t][i]
      BY WiringFacts
    <2>2. PICK b \in Own(q) : b = inputs[t][i] /\ free'[q] = Append(free[q], b)
      BY <1>2, <1>5, <2>1
    <2> QED BY <1>3, <2>1, <2>2, AppendRange
  <1> QED BY <1>1, <1>4, <1>5

(* The pop of an input: its end marker, or a buffer that is held then. *)
PopsItem(t, j, b) ==
    /\ b \in Own(In[t][j]) /\ full[In[t][j]] # <<>> /\ b = Head(full[In[t][j]])
    /\ inputs'[t][j] = b /\ held'[t] = held[t] \cup {b}
PopsEnd(t, j) ==
    /\ Head(full[In[t][j]]) = EndOfStream /\ finished'[t][j]
    /\ inputs'[t][j] = inputs[t][j] /\ held'[t] = held[t]

LEMMA PopHolds ==
    ASSUME RInv, NEW t \in Task, PopInput(t)
    PROVE  \E j \in 1..NInputs(t) :
              /\ ~ finished[t][j] /\ j \notin Fetched(t) /\ j \in Fetched(t)'
              /\ full[In[t][j]] # <<>> /\ full' = [full EXCEPT ![In[t][j]] = Tail(@)]
              /\ got'[In[t][j]] = Append(got[In[t][j]], Content(Head(full[In[t][j]])))
              /\ \A i \in 1..NInputs(t) \ {j} :
                    /\ got'[In[t][i]] = got[In[t][i]]
                    /\ finished'[t][i] = finished[t][i] /\ inputs'[t][i] = inputs[t][i]
                    /\ ~ finished[t][i] => (i \in Fetched(t)' <=> i \in Fetched(t))
              /\ PopsEnd(t, j) \/ \E b : PopsItem(t, j, b)
              /\ pc[t] \in Getting /\ UNCHANGED <<pc, free, capacity, out, log, failed, aborted>>
              /\ Fetched(t) \subseteq Fetched(t)'
  <1>1. PICK j \in 1..NInputs(t) :
           /\ full[In[t][j]] # <<>> /\ ~ Closed(In[t][j]) /\ ~ finished[t][j]
           /\ full' = [full EXCEPT ![In[t][j]] = Tail(@)]
           /\ got'[In[t][j]] = Append(got[In[t][j]], Content(Head(full[In[t][j]])))
           /\ \A i \in 1..NInputs(t) \ {j} :
                 /\ got'[In[t][i]] = got[In[t][i]] /\ full'[In[t][i]] = full[In[t][i]]
                 /\ finished'[t][i] = finished[t][i] /\ inputs'[t][i] = inputs[t][i]
                 /\ ~ finished[t][i] => (i \in Fetched(t)' <=> i \in Fetched(t))
           /\ finished'[t][j] = (Head(full[In[t][j]]) = EndOfStream)
           /\ inputs'[t][j] = IF Head(full[In[t][j]]) = EndOfStream
                                THEN inputs[t][j] ELSE Head(full[In[t][j]])
           /\ j \notin Fetched(t) /\ j \in Fetched(t)' /\ j = Min(Pending(t))
           /\ pc[t] \in Getting /\ UNCHANGED <<pc, data, log, aborted>>
    BY PopFacts
  <1>2. PICK b : b = Head(full[In[t][j]])
    OBVIOUS
  <1>3. IInv /\ held \in [Task -> SUBSET Buffer]
    BY DEF RInv, DInv, SInv, IInv, TypeInv, TypeRest
  <1>4. b \in Own(In[t][j]) \cup {EndOfStream}
    <2>1. Pending(t) # {}
      BY DEF PopInput
    <2> QED BY <1>1, <1>2, <1>3, <2>1, PopInputFacts
  <1>5. Fetched(t) \subseteq Fetched(t)'
    <2>1. idx[t] \in Nat /\ idx'[t] = j + 1 /\ pc'[t] \in Getting
      BY <1>1, <1>3 DEF PopInput, IInv, TypeInv, TypeRest
    <2>2. idx[t] <= j
      BY <1>1, <1>3, PopInputFacts DEF PopInput
    <2>3. Fetched(t) = {i \in 1..NInputs(t) : i < idx[t]}
      BY <1>1 DEF Fetched
    <2>4. Fetched(t)' = {i \in 1..NInputs(t) : i < idx'[t]}
      BY <2>1 DEF Fetched, Getting
    <2> QED BY <2>1, <2>2, <2>3, <2>4
  <1>6. CASE b = EndOfStream
    <2>1. held' = held
      BY <1>1, <1>2, <1>6 DEF PopInput
    <2> QED BY <1>1, <1>2, <1>5, <1>6, <2>1 DEF PopInput, PopsEnd
  <1>7. CASE b # EndOfStream
    <2>1. held' = [held EXCEPT ![t] = @ \cup {b}]
      BY <1>1, <1>2, <1>7 DEF PopInput
    <2>2. PopsItem(t, j, b)
      BY <1>1, <1>2, <1>3, <1>4, <1>7, <2>1 DEF PopsItem
    <2> QED BY <1>1, <1>5, <2>2 DEF PopInput
  <1> QED BY <1>6, <1>7

(* What another task does changes nothing of this. *)
LEMMA HoldingElsewhere ==
    ASSUME HInv, NEW u \in Task, Run(u), NEW t \in Task, t # u
    PROVE  /\ Draining(t)' /\ OneBuffer(t)'
           /\ \A i \in 1..NInputs(t) : Kept(t, i)' /\ Remembered(t, i)'
  <1>1. IInv /\ OthersSame(u)
    BY RunElsewhere DEF HInv, AInv, RInv, DInv, SInv
  <1>2. /\ pc'[t] = pc[t] /\ idx'[t] = idx[t] /\ finished'[t] = finished[t]
        /\ inputs'[t] = inputs[t] /\ held'[t] = held[t]
    BY <1>1 DEF OthersSame
  <1>3. Fetched(t)' = Fetched(t)
    BY <1>2 DEF Fetched
  <1>4. failed \subseteq failed'
    BY DEF Run, PopInput, PopOut, Generate, FailGenerator, GetRound, ProcessSink, Process, Fail,
           Flush, FirstRound, Reduce, Reget, Regenerate
  <1>5. ASSUME NEW i \in 1..NInputs(t) PROVE Kept(t, i)' /\ Remembered(t, i)'
    BY <1>2, <1>3 DEF HInv, Kept, KeptBut, Remembered
  <1>6. Mode[t] = "reductor" => capacity'[Out[t][1]] = capacity[Out[t][1]]
    <2>1. ASSUME Mode[t] = "reductor", PopOut(u) PROVE capacity'[Out[t][1]] = capacity[Out[t][1]]
      <3>1. AtOutput(u) /\ ProducerPop(OutQueue(u), Room(u))
        BY <2>1 DEF PopOut, AtOutput
      <3>2. OutQueue(u) \in Range(Out[u])
        BY <1>1, <3>1, OutputFacts
      <3>3. Out[t][1] \in Range(Out[t]) /\ Out[t][1] \in Queue
        BY <2>1, FixedAssumption, WiringFacts
      <3>4. Out[t][1] # OutQueue(u)
        BY <3>2, <3>3, WiringFacts
      <3>5. DOMAIN capacity = Queue
        BY <1>1 DEF IInv, TypeInv, TypeQueues
      <3> QED BY <3>1, <3>3, <3>4, <3>5 DEF ProducerPop
    <2>2. ~ PopOut(u) => capacity' = capacity
      BY <1>1, RestFacts DEF PopInput
    <2> QED BY <2>1, <2>2
  <1>7. Draining(t)' /\ OneBuffer(t)'
    BY <1>2, <1>4, <1>6 DEF HInv, Draining, OneBuffer
  <1> QED BY <1>5, <1>7

LEMMA DrainingStep ==
    ASSUME HInv, NEW t \in Task, Run(t)
    PROVE  Draining(t)'
  <1>1. DOMAIN pc = Task /\ Draining(t)
    BY DEF HInv, AInv, RInv, DInv, SInv, IInv, TypeInv, TypeRest
  <1>2. CASE PopInput(t) \/ PopOut(t) \/ Generate(t) \/ FailGenerator(t)
    BY <1>1, <1>2 DEF PopInput, PopOut, Generate, FailGenerator, NextOutput, Leave, GoTo, Draining
  <1>3. CASE GetRound(t) \/ ProcessSink(t) \/ Fail(t) \/ FirstRound(t) \/ Reduce(t) \/ Reget(t)
    BY <1>1, <1>3 DEF GetRound, ProcessSink, Fail, FirstRound, Reduce, Reget, Leave, GoTo, Draining
  <1>4. CASE Process(t) \/ Regenerate(t)
    BY <1>1, <1>4 DEF Process, AfterOutput, NextOutput, Regenerate, Leave, GoTo, Draining
  <1>5. CASE Flush(t)
    BY <1>1, <1>5 DEF Flush, GotInputs, Draining
  <1> QED BY <1>2, <1>3, <1>4, <1>5 DEF Run

(* The inputs that a step leaves alone. *)
LEMMA KeptRest ==
    ASSUME HInv, NEW t \in Task, Run(t), ~ PopInput(t), NEW i \in 1..NInputs(t)
    PROVE  Kept(t, i)' /\ Remembered(t, i)'
  <1>1. IInv /\ Kept(t, i) /\ Remembered(t, i) /\ pc[t] # "done" /\ DOMAIN pc = Task
    BY RunActive DEF HInv, AInv, RInv, DInv, SInv, IInv, TypeInv, TypeRest
  <1>2. /\ UNCHANGED <<finished, inputs>> /\ (pc[t] \in Getting => Pending(t) = {})
        /\ \/ UNCHANGED held
           \/ ReleaseInputs(t) /\ pc'[t] \in Getting \cup {"done"} /\ idx'[t] = 1
    BY <1>1, RestFacts DEF PopOut, Getting
  <1>3. UNCHANGED held \/ held'[t] = held[t] \ Range(inputs[t])
    BY <1>1, <1>2, ReleasePlaces
  <1>4. Remembered(t, i)'
    BY <1>1, <1>2, <1>3 DEF Remembered
  <1>5. ASSUME pc'[t] # "done", ~ finished'[t][i] PROVE \E x : KeptBut(t, i, x)'
    <2>1. PICK x : KeptBut(t, i, x)
      BY <1>1, <1>2, <1>5 DEF Kept
    <2>2. i \in Fetched(t) /\ inputs[t][i] \in Range(inputs[t])
      <3>1. DOMAIN inputs[t] = 1..NInputs(t)
        BY <1>1 DEF IInv, TypeInv, TypeInputs
      <3> QED BY <1>1, <1>2, <1>5, <3>1, GotFetched DEF Range
    <2>3. pc[t] = "flush" => pc'[t] = "flush"
      BY <1>1, <1>5 DEF Run, PopOut, Generate, FailGenerator, GetRound, ProcessSink, Process, Fail,
          Flush, FirstRound, Reduce, Reget, Regenerate, GotInputs, Leave, GoTo
    <2>4. CASE held'[t] = held[t] \ Range(inputs[t])
      BY <1>2, <2>1, <2>2, <2>3, <2>4 DEF KeptBut
    <2>5. CASE UNCHANGED held /\ pc'[t] \notin Getting
      <3>1. i \in Fetched(t)'
        BY <1>5, <2>5 DEF Fetched
      <3> QED BY <1>2, <2>1, <2>3, <2>5, <3>1 DEF KeptBut, Getting
    <2>6. CASE Fail(t)
      <3>1. held' = held /\ pc'[t] = "flush" /\ pc[t] # "flush"
        BY <1>1, <2>6 DEF Fail, GoTo, GotInputs
      <3>2. KeptBut(t, i, inputs[t][i])'
        BY <1>2, <2>1, <3>1 DEF KeptBut
      <3> QED BY <3>2
    <2>7. pc'[t] \in Getting => Fail(t) \/ held'[t] = held[t] \ Range(inputs[t])
      <3>1. PopOut(t) => pc'[t] \notin Getting
        BY <1>1 DEF PopOut, Getting
      <3> QED BY <1>1, <3>1, RestFacts, ReleasePlaces
    <2> QED BY <1>3, <2>4, <2>5, <2>6, <2>7
  <1> QED BY <1>4, <1>5 DEF Kept

LEMMA KeptPop ==
    ASSUME HInv, NEW t \in Task, PopInput(t), NEW i \in 1..NInputs(t)
    PROVE  Kept(t, i)' /\ Remembered(t, i)'
  <1>1. IInv /\ Kept(t, i) /\ Remembered(t, i) /\ RInv
    BY DEF HInv, AInv, RInv, DInv, SInv
  <1>2. PICK j \in 1..NInputs(t) :
              /\ ~ finished[t][j] /\ j \notin Fetched(t) /\ j \in Fetched(t)'
              /\ full[In[t][j]] # <<>> /\ full' = [full EXCEPT ![In[t][j]] = Tail(@)]
              /\ got'[In[t][j]] = Append(got[In[t][j]], Content(Head(full[In[t][j]])))
              /\ \A k \in 1..NInputs(t) \ {j} :
                    /\ got'[In[t][k]] = got[In[t][k]]
                    /\ finished'[t][k] = finished[t][k] /\ inputs'[t][k] = inputs[t][k]
                    /\ ~ finished[t][k] => (k \in Fetched(t)' <=> k \in Fetched(t))
              /\ PopsEnd(t, j) \/ \E b : PopsItem(t, j, b)
              /\ pc[t] \in Getting /\ UNCHANGED <<pc, free, capacity, out, log, failed, aborted>>
    BY <1>1, PopHolds
  <1>3. CASE PopsEnd(t, j)
    <2>1. Remembered(t, i)'
      BY <1>1, <1>2, <1>3 DEF PopsEnd, Remembered
    <2>2. CASE i = j
      BY <1>3, <2>1, <2>2 DEF PopsEnd, Kept
    <2>3. ASSUME i # j, pc'[t] # "done", ~ finished'[t][i] PROVE \E x : KeptBut(t, i, x)'
      <3>1. PICK x : KeptBut(t, i, x)
        BY <1>1, <1>2, <2>3 DEF Kept
      <3>2. KeptBut(t, i, x)'
        BY <1>2, <1>3, <2>3, <3>1 DEF PopsEnd, KeptBut
      <3> QED BY <3>2
    <2> QED BY <2>1, <2>2, <2>3 DEF Kept
  <1>4. ASSUME NEW b, PopsItem(t, j, b) PROVE Kept(t, i)' /\ Remembered(t, i)'
    <2>1. b \in Own(In[t][j]) /\ inputs'[t][j] = b /\ held'[t] = held[t] \cup {b}
      BY <1>4 DEF PopsItem
    <2>2. b[1] = In[t][j] /\ b # NullBuffer
      <3>1. In[t][j] \in Queue
        BY WiringFacts
      <3> QED BY <1>1, <2>1, <3>1, OwnFacts DEF IInv
    <2>3. i # j => In[t][i] # In[t][j]
      BY WiringFacts
    <2>4. Remembered(t, i)'
      BY <1>1, <1>2, <2>1, <2>2, <2>3 DEF Remembered
    <2>5. ASSUME pc'[t] # "done", ~ finished'[t][i] PROVE \E x : KeptBut(t, i, x)'
      <3>1. pc'[t] = pc[t] /\ ~ finished[t][i]
        BY <1>2, <2>5
      <3>2. PICK x : KeptBut(t, i, x)
        BY <1>1, <2>5, <3>1 DEF Kept
      <3>3. i = j => KeptBut(t, i, x)'
        BY <1>2, <2>1, <3>1, <3>2 DEF KeptBut
      <3>4. i # j => KeptBut(t, i, x)'
        BY <1>2, <2>1, <2>2, <2>3, <3>1, <3>2 DEF KeptBut
      <3> QED BY <3>3, <3>4
    <2> QED BY <2>4, <2>5 DEF Kept
  <1> QED BY <1>2, <1>3, <1>4

LEMMA OneBufferStep ==
    ASSUME HInv, NEW t \in Task, Run(t)
    PROVE  OneBuffer(t)'
  <1> SUFFICES ASSUME Mode[t] = "reductor" PROVE OneBuffer(t)'
    BY DEF OneBuffer
  <1>1. /\ IInv /\ OneBuffer(t) /\ DOMAIN pc = Task /\ DOMAIN capacity = Queue
        /\ pc[t] \in {"first", "popout", "reduce", "reget", "regenerate", "repopout", "flush", "done"}
    BY ModeFacts DEF HInv, AInv, RInv, DInv, SInv, IInv, TypeInv, TypeRest, TypeQueues, PCs
  <1>2. CASE PopInput(t)
    BY <1>1, <1>2 DEF PopInput, OneBuffer
  <1>3. CASE PopOut(t)
    <2>1. AtOutput(t) /\ ProducerPop(OutQueue(t), Room(t))
      BY <1>3 DEF PopOut, AtOutput
    <2>2. OutQueue(t) = Out[t][1] /\ OutQueue(t) \in Queue
      BY <1>1, <2>1, OutputFacts DEF OutPos
    <2>3. PICK n : n = capacity[Out[t][1]] /\ n \in 0..2
      BY <1>1, <2>2 DEF IInv, TypeInv, TypeQueues, Limit
    <2>4. capacity'[Out[t][1]] = IF n < Room(t) THEN n + 1 ELSE n
      BY <1>1, <2>1, <2>2, <2>3 DEF ProducerPop
    <2>5. CASE pc[t] = "popout"
      <3>1. n = 0 /\ Room(t) = 2
        BY <1>1, <2>3, <2>5 DEF OneBuffer, Room, Limit
      <3>2. pc'[t] = "reduce"
        BY <1>1, <1>3, <2>5 DEF PopOut
      <3> QED BY <2>4, <3>1, <3>2 DEF OneBuffer
    <2>6. CASE pc[t] = "repopout"
      <3>1. n = 1 /\ Room(t) = 0
        BY <1>1, <2>3, <2>6 DEF OneBuffer, Room
      <3>2. pc'[t] = "regenerate"
        BY <1>1, <1>3, <2>6 DEF PopOut
      <3> QED BY <2>4, <3>1, <3>2 DEF OneBuffer
    <2> QED BY <1>3, <2>5, <2>6 DEF PopOut
  <1>4. CASE ~ PopInput(t) /\ ~ PopOut(t)
    <2>1. capacity' = capacity
      BY <1>1, <1>4, RestFacts
    <2>2. \/ pc[t] = "first" /\ pc'[t] \in {"popout", "flush", "done"}
          \/ pc[t] \in {"reduce", "reget", "regenerate"}
             /\ pc'[t] \in {"reduce", "reget", "regenerate", "repopout", "done"}
          \/ pc[t] = "flush" /\ pc'[t] \in {"flush", "done"}
      <3>1. ~ (Generate(t) \/ FailGenerator(t) \/ ProcessSink(t) \/ GetRound(t) \/ Process(t))
        BY <1>1 DEF Generate, FailGenerator, ProcessSink, GetRound, GotInputs, Process
      <3> QED BY <1>1, <1>4, <3>1 DEF Run, Fail, Flush, FirstRound, Reduce, Reget, Regenerate,
                     GotInputs, Leave, GoTo
    <2> QED BY <1>1, <2>1, <2>2 DEF OneBuffer
  <1> QED BY <1>2, <1>3, <1>4

----------------------------------------------------------------------------
(* No buffer is lost *)

(* A buffer that a task fills is filled on, or is pushed. *)
LEMMA FilledStays ==
    ASSUME IInv, NEW t \in Task, Run(t), HoldsOutput(t), pc'[t] # "done"
    PROVE  \/ HoldsOutput(t)' /\ out'[t] = out[t]
           \/ \E q \in Queue : out[t] \in Own(q) /\ out[t] \in Range(full'[q])
  <1>1. DOMAIN pc = Task /\ pc[t] \in PCs(Mode[t]) /\ Mode[t] # "sink"
    BY ModeFacts DEF IInv, TypeInv, TypeRest, HoldsOutput
  <1>2. ASSUME NEW v, PushItem(t, v), AtOutput(t)
        PROVE  \E q \in Queue : out[t] \in Own(q) /\ out[t] \in Range(full'[q])
    <2>1. PICK q \in Queue : q = OutQueue(t) /\ out[t] \in Own(q)
      BY <1>2, OutputFacts
    <2>2. full[q] \in Seq(Own(q) \cup {EndOfStream}) /\ DOMAIN full = Queue
      BY DEF IInv, TypeInv, TypeQueues
    <2>3. full'[q] = full[q] \o <<out[t]>>
      BY <1>2, <2>1, <2>2 DEF PushItem, ProducerPush
    <2>4. out[t] \in Range(full'[q])
      <3>1. PICK b \in Own(q) \cup {EndOfStream} : b = out[t]
        BY <2>1
      <3>2. full[q] \o <<b>> = Append(full[q], b) /\ Range(Append(full[q], b)) = Range(full[q]) \cup {b}
        BY <2>2, AppendRange
      <3> QED BY <2>3, <3>1, <3>2
    <2> QED BY <2>1, <2>4
  <1>3. CASE PopInput(t)
    BY <1>3 DEF PopInput, HoldsOutput
  <1>4. CASE Generate(t) \/ Process(t)
    BY <1>1, <1>2, <1>4 DEF Generate, Process, Leave, GoTo, AtOutput
  <1>5. CASE Regenerate(t)
    BY <1>1, <1>2, <1>5 DEF Regenerate, Leave, GoTo, AtOutput, HoldsOutput
  <1>6. CASE Reduce(t) \/ Reget(t)
    BY <1>1, <1>6 DEF Reduce, Reget, GoTo, HoldsOutput
  <1>7. ~ (PopOut(t) \/ FailGenerator(t) \/ GetRound(t) \/ ProcessSink(t) \/ Fail(t) \/ Flush(t)
           \/ FirstRound(t))
    BY DEF PopOut, FailGenerator, GetRound, ProcessSink, Fail, Flush, FirstRound, GotInputs, HoldsOutput
  <1> QED BY <1>3, <1>4, <1>5, <1>6, <1>7 DEF Run

(* What goes in an output pop stays in the queue or is filled. *)
LEMMA ConservedPopOut ==
    ASSUME IInv, NEW u \in Task, PopOut(u), NEW p \in Task, NEW r \in Task,
           NEW q \in Range(Out[p]) \cap Range(In[r]), Conserved(p, r, q)
    PROVE  Conserved(p, r, q)'
  <1> SUFFICES ASSUME pc'[p] # "done", NEW b \in Own(q)'
               PROVE  \/ b \in Range(free'[q]) \cup Range(full'[q]) \cup held'[r]
                      \/ HoldsOutput(p)' /\ out'[p] = b
    BY DEF Conserved
  <1>1. PICK oq, lim, x :
           /\ oq = OutQueue(u) /\ lim = Room(u) /\ x = Head(Grown(oq, lim))
           /\ pc[u] \in {"popout", "repopout"} /\ ProducerPop(oq, lim)
           /\ out' = [out EXCEPT ![u] = x]
           /\ UNCHANGED <<full, held>>
    BY Zenon DEF PopOut
  <1>2. /\ DOMAIN pc = Task /\ DOMAIN out = Task /\ DOMAIN free = Queue /\ DOMAIN capacity = Queue
        /\ pc[u] \in PCs(Mode[u]) /\ AtOutput(u) /\ ~ HoldsOutput(u)
    BY <1>1, ModeFacts DEF IInv, TypeInv, TypeRest, TypeQueues, AtOutput, HoldsOutput
  <1>3. oq \in Queue /\ oq \in Range(Out[u]) /\ q \in Queue
    BY <1>1, <1>2, OutputFacts, WiringFacts
  <1>4. HoldsOutput(u)' /\ out'[u] = x
    <2>1. pc'[u] = Filling(u) /\ Mode[u] # "sink"
      BY <1>1, <1>2 DEF PopOut, Filling, PCs
    <2>2. Filling(u) \in {"regenerate", "generate", "reduce", "process"}
      BY DEF Filling
    <2> QED BY <1>1, <1>2, <2>1, <2>2 DEF HoldsOutput
  <1>5. pc[p] # "done" /\ (p # u => (HoldsOutput(p)' <=> HoldsOutput(p)) /\ out'[p] = out[p])
    <2>1. p # u => pc'[p] = pc[p]
      BY <1>2 DEF PopOut
    <2> QED BY <1>1, <1>2, <2>1 DEF HoldsOutput
  <1>6. CASE q = oq
    <2>1. p = u
      BY <1>3, <1>6, WiringFacts
    <2>2. PICK g : g = Grown(q, lim) /\ g # <<>> /\ x = Head(g) /\ free'[q] = Tail(g)
      BY <1>1, <1>2, <1>3, <1>6 DEF ProducerPop
    <2>3. PICK n \in 0..2, s \in Seq(Own(q)) : n = capacity[q] /\ s = free[q]
      BY <1>3 DEF IInv, TypeInv, TypeQueues, Limit
    <2>4. g = (IF n < lim THEN Append(s, <<q, n + 1>>) ELSE s) /\ capacity'[q] = (IF n < lim THEN n + 1 ELSE n)
      BY <1>1, <1>2, <1>3, <1>6, <2>2, <2>3 DEF Grown, ProducerPop
    <2>5. g \in Seq(Own(q) \cup {<<q, n + 1>>}) /\ Range(s) \subseteq Range(g)
          /\ (n < lim => <<q, n + 1>> \in Range(g))
      <3>1. s \in Seq(Own(q) \cup {<<q, n + 1>>})
        BY <2>3, SeqMono
      <3> QED BY <2>4, <3>1, AppendRange
    <2>6. Range(g) = {x} \cup Range(free'[q])
      BY <2>2, <2>5, TailRange
    <2>7. b \in Own(q) \/ b \in Range(g)
      <3>1. PICK k \in 1..capacity'[q] : b = <<q, k>>
        BY DEF Own
      <3>2. k \in 1..n \/ (n < lim /\ k = n + 1)
        BY <2>3, <2>4, <3>1
      <3> QED BY <2>3, <2>5, <3>1, <3>2 DEF Own
    <2>8. b \in Own(q) => b \in Range(g) \cup Range(full[q]) \cup held[r]
      BY <1>2, <1>5, <2>1, <2>3, <2>5 DEF Conserved
    <2> QED BY <1>1, <1>4, <2>1, <2>6, <2>7, <2>8
  <1>7. CASE q # oq
    <2>1. free'[q] = free[q] /\ capacity'[q] = capacity[q]
      BY <1>1, <1>2, <1>3, <1>7 DEF ProducerPop
    <2>2. b \in Own(q)
      BY <2>1 DEF Own
    <2> QED BY <1>1, <1>2, <1>4, <1>5, <2>1, <2>2 DEF Conserved
  <1> QED BY <1>6, <1>7

LEMMA ConservedPopInput ==
    ASSUME RInv, NEW u \in Task, PopInput(u), NEW p \in Task, NEW r \in Task,
           NEW q \in Range(Out[p]) \cap Range(In[r]), Conserved(p, r, q)
    PROVE  Conserved(p, r, q)'
  <1>1. IInv /\ OthersSame(u) /\ Run(u)
    BY RunElsewhere DEF RInv, DInv, SInv, Run
  <1>2. PICK j \in 1..NInputs(u) :
           /\ full[In[u][j]] # <<>> /\ full' = [full EXCEPT ![In[u][j]] = Tail(@)]
           /\ PopsEnd(u, j) \/ \E b : PopsItem(u, j, b)
           /\ UNCHANGED <<pc, free, capacity, out>>
    BY PopHolds
  <1>3. q \in Queue /\ full[q] \in Seq(Own(q) \cup {EndOfStream}) /\ DOMAIN full = Queue
    BY <1>1, WiringFacts DEF IInv, TypeInv, TypeQueues
  <1>4. held[r] \subseteq held'[r]
    BY <1>1, <1>2 DEF OthersSame, PopsEnd, PopsItem
  <1>5. Own(q)' = Own(q) /\ (HoldsOutput(p)' <=> HoldsOutput(p)) /\ EndOfStream \notin Own(q)
    BY <1>1, <1>2, <1>3, OwnFacts DEF Own, HoldsOutput, IInv
  <1>6. \A b \in Own(q) : b \in Range(full[q]) => b \in Range(full'[q]) \cup held'[r]
    <2>1. CASE q = In[u][j]
      <3>1. r = u
        <4>1. q \in Range(In[u])
          BY <2>1, WiringFacts
        <4> QED BY <4>1, WiringFacts
      <3>2. full'[q] = Tail(full[q]) /\ Range(full[q]) = {Head(full[q])} \cup Range(Tail(full[q]))
        BY <1>2, <1>3, <2>1, TailRange
      <3>3. Head(full[q]) \in Own(q) => Head(full[q]) \in held'[u]
        BY <1>2, <1>5, <2>1 DEF PopsEnd, PopsItem
      <3> QED BY <3>1, <3>2, <3>3
    <2>2. CASE q # In[u][j]
      BY <1>2, <1>3, <2>2
    <2> QED BY <2>1, <2>2
  <1> QED BY <1>2, <1>4, <1>5, <1>6 DEF Conserved

LEMMA ConservedRest ==
    ASSUME IInv, NEW u \in Task, Run(u), ~ PopInput(u), ~ PopOut(u), NEW p \in Task, NEW r \in Task,
           NEW q \in Range(Out[p]) \cap Range(In[r]), Conserved(p, r, q)
    PROVE  Conserved(p, r, q)'
  <1>1. /\ OthersSame(u) /\ Transfers(u) /\ UNCHANGED <<capacity, out, got>> /\ pc[u] # "done"
        /\ UNCHANGED <<free, held>> \/ ReleaseInputs(u)
    BY RunElsewhere, RunTransfers, RestFacts, RunActive
  <1>2. q \in Queue /\ Own(q)' = Own(q) /\ \A b \in Own(q) : b[1] = q /\ b # NullBuffer
    BY <1>1, WiringFacts, OwnFacts DEF Own, IInv
  <1>3. Range(full[q]) \subseteq Range(full'[q])
    BY <1>1, <1>2, InFlightStays
  <1>4. Range(free[q]) \subseteq Range(free'[q])
    BY <1>1, <1>2, ReleasePlaces
  <1>5. ASSUME NEW b \in Own(q), b \in held[r] PROVE b \in held'[r] \cup Range(free'[q])
    <2>1. CASE r # u \/ UNCHANGED held
      BY <1>1, <1>5, <2>1 DEF OthersSame
    <2>2. CASE r = u /\ ReleaseInputs(u) /\ b \notin held'[r]
      <3>1. b \in Range(inputs[r])
        BY <1>5, <2>2, ReleasePlaces
      <3>2. DOMAIN inputs[r] = 1..NInputs(r)
        BY DEF IInv, TypeInv, TypeInputs
      <3>3. PICK i \in 1..NInputs(r) : b = inputs[r][i]
        BY <3>1, <3>2 DEF Range
      <3>4. b \in Own(In[r][i]) /\ In[r][i] \in Queue /\ b \in Range(free'[In[r][i]])
        BY <1>2, <1>5, <2>2, <3>3, ReleasePlaces, WiringFacts DEF IInv, TaskInv, Owned
      <3>5. b[1] = In[r][i]
        BY <3>4, OwnFacts DEF IInv
      <3> QED BY <1>2, <3>4, <3>5
    <2> QED BY <1>1, <2>1, <2>2
  <1>6. ASSUME NEW b \in Own(q), HoldsOutput(p), out[p] = b, pc'[p] # "done"
        PROVE  b \in Range(full'[q]) \/ (HoldsOutput(p)' /\ out'[p] = b)
    <2>1. CASE p = u
      <3>1. ASSUME NEW o \in Queue, b \in Own(o), b \in Range(full'[o]) PROVE b \in Range(full'[q])
        BY <1>2, <3>1, OwnFacts DEF IInv
      <3> QED BY <1>6, <2>1, <3>1, FilledStays
    <2>2. CASE p # u
      BY <1>1, <1>6, <2>2 DEF OthersSame, HoldsOutput
    <2> QED BY <2>1, <2>2
  <1>7. pc'[p] # "done" => pc[p] # "done"
    BY <1>1 DEF OthersSame
  <1>8. ASSUME pc'[p] # "done", NEW b \in Own(q)
        PROVE  \/ b \in Range(free'[q]) \cup Range(full'[q]) \cup held'[r]
               \/ HoldsOutput(p)' /\ out'[p] = b
    <2>1. \/ b \in Range(free[q]) \cup Range(full[q]) \cup held[r]
          \/ HoldsOutput(p) /\ out[p] = b
      BY <1>7, <1>8 DEF Conserved
    <2> QED BY <1>3, <1>4, <1>5, <1>6, <1>8, <2>1
  <1> QED BY <1>2, <1>8 DEF Conserved

LEMMA InitHolds == Init => HInv
  <1> SUFFICES ASSUME Init PROVE HInv
    OBVIOUS
  <1>1. /\ AInv /\ capacity = [q \in Queue |-> 0] /\ held = [t \in Task |-> {}]
        /\ pc = [t \in Task |-> Entry(t)]
    BY InitAligned DEF Init, InitOf, InitQueues
  <1>2. ASSUME NEW t \in Task PROVE Draining(t) /\ OneBuffer(t)
    <2>1. pc[t] \in {"popout", "first", "get"}
      BY <1>1 DEF Entry
    <2>2. Mode[t] = "reductor" => capacity[Out[t][1]] = 0
      <3>1. ASSUME Mode[t] = "reductor" PROVE Out[t][1] \in Queue
        BY <3>1, FixedAssumption, WiringFacts
      <3> QED BY <1>1, <3>1
    <2> QED BY <2>1, <2>2 DEF Draining, OneBuffer
  <1>3. ASSUME NEW t \in Task, NEW i \in 1..NInputs(t) PROVE Kept(t, i) /\ Remembered(t, i)
    BY <1>1 DEF Kept, KeptBut, Remembered
  <1>4. ASSUME NEW p \in Task, NEW r \in Task, NEW q \in Range(Out[p]) \cap Range(In[r])
        PROVE  Conserved(p, r, q)
    <2>1. capacity[q] = 0 /\ 1..0 = {}
      BY <1>1, WiringFacts
    <2>2. Own(q) = {}
      BY <2>1 DEF Own
    <2> QED BY <2>2 DEF Conserved
  <1> QED BY <1>1, <1>2, <1>3, <1>4 DEF HInv

LEMMA NextHolds == HInv /\ [Next]_vars => HInv'
  <1> SUFFICES ASSUME HInv, [Next]_vars PROVE HInv'
    OBVIOUS
  <1>1. AInv' /\ RInv /\ IInv
    BY NextAligned DEF HInv, AInv, RInv, DInv, SInv
  <1>2. CASE \E u \in Task : Run(u)
    <2>1. PICK u \in Task : Run(u)
      BY <1>2
    <2>2. ASSUME NEW t \in Task
          PROVE  /\ Draining(t)' /\ OneBuffer(t)'
                 /\ \A i \in 1..NInputs(t) : Kept(t, i)' /\ Remembered(t, i)'
      <3>1. CASE t = u
        BY <2>1, <3>1, DrainingStep, OneBufferStep, KeptRest, KeptPop
      <3>2. CASE t # u
        BY <2>1, <3>2, HoldingElsewhere
      <3> QED BY <3>1, <3>2
    <2>3. ASSUME NEW p \in Task, NEW r \in Task, NEW q \in Range(Out[p]) \cap Range(In[r])
          PROVE  Conserved(p, r, q)'
      <3>1. Conserved(p, r, q)
        BY DEF HInv
      <3> QED BY <1>1, <2>1, <3>1, ConservedPopInput, ConservedPopOut, ConservedRest
    <2> QED BY <1>1, <2>2, <2>3 DEF HInv
  <1>3. CASE Abort \/ UNCHANGED vars
    <2>1. UNCHANGED <<free, full, capacity, pc, idx, finished, inputs, out, failed, held>>
      BY <1>3 DEF Abort, vars, queueVars, threadVars
    <2>2. \A t \in Task : Draining(t)' /\ OneBuffer(t)'
      BY <2>1 DEF HInv, Draining, OneBuffer
    <2>3. ASSUME NEW t \in Task, NEW i \in 1..NInputs(t) PROVE Kept(t, i)' /\ Remembered(t, i)'
      <3>1. Fetched(t)' = Fetched(t)
        BY <2>1 DEF Fetched
      <3> QED BY <2>1, <3>1 DEF HInv, Kept, KeptBut, Remembered
    <2>4. ASSUME NEW p \in Task, NEW r \in Task, NEW q \in Range(Out[p]) \cap Range(In[r])
          PROVE  Conserved(p, r, q)'
      <3>1. Own(q)' = Own(q) /\ HoldsOutput(p)' = HoldsOutput(p)
        BY <2>1 DEF Own, HoldsOutput
      <3>2. Conserved(p, r, q)
        BY DEF HInv
      <3> QED BY <2>1, <3>1, <3>2 DEF Conserved
    <2> QED BY <1>1, <2>2, <2>3, <2>4 DEF HInv
  <1> QED BY <1>2, <1>3 DEF Next, Joined

----------------------------------------------------------------------------
(* The first items: every connection of F gets one before its end marker *)

Excused == aborted \/ GeneratorFailed \/ \E t \in Task : Quit(t)

(* A task that has left has sent its end markers. *)
EndSent(t) == pc[t] = "done" => \A q \in Range(Out[t]) : EndOfStream \in Range(sent[q])

(* The round in which t reads the first item of each input. *)
FirstTime(t) == pc[t] = "first" \/ (pc[t] = "get" /\ log[t] = <<>>)

FirstItems(t) ==
    FirstTime(t) =>
        \A i \in 1..NInputs(t) :
            /\ Len(got[In[t][i]]) <= 1
            /\ i \notin Fetched(t) => Len(got[In[t][i]]) = 0

HasItems(q) == \E n \in Nat : n \in Range(sent[q])

(* t has not come to its k-th successor yet. *)
YetToSend(t, k) ==
    \/ Mode[t] = "generator" /\ pc[t] # "done" /\ k >= idx[t] /\ idx[t] = count[t] + 1
    \/ /\ Mode[t] = "processor"
       /\ (pc[t] = "get" /\ log[t] = <<>>) \/ (pc[t] \in {"popout", "process"} /\ k >= idx[t])
    \/ Mode[t] = "reductor" /\ pc[t] # "done" /\ count[t] = 0

Sends(F, t) ==
    \A k \in 1..NOutputs(t) : Out[t][k] \in F => HasItems(Out[t][k]) \/ YetToSend(t, k)

FInv(F) == Excused \/ \A t \in Task : EndSent(t) /\ FirstItems(t) /\ Sends(F, t)

LEMMA ExcusedStays ==
    ASSUME HInv, [Next]_vars, Excused
    PROVE  Excused'
  <1>1. IInv
    BY DEF HInv, AInv, RInv, DInv, SInv
  <1>2. aborted => aborted'
    BY RunKeepsAbort DEF Next, Joined, Abort, vars
  <1>3. GeneratorFailed => GeneratorFailed'
    <2>1. failed \subseteq failed'
      BY DEF Next, Joined, Abort, vars, Run, PopInput, PopOut, Generate, FailGenerator, GetRound, ProcessSink, Process, Fail,
             Flush, FirstRound, Reduce, Reget, Regenerate
    <2> QED BY <2>1 DEF GeneratorFailed
  <1>4. ASSUME NEW t \in Task, Quit(t) PROVE Quit(t)'
    <2>1. pc'[t] = pc[t] /\ finished'[t] = finished[t]
      <3>1. CASE \E u \in Task : Run(u)
        <4>1. PICK u \in Task : Run(u)
          BY <3>1
        <4>2. u # t
          BY <1>4, <4>1, RunActive DEF Quit
        <4> QED BY <1>1, <4>1, <4>2, RunElsewhere DEF OthersSame
      <3>2. CASE Abort \/ UNCHANGED vars
        BY <3>2 DEF Abort, vars, threadVars
      <3> QED BY <3>1, <3>2 DEF Next, Joined
    <2> QED BY <1>4, <2>1 DEF Quit, AllFinished
  <1> QED BY <1>2, <1>3, <1>4 DEF Excused

(* The first round of a task that reads a connection of F finds an item. *)
LEMMA FirstRoundHasInput ==
    ASSUME Wired, NEW F, AInv, \A p \in Task : EndSent(p) /\ FirstItems(p) /\ Sends(F, p),
           NEW t \in Task, Range(In[t]) \cap F # {}, FirstTime(t)
    PROVE  ~ AllFinished(t)
  <1> SUFFICES ASSUME AllFinished(t) PROVE FALSE
    OBVIOUS
  <1>1. PICK i \in 1..NInputs(t) : In[t][i] \in F
    BY WiringFacts
  <1>2. PICK q \in Queue : q = In[t][i]
    BY WiringFacts
  <1>3. SInv /\ IInv /\ EndLast(q) /\ Carries(q) /\ TaskInv(t)
    BY DEF AInv, RInv, DInv, SInv, IInv
  <1>4. Closed(q) /\ full[q] = <<>>
    BY <1>2, <1>3 DEF AllFinished, TaskInv, Ends, EndLast
  <1>5. Len(got[q]) <= 1
    BY <1>2 DEF FirstItems
  <1>6. got[q] \in Seq(Tags) /\ sent[q] \in Seq(Tags) /\ Len(got[q]) \in Nat /\ Len(sent[q]) \in Nat
    BY <1>3, StreamTypes DEF Tags
  <1>7. Len(got[q]) = 1 /\ got[q][1] = EndOfStream
    <2>1. DOMAIN got[q] = 1..Len(got[q])
      BY <1>6
    <2>2. PICK n \in Nat : n = Len(got[q])
      BY <1>6
    <2>3. n <= 1
      BY <1>5, <2>2
    <2>4. PICK k \in 1..n : got[q][k] = EndOfStream
      BY <1>4, <2>1, <2>2 DEF Closed, Range
    <2>5. n = 1 /\ k = 1
      BY <2>3, <2>4
    <2> QED BY <2>2, <2>4, <2>5
  <1>8. Len(sent[q]) = 1 /\ sent[q][1] = EndOfStream
    <2>1. Len(full[q]) = 0
      BY <1>4
    <2> QED BY <1>3, <1>7, <2>1 DEF Carries
  <1>9. PICK p \in Task : q \in Range(Out[p])
    BY DEF Wired
  <1>10. PICK k \in 1..NOutputs(p) : q = Out[p][k]
    BY <1>9, FixedAssumption DEF Range, NOutputs
  <1>11. pc[p] = "done"
    BY <1>3, <1>4, <1>9 DEF IInv, TaskInv, Ends
  <1>12. HasItems(q)
    BY <1>1, <1>2, <1>10, <1>11 DEF Sends, YetToSend
  <1>13. Range(sent[q]) = {EndOfStream}
    <2>1. DOMAIN sent[q] = 1..1
      BY <1>6, <1>8
    <2> QED BY <1>8, <2>1 DEF Range
  <1> QED BY <1>12, <1>13, FixedAssumption DEF HasItems

(* What was sent stays sent. *)
LEMMA SentGrows ==
    ASSUME IInv, NEW u \in Task, Run(u), NEW q \in Queue
    PROVE  Range(sent[q]) \subseteq Range(sent'[q])
  <1>1. Transfers(u) /\ sent[q] \in Seq(Tags)
    BY RunTransfers, StreamTypes DEF Tags
  <1>2. ASSUME NEW v \in Tags, sent'[q] = Append(sent[q], v)
        PROVE  Range(sent[q]) \subseteq Range(sent'[q])
    BY <1>1, <1>2, AppendRange
  <1> QED BY <1>1, <1>2 DEF Transfers, Idle, Pushed, Ended, Popped, Tags

LEMMA FirstElsewhere ==
    ASSUME IInv, DOMAIN log = Task, NEW F, NEW u \in Task, Run(u), NEW t \in Task, t # u,
           EndSent(t) /\ FirstItems(t) /\ Sends(F, t)
    PROVE  EndSent(t)' /\ FirstItems(t)' /\ Sends(F, t)'
  <1>1. /\ pc'[t] = pc[t] /\ idx'[t] = idx[t] /\ log'[t] = log[t] /\ count'[t] = count[t]
    <2>1. DOMAIN count = Task
      BY DEF IInv, TypeInv, TypeRest
    <2>2. count'[t] = count[t]
      BY <2>1 DEF Run, PopInput, PopOut, Generate, FailGenerator, GetRound, ProcessSink, Process,
             Fail, Flush, FirstRound, Reduce, Reget, Regenerate, NoMore
    <2> QED BY <2>2, RunElsewhere, RunAlone DEF OthersSame
  <1>2. \A q \in Queue : Range(sent[q]) \subseteq Range(sent'[q])
    BY SentGrows
  <1>3. EndSent(t)'
    BY <1>1, <1>2, WiringFacts DEF EndSent
  <1>4. FirstItems(t)'
    <2>1. \A i \in 1..NInputs(t) : got'[In[t][i]] = got[In[t][i]]
      BY RunElsewhere, WiringFacts
    <2>2. Fetched(t)' = Fetched(t)
      BY <1>1 DEF Fetched
    <2> QED BY <1>1, <2>1, <2>2 DEF FirstItems, FirstTime
  <1>5. Sends(F, t)'
    BY <1>1, <1>2, WiringFacts DEF Sends, YetToSend, HasItems
  <1> QED BY <1>3, <1>4, <1>5

(* How a task leaves. *)
LEMMA LastSteps ==
    ASSUME IInv, NEW t \in Task, Run(t), pc'[t] = "done"
    PROVE  Leave(t) \/ Mode[t] = "sink" \/ (FirstRound(t) /\ AllFinished(t))
  <1>1. DOMAIN pc = Task /\ pc[t] # "done"
    BY RunActive DEF IInv, TypeInv, TypeRest
  <1>2. CASE PopInput(t) \/ PopOut(t) \/ Fail(t) \/ Reduce(t) \/ Reget(t)
    BY <1>1, <1>2 DEF PopInput, PopOut, Fail, Reduce, Reget, GoTo
  <1>3. CASE Generate(t) \/ FailGenerator(t) \/ GetRound(t) \/ Flush(t) \/ Regenerate(t)
    BY <1>1, <1>3 DEF Generate, FailGenerator, GetRound, Flush, Regenerate, NextOutput, GoTo
  <1>4. CASE Process(t)
    BY <1>1, <1>4 DEF Process, AfterOutput, NextOutput, GoTo
  <1>5. CASE FirstRound(t) \/ ProcessSink(t)
    BY <1>1, <1>5 DEF FirstRound, ProcessSink, GoTo
  <1> QED BY <1>2, <1>3, <1>4, <1>5 DEF Run

LEMMA EndSentStep ==
    ASSUME IInv, NEW t \in Task, Run(t), FirstRound(t) => ~ AllFinished(t)
    PROVE  EndSent(t)'
  <1> SUFFICES ASSUME pc'[t] = "done", NEW q \in Range(Out[t]) PROVE EndOfStream \in Range(sent'[q])
    BY DEF EndSent
  <1>1. Mode[t] # "sink" /\ q \in Queue
    <2>1. Mode[t] = "sink" => Out[t] = <<>>
      BY FixedAssumption, EmptySeq DEF NOutputs
    <2> QED BY <2>1, WiringFacts, EmptyRange
  <1>2. Leave(t)
    BY <1>1, LastSteps
  <1>3. sent'[q] = Append(sent[q], EndOfStream) /\ sent[q] \in Seq(Tags)
    BY <1>1, <1>2, StreamTypes DEF Leave, Tags
  <1>4. EndOfStream \in Tags
    BY DEF Tags
  <1> QED BY <1>3, <1>4, AppendRange

LEMMA FirstItemsStep ==
    ASSUME RInv, DOMAIN log = Task, NEW t \in Task, log[t] \in Calls(t), Run(t), FirstItems(t)
    PROVE  FirstItems(t)'
  <1> SUFFICES ASSUME FirstTime(t)', NEW i \in 1..NInputs(t)
               PROVE  /\ Len(got'[In[t][i]]) <= 1
                      /\ i \notin Fetched(t)' => Len(got'[In[t][i]]) = 0
    BY DEF FirstItems
  <1>1. IInv /\ DOMAIN pc = Task /\ pc[t] # "done"
    BY RunActive DEF RInv, DInv, SInv, IInv, TypeInv, TypeRest
  <1>2. PopInput(t)
    <2>1. Consume(t) => log'[t] # <<>>
      <3>1. PICK c : c = [k \in 1..NInputs(t) |-> Value(inputs[t][k])]
        OBVIOUS
      <3>2. c \in [1..NInputs(t) -> Nat]
        BY <1>1, <3>1, ValueType
      <3>3. Append(log[t], c) # <<>>
        BY <3>2, AppendProperties DEF Calls
      <3>4. Consume(t) => log'[t] = Append(log[t], c)
        BY <3>1 DEF Consume
      <3> QED BY <3>3, <3>4
    <2>2. pc'[t] = "first" \/ (pc'[t] = "get" /\ log'[t] = <<>>)
      BY DEF FirstTime
    <2>3. CASE PopOut(t) \/ Generate(t) \/ FailGenerator(t) \/ GetRound(t)
      BY <1>1, <2>2, <2>3 DEF PopOut, Generate, FailGenerator, GetRound, NextOutput, Leave, GoTo
    <2>4. CASE Fail(t) \/ Flush(t) \/ FirstRound(t) \/ Reduce(t) \/ Reget(t) \/ Regenerate(t)
      BY <1>1, <2>2, <2>4 DEF Fail, Flush, FirstRound, Reduce, Reget, Regenerate, Leave, GoTo
    <2>5. CASE ProcessSink(t) \/ Process(t)
      <3>1. Consume(t)
        BY <2>5 DEF ProcessSink, Process
      <3>2. pc'[t] # "first"
        BY <1>1, <2>5 DEF ProcessSink, Process, AfterOutput, NextOutput, Leave, GoTo
      <3> QED BY <2>1, <2>2, <3>1, <3>2
    <2> QED BY <2>3, <2>4, <2>5 DEF Run
  <1>3. PICK j \in 1..NInputs(t) :
              /\ ~ finished[t][j] /\ j \notin Fetched(t) /\ j \in Fetched(t)'
              /\ full[In[t][j]] # <<>> /\ full' = [full EXCEPT ![In[t][j]] = Tail(@)]
              /\ got'[In[t][j]] = Append(got[In[t][j]], Content(Head(full[In[t][j]])))
              /\ \A k \in 1..NInputs(t) \ {j} :
                    /\ got'[In[t][k]] = got[In[t][k]]
                    /\ finished'[t][k] = finished[t][k] /\ inputs'[t][k] = inputs[t][k]
                    /\ ~ finished[t][k] => (k \in Fetched(t)' <=> k \in Fetched(t))
              /\ PopsEnd(t, j) \/ \E b : PopsItem(t, j, b)
              /\ pc[t] \in Getting /\ UNCHANGED <<pc, free, capacity, out, log, failed, aborted>>
              /\ Fetched(t) \subseteq Fetched(t)'
    BY <1>2, PopHolds
  <1>4. FirstTime(t)
    BY <1>3 DEF FirstTime
  <1>5. \A k \in 1..NInputs(t) : got[In[t][k]] \in Seq(Tags) /\ Len(got[In[t][k]]) \in Nat
    BY <1>1, WiringFacts, StreamTypes DEF Tags
  <1>6. CASE i = j
    <2>1. Len(got[In[t][i]]) = 0
      BY <1>3, <1>4, <1>6 DEF FirstItems
    <2>2. PICK v \in Tags : got'[In[t][i]] = Append(got[In[t][i]], v)
      BY <1>1, <1>3, <1>6, ContentFacts DEF Tags
    <2>3. Len(got'[In[t][i]]) = 1
      BY <1>5, <2>1, <2>2, AppendProperties
    <2> QED BY <1>3, <1>6, <2>3
  <1>7. CASE i # j
    BY <1>3, <1>4, <1>7 DEF FirstItems
  <1> QED BY <1>6, <1>7

LEMMA PushSends ==
    ASSUME IInv, NEW t \in Task, AtOutput(t), NEW v \in Nat, PushItem(t, v),
           NEW q, q = OutQueue(t)
    PROVE  HasItems(q)'
  <1>1. q \in Queue
    BY OutputFacts
  <1>2. sent[q] \in Seq(Tags) /\ v \in Tags /\ DOMAIN sent = Queue
    BY <1>1, StreamTypes DEF Tags, IInv, TypeInv, TypeRest
  <1>3. sent'[q] = Append(sent[q], v)
    BY <1>1, <1>2 DEF PushItem
  <1>4. v \in Range(sent'[q])
    BY <1>2, <1>3, AppendRange
  <1> QED BY <1>4 DEF HasItems

(* The three kinds of task that send: what is sent next goes to the next   *)
(* successor, and none is left out.                                        *)
LEMMA GeneratorSends ==
    ASSUME HInv, NEW t \in Task, Run(t), ~ Excused', Mode[t] = "generator",
           MinItems[t] >= NOutputs(t), NEW k \in 1..NOutputs(t), YetToSend(t, k)
    PROVE  HasItems(Out[t][k])' \/ YetToSend(t, k)'
  <1>1. /\ IInv /\ DOMAIN pc = Task /\ DOMAIN idx = Task /\ DOMAIN count = Task
        /\ pc[t] \in {"popout", "generate"} /\ AtOutput(t)
    <2>1. IInv /\ pc[t] # "done" /\ pc[t] \in PCs(Mode[t])
      BY RunActive, ModeFacts DEF HInv, AInv, RInv, DInv, SInv
    <2> QED BY <2>1 DEF PCs, AtOutput, IInv, TypeInv, TypeRest
  <1>2. PICK n \in Nat, m \in Nat, j \in Nat :
           n = count[t] /\ m = NOutputs(t) /\ j = idx[t] /\ j = n + 1 /\ k >= j /\ k <= m
           /\ MinItems[t] >= m /\ MinItems[t] \in Nat
    BY <1>1, WiringFacts, FixedAssumption DEF YetToSend, IInv, TypeInv, TypeRest
  <1>3. ~ aborted /\ ~ aborted'
    BY RunKeepsAbort DEF Excused
  <1>4. CASE PopOut(t)
    BY <1>1, <1>4 DEF PopOut, YetToSend
  <1>5. CASE FailGenerator(t)
    BY <1>5 DEF FailGenerator, Excused, GeneratorFailed
  <1>6. CASE Generate(t)
    <2>1. ~ NoMore(t)
      BY <1>2, <1>3 DEF NoMore
    <2>2. PushItem(t, n + 1) /\ NextOutput(t) /\ count' = [count EXCEPT ![t] = @ + 1]
      BY <1>2, <1>6, <2>1 DEF Generate
    <2>3. CASE k = j
      <3>1. Out[t][k] = OutQueue(t)
        BY <1>2, <2>3 DEF OutQueue
      <3> QED BY <1>1, <1>2, <2>2, <3>1, PushSends
    <2>4. CASE k # j
      <3>1. ~ LastOutput(t)
        BY <1>2, <2>4 DEF LastOutput
      <3>2. pc'[t] = "popout" /\ idx'[t] = j + 1 /\ count'[t] = n + 1
        BY <1>1, <1>2, <2>2, <3>1 DEF NextOutput
      <3> QED BY <1>2, <2>4, <3>2 DEF YetToSend
    <2> QED BY <2>3, <2>4
  <1>7. ~ PopInput(t)
    BY <1>1 DEF PopInput, Getting
  <1>8. ~ (GetRound(t) \/ ProcessSink(t) \/ Process(t) \/ Fail(t) \/ Flush(t) \/ FirstRound(t)
           \/ Reduce(t) \/ Reget(t) \/ Regenerate(t))
    BY <1>1 DEF GetRound, ProcessSink, Process, Fail, Flush, FirstRound, Reduce, Reget, Regenerate,
        GotInputs
  <1> QED BY <1>4, <1>5, <1>6, <1>7, <1>8 DEF Run

LEMMA ProcessorSends ==
    ASSUME HInv, NEW t \in Task, Run(t), ~ Excused', Mode[t] = "processor", t \notin MayFail,
           FirstTime(t) => ~ AllFinished(t), NEW k \in 1..NOutputs(t), YetToSend(t, k)
    PROVE  HasItems(Out[t][k])' \/ YetToSend(t, k)'
  <1>1. /\ IInv /\ DOMAIN pc = Task /\ DOMAIN idx = Task
        /\ Unfinished(t)
    BY DEF HInv, AInv, RInv, DInv, SInv, IInv, TypeInv, TypeRest
  <1>2. \/ pc[t] = "get" /\ log[t] = <<>>
        \/ pc[t] \in {"popout", "process"} /\ k >= idx[t]
    BY DEF YetToSend
  <1>3. ~ aborted /\ ~ aborted'
    BY RunKeepsAbort DEF Excused
  <1>4. CASE PopInput(t)
    <2>1. pc' = pc /\ log' = log /\ pc[t] \in Getting
      BY <1>4 DEF PopInput
    <2>2. pc[t] = "get" /\ log[t] = <<>>
      BY <1>2, <2>1 DEF Getting
    <2> QED BY <2>1, <2>2 DEF YetToSend
  <1>5. CASE PopOut(t)
    <2>1. pc'[t] = "process" /\ idx' = idx /\ pc[t] # "get"
      <3>1. pc[t] = "popout"
        BY <1>2, <1>5 DEF PopOut
      <3> QED BY <1>1, <1>5, <3>1 DEF PopOut
    <2> QED BY <1>2, <2>1 DEF YetToSend
  <1>6. CASE GetRound(t)
    <2>1. ~ AllFinished(t)
      BY <1>2, <1>6 DEF GetRound, GotInputs, FirstTime
    <2>2. pc'[t] = "popout" /\ idx'[t] = 1
      BY <1>1, <1>3, <1>6, <2>1 DEF GetRound, GoTo
    <2> QED BY <2>2 DEF YetToSend
  <1>7. CASE Process(t)
    <2>1. pc[t] = "process" /\ k >= idx[t] /\ AtOutput(t) /\ ~ AllFinished(t)
      BY <1>1, <1>2, <1>7 DEF Process, AtOutput, Unfinished
    <2>2. PICK m \in Nat, j \in Nat : m = NOutputs(t) /\ j = idx[t] /\ k >= j /\ k <= m
      BY <1>1, <2>1, WiringFacts DEF IInv, TypeInv, TypeRest
    <2>3. PICK v \in Nat : v = Value(inputs[t][1])
      BY <1>1, ValueType
    <2>4. ~ Leave(t)
      <3>1. SUFFICES ASSUME Leave(t) PROVE Quit(t)'
        BY DEF Excused
      <3>2. pc'[t] = "done" /\ finished' = finished
        BY <1>1, <1>7, <3>1 DEF Process, Leave, GoTo
      <3> QED BY <2>1, <3>2 DEF Quit, AllFinished
    <2>5. PushItem(t, v) /\ AfterOutput(t)
      BY <1>7, <2>3, <2>4 DEF Process
    <2>6. CASE k = j
      <3>1. Out[t][k] = OutQueue(t)
        BY <2>2, <2>6 DEF OutQueue
      <3> QED BY <1>1, <2>1, <2>5, <3>1, PushSends
    <2>7. CASE k # j
      <3>1. ~ LastOutput(t)
        BY <2>2, <2>7 DEF LastOutput
      <3>2. pc'[t] = "popout" /\ idx'[t] = j + 1
        BY <1>1, <2>2, <2>5, <3>1 DEF AfterOutput, NextOutput
      <3> QED BY <2>2, <2>7, <3>2 DEF YetToSend
    <2> QED BY <2>6, <2>7
  <1>8. ~ (Generate(t) \/ FailGenerator(t) \/ ProcessSink(t) \/ Fail(t) \/ Flush(t) \/ FirstRound(t)
           \/ Reduce(t) \/ Reget(t) \/ Regenerate(t))
    BY <1>2 DEF Generate, FailGenerator, ProcessSink, Fail, Flush, FirstRound, Reduce, Reget,
        Regenerate, GotInputs
  <1> QED BY <1>4, <1>5, <1>6, <1>7, <1>8 DEF Run

LEMMA ReductorSends ==
    ASSUME HInv, NEW t \in Task, Run(t), ~ Excused', Mode[t] = "reductor", t \notin MayFail,
           MinItems[t] > 0, FirstTime(t) => ~ AllFinished(t),
           NEW k \in 1..NOutputs(t), YetToSend(t, k)
    PROVE  HasItems(Out[t][k])' \/ YetToSend(t, k)'
  <1>1. /\ IInv /\ DOMAIN pc = Task /\ DOMAIN count = Task
        /\ pc[t] \in {"first", "popout", "reduce", "reget", "regenerate", "repopout"}
    <2>1. IInv /\ pc[t] # "done" /\ pc[t] \in PCs(Mode[t]) /\ Draining(t)
      BY RunActive, ModeFacts DEF HInv, AInv, RInv, DInv, SInv
    <2> QED BY <2>1 DEF PCs, Draining, IInv, TypeInv, TypeRest
  <1>2. count[t] = 0 /\ MinItems[t] \in Nat /\ k = 1
    BY FixedAssumption DEF YetToSend
  <1>3. ~ aborted /\ ~ aborted'
    BY RunKeepsAbort DEF Excused
  <1>4. CASE PopInput(t) \/ PopOut(t)
    BY <1>1, <1>2, <1>4 DEF PopInput, PopOut, YetToSend
  <1>5. CASE FirstRound(t)
    <2>1. ~ AllFinished(t)
      BY <1>5 DEF FirstRound, GotInputs, FirstTime
    <2> QED BY <1>1, <1>2, <1>5, <2>1 DEF FirstRound, GoTo, YetToSend
  <1>6. CASE Reduce(t) \/ Reget(t)
    BY <1>1, <1>2, <1>6 DEF Reduce, Reget, GoTo, YetToSend
  <1>7. CASE Regenerate(t)
    <2>1. ~ NoMore(t)
      BY <1>2, <1>3 DEF NoMore
    <2>2. PushItem(t, 1) /\ AtOutput(t)
      BY <1>2, <1>7, <2>1 DEF Regenerate, AtOutput
    <2>3. Out[t][k] = OutQueue(t)
      BY <1>1, <1>2, <2>2, OutputFacts DEF OutPos
    <2> QED BY <1>1, <2>2, <2>3, PushSends
  <1>8. ~ (Generate(t) \/ FailGenerator(t) \/ GetRound(t) \/ ProcessSink(t) \/ Process(t) \/ Fail(t)
           \/ Flush(t))
    BY <1>1 DEF Generate, FailGenerator, GetRound, ProcessSink, Process, Fail, Flush, GotInputs
  <1> QED BY <1>4, <1>5, <1>6, <1>7, <1>8 DEF Run

LEMMA SendsStep ==
    ASSUME HInv, NEW F, Wired, Supplied(F), NEW t \in Task, Run(t), ~ Excused',
           \A p \in Task : EndSent(p) /\ FirstItems(p) /\ Sends(F, p)
    PROVE  Sends(F, t)'
  <1> SUFFICES ASSUME NEW k \in 1..NOutputs(t), Out[t][k] \in F
               PROVE  HasItems(Out[t][k])' \/ YetToSend(t, k)'
    BY DEF Sends
  <1>1. /\ AInv /\ IInv
        /\ Mode[t] \in {"generator", "processor", "sink", "reductor"}
        /\ Mode[t] # "sink" /\ Out[t][k] \in Queue /\ Range(Out[t]) \cap F # {}
    <2>1. AInv /\ IInv
      BY DEF HInv, AInv, RInv, DInv, SInv
    <2>2. Mode[t] # "sink"
      BY FixedAssumption
    <2> QED BY <2>1, <2>2, ModeFacts, WiringFacts
  <1>2. CASE HasItems(Out[t][k])
    BY <1>1, <1>2, SentGrows DEF HasItems
  <1>3. CASE YetToSend(t, k)
    <2>1. Range(In[t]) \cap F # {} /\ FirstTime(t) => ~ AllFinished(t)
      BY <1>1, FirstRoundHasInput
    <2>2. CASE Mode[t] = "generator"
      BY <1>1, <1>3, <2>2, GeneratorSends DEF Supplied
    <2>3. CASE Mode[t] = "processor"
      <3>1. t \notin MayFail /\ Range(In[t]) \cap F # {}
        BY <1>1, <2>3 DEF Supplied
      <3> QED BY <1>3, <2>1, <2>3, <3>1, ProcessorSends
    <2>4. CASE Mode[t] = "reductor"
      <3>1. MinItems[t] > 0 /\ t \notin MayFail /\ Range(In[t]) \cap F # {}
        BY <1>1, <2>4 DEF Supplied
      <3> QED BY <1>3, <2>1, <2>4, <3>1, ReductorSends
    <2> QED BY <1>1, <2>2, <2>3, <2>4
  <1>4. HasItems(Out[t][k]) \/ YetToSend(t, k)
    BY DEF Sends
  <1> QED BY <1>2, <1>3, <1>4

LEMMA InitFirst ==
    ASSUME NEW F
    PROVE  Init => FInv(F)
  <1> SUFFICES ASSUME Init, NEW t \in Task PROVE EndSent(t) /\ FirstItems(t) /\ Sends(F, t)
    BY DEF FInv
  <1>1. /\ pc[t] = Entry(t) /\ idx[t] = 1 /\ count[t] = 0 /\ log[t] = <<>>
        /\ got = [q \in Queue |-> <<>>] /\ Len(<<>>) = 0
    BY DEF Init, InitOf
  <1>2. pc[t] \in {"popout", "first", "get"}
    BY <1>1 DEF Entry
  <1>3. EndSent(t)
    BY <1>2 DEF EndSent
  <1>4. FirstItems(t)
    <2>1. \A i \in 1..NInputs(t) : Len(got[In[t][i]]) = 0
      BY <1>1, WiringFacts
    <2> QED BY <2>1 DEF FirstItems
  <1>5. Sends(F, t)
    <2> SUFFICES ASSUME NEW k \in 1..NOutputs(t) PROVE YetToSend(t, k)
      BY DEF Sends
    <2>1. Mode[t] # "sink" /\ Mode[t] \in {"generator", "processor", "sink", "reductor"}
      BY FixedAssumption
    <2> QED BY <1>1, <2>1 DEF Entry, YetToSend
  <1> QED BY <1>3, <1>4, <1>5

LEMMA NextFirst ==
    ASSUME NEW F, Wired, Supplied(F)
    PROVE  HInv /\ FInv(F) /\ [Next]_vars => FInv(F)'
  <1> SUFFICES ASSUME HInv, FInv(F), [Next]_vars, ~ Excused'
               PROVE  \A t \in Task : EndSent(t)' /\ FirstItems(t)' /\ Sends(F, t)'
    BY DEF FInv
  <1>1. \A t \in Task : EndSent(t) /\ FirstItems(t) /\ Sends(F, t)
    BY ExcusedStays DEF FInv
  <1>2. AInv /\ RInv /\ IInv /\ DOMAIN log = Task /\ \A t \in Task : log[t] \in Calls(t)
    BY DEF HInv, AInv, RInv, DInv, SInv
  <1>3. CASE \E u \in Task : Run(u)
    <2>1. PICK u \in Task : Run(u)
      BY <1>3
    <2>2. ASSUME NEW t \in Task PROVE EndSent(t)' /\ FirstItems(t)' /\ Sends(F, t)'
      <3>1. CASE t = u
        <4>1. FirstRound(t) => ~ AllFinished(t)
          <5> SUFFICES ASSUME FirstRound(t) PROVE ~ AllFinished(t)
            OBVIOUS
          <5>1. pc[t] = "first"
            BY DEF FirstRound, GotInputs
          <5>2. Mode[t] = "reductor"
            BY <1>2, <5>1, ModeFacts DEF PCs
          <5> QED BY <1>1, <1>2, <5>1, <5>2, FirstRoundHasInput DEF Supplied, FirstTime
        <4>2. EndSent(t)'
          BY <1>2, <2>1, <3>1, <4>1, EndSentStep
        <4>3. FirstItems(t)'
          BY <1>1, <1>2, <2>1, <3>1, FirstItemsStep
        <4>4. Sends(F, t)'
          BY <1>1, <2>1, <3>1, SendsStep
        <4> QED BY <4>2, <4>3, <4>4
      <3>2. CASE t # u
        BY <1>1, <1>2, <2>1, <3>2, FirstElsewhere
      <3> QED BY <3>1, <3>2
    <2> QED BY <2>2
  <1>4. CASE Abort
    BY <1>4 DEF Abort, Excused
  <1>5. CASE UNCHANGED vars
    <2>1. UNCHANGED <<pc, idx, count, log, got, sent>>
      BY <1>5 DEF vars, threadVars, streams
    <2>2. ASSUME NEW t \in Task PROVE EndSent(t)' /\ FirstItems(t)' /\ Sends(F, t)'
      <3>1. Fetched(t)' = Fetched(t)
        BY <2>1 DEF Fetched
      <3>2. EndSent(t)' /\ FirstItems(t)'
        BY <1>1, <2>1, <3>1 DEF EndSent, FirstItems, FirstTime
      <3>3. Sends(F, t)'
        BY <1>1, <2>1 DEF Sends, HasItems, YetToSend
      <3> QED BY <3>2, <3>3
    <2> QED BY <2>2
  <1> QED BY <1>3, <1>4, <1>5 DEF Next, Joined

----------------------------------------------------------------------------
(* The tasks never all wait for each other *)

(* t waits for an item of q, or for a buffer of q to fill. *)
WaitsToRead(t, q) ==
    \E i \in 1..NInputs(t) :
        /\ q = In[t][i] /\ pc[t] \in Getting /\ ~ finished[t][i] /\ i \notin Fetched(t)
        /\ full[q] = <<>>

WaitsToFill(t, q) ==
    /\ AtOutput(t) /\ ~ HoldsOutput(t) /\ q = OutQueue(t)
    /\ free[q] = <<>> /\ capacity[q] >= Room(t)

LEMMA WaitsForQueue ==
    ASSUME IInv, NEW t \in Task, Waits(t)
    PROVE  \E q \in Queue : WaitsToRead(t, q) \/ WaitsToFill(t, q)
  <1>1. CASE /\ pc[t] \in Getting /\ Pending(t) # {}
             /\ full[In[t][Min(Pending(t))]] = <<>>
    <2>1. PICK a \in Nat \ {0}, n \in Nat : a = idx[t] /\ n = NInputs(t)
      BY WiringFacts DEF IInv, TypeInv, TypeRest
    <2>2. Pending(t) \subseteq a..n /\ \A i \in Pending(t) : ~ finished[t][i]
      BY <2>1 DEF Pending
    <2>3. PICK i \in a..n : i = Min(Pending(t)) /\ ~ finished[t][i]
      <3>1. Pending(t) \subseteq Nat
        BY <2>2
      <3> QED BY <1>1, <2>2, <3>1, MinProperties
    <2>4. i \in 1..NInputs(t) /\ i \notin Fetched(t)
      BY <1>1, <2>1, <2>3 DEF Fetched
    <2>5. WaitsToRead(t, In[t][i])
      BY <1>1, <2>3, <2>4 DEF WaitsToRead
    <2> QED BY <2>4, <2>5, WiringFacts
  <1>2. CASE pc[t] \in {"popout", "repopout"} /\ Grown(OutQueue(t), Room(t)) = <<>>
    <2>1. AtOutput(t) /\ ~ HoldsOutput(t)
      BY <1>2 DEF AtOutput, HoldsOutput
    <2>2. PICK q \in Queue : q = OutQueue(t)
      BY <2>1, OutputFacts
    <2>3. PICK n \in 0..2, s \in Seq(Own(q)) : n = capacity[q] /\ s = free[q]
      BY DEF IInv, TypeInv, TypeQueues, Limit
    <2>4. Append(s, <<q, n + 1>>) # <<>>
      <3>1. s \in Seq(Own(q) \cup {<<q, n + 1>>})
        BY SeqMono
      <3> QED BY <3>1, AppendProperties, EmptySeq
    <2>5. Room(t) \in {0, 2}
      BY DEF Room, Limit
    <2>6. s = <<>> /\ n >= Room(t)
      BY <1>2, <2>2, <2>3, <2>4, <2>5 DEF Grown
    <2>7. WaitsToFill(t, q)
      BY <2>1, <2>2, <2>3, <2>6 DEF WaitsToFill
    <2> QED BY <2>7
  <1> QED BY <1>1, <1>2 DEF Waits

(* Who waits for an item waits for a task that goes on: one that has left  *)
(* has sent an end marker, which is neither on its way nor read.           *)
LEMMA ReadsFromLive ==
    ASSUME SInv, NEW t \in Task, NEW q \in Queue, WaitsToRead(t, q),
           NEW p \in Task, q \in Range(Out[p]), EndSent(p)
    PROVE  pc[p] # "done"
  <1> SUFFICES ASSUME pc[p] = "done" PROVE FALSE
    OBVIOUS
  <1>1. EndOfStream \in Range(sent[q]) /\ IInv /\ Carries(q)
    BY DEF EndSent, SInv
  <1>2. ~ Closed(q) /\ full[q] = <<>>
    BY <1>1 DEF WaitsToRead, IInv, TaskInv, Ends
  <1>3. sent[q] \in Seq(Tags) /\ got[q] \in Seq(Tags) /\ Len(full[q]) = 0
    BY <1>1, <1>2, StreamTypes DEF Tags
  <1>4. Len(sent[q]) = Len(got[q]) /\ \A k \in 1..Len(got[q]) : sent[q][k] = got[q][k]
    BY <1>1, <1>3, LenProperties DEF Carries
  <1>5. Range(sent[q]) \subseteq Range(got[q])
    BY <1>3, <1>4, LenProperties DEF Range
  <1> QED BY <1>1, <1>2, <1>5 DEF Closed

(* Who waits for a buffer waits for a task that goes on: one that has read *)
(* its end markers does so after its producer has left.                    *)
LEMMA FillsForLive ==
    ASSUME IInv, NEW t \in Task, NEW q \in Queue, WaitsToFill(t, q),
           NEW r \in Task, q \in Range(In[r]), ~ Quit(r)
    PROVE  pc[r] # "done"
  <1> SUFFICES ASSUME pc[r] = "done" PROVE FALSE
    OBVIOUS
  <1>1. PICK i \in 1..NInputs(r) : q = In[r][i]
    BY WiringFacts
  <1>2. Closed(q)
    BY <1>1 DEF Quit, AllFinished, IInv, TaskInv, Ends
  <1>3. q \in Range(Out[t]) /\ pc[t] # "done"
    BY OutputFacts DEF WaitsToFill, AtOutput
  <1> QED BY <1>2, <1>3 DEF IInv, TaskInv, Ends

(* The two ends of a queue do not wait for each other: a reader that has   *)
(* failed keeps one of its two buffers, unless it is the only one.         *)
LEMMA EndsMeet ==
    ASSUME HInv, NEW q \in Queue, NEW t \in Task, WaitsToRead(t, q),
           NEW u \in Task, WaitsToFill(u, q)
    PROVE  ReductorStarved
  <1>1. PICK i \in 1..NInputs(t) :
           /\ q = In[t][i] /\ pc[t] \in Getting /\ ~ finished[t][i] /\ i \notin Fetched(t)
           /\ full[q] = <<>>
    BY DEF WaitsToRead
  <1>2. /\ AtOutput(u) /\ ~ HoldsOutput(u) /\ q = OutQueue(u)
        /\ free[q] = <<>> /\ capacity[q] >= Room(u)
    BY DEF WaitsToFill
  <1>3. IInv /\ q \in Range(Out[u]) /\ q \in Range(In[t])
    <2>1. IInv
      BY DEF HInv, AInv, RInv, DInv, SInv
    <2>2. q \in Range(In[t])
      BY <1>1, WiringFacts
    <2>3. q \in Range(Out[u])
      BY <1>2, <2>1, OutputFacts
    <2> QED BY <2>1, <2>2, <2>3
  <1>4. pc[u] # "done" /\ pc[t] # "done" /\ Mode[u] # "sink" /\ pc[u] \in {"popout", "repopout"}
    <2>1. Mode[u] # "sink"
      BY <1>2, <1>3, ModeFacts DEF AtOutput, PCs
    <2> QED BY <1>1, <1>2, <2>1 DEF AtOutput, HoldsOutput, Getting
  <1>5. \A b \in Own(q) : b \in held[t]
    <2>1. Range(free[q]) = {} /\ Range(full[q]) = {}
      BY <1>1, <1>2, EmptyRange
    <2>2. Conserved(u, t, q)
      BY <1>3 DEF HInv
    <2> QED BY <1>2, <1>4, <2>1, <2>2 DEF Conserved
  <1>6. PICK x : KeptBut(t, i, x)
    BY <1>1, <1>4 DEF HInv, Kept
  <1>7. ASSUME NEW b \in Own(q) PROVE pc[t] = "flush" /\ b = x
    <2>1. b[1] = q
      BY <1>3, OwnFacts DEF IInv
    <2> QED BY <1>1, <1>5, <1>6, <2>1 DEF KeptBut
  <1>8. PICK n \in 0..2 : n = capacity[q] /\ Own(q) = {<<q, m>> : m \in 1..n}
    BY <1>3 DEF IInv, TypeInv, TypeQueues, Limit, Own
  <1>9. CASE pc[u] = "popout"
    <2>1. n = 2
      BY <1>2, <1>8, <1>9 DEF Room, Limit
    <2>2. <<q, 1>> \in Own(q) /\ <<q, 2>> \in Own(q)
      BY <1>8, <2>1
    <2>3. <<q, 1>> = x /\ <<q, 2>> = x
      BY <1>7, <2>2
    <2> QED BY <2>3
  <1>10. CASE pc[u] = "repopout"
    <2>1. Mode[u] = "reductor"
      BY <1>3, <1>10, ModeFacts DEF PCs
    <2>2. n = 1
      <3>1. q = Out[u][1]
        BY <1>2, <1>3, <2>1, OutputFacts DEF OutPos
      <3> QED BY <1>8, <1>10, <2>1, <3>1 DEF HInv, OneBuffer
    <2>3. Own(q) = {<<q, 1>>} /\ pc[t] = "flush"
      <3>1. 1..n = {1}
        BY <2>2
      <3>2. Own(q) = {<<q, 1>>}
        BY <1>8, <3>1
      <3> QED BY <1>7, <3>2
    <2>4. t \in failed
      BY <2>3 DEF HInv, Draining
    <2>5. <<q, 1>> \in held[t] /\ inputs[t][i] = <<q, 1>>
      <3>1. <<q, 1>> \in held[t] /\ <<q, 1>>[1] = q
        BY <1>5, <2>3
      <3>2. inputs[t][i] # NullBuffer
        BY <1>1, <3>1 DEF HInv, Remembered
      <3> QED BY <1>1, <1>3, <2>3, <3>1, <3>2 DEF IInv, TaskInv, Owned
    <2>6. <<q, 1>> \in Range(inputs[t])
      BY <1>3, <2>5 DEF Range, IInv, TypeInv, TypeInputs
    <2> QED BY <1>2, <1>3, <1>10, <2>1, <2>4, <2>5, <2>6 DEF ReductorStarved
  <1> QED BY <1>4, <1>9, <1>10

(* In a forest not every task of a set can have a connection within the    *)
(* set for itself.                                                         *)
LEMMA TooFewEdges ==
    ASSUME Forest, NEW D, D \subseteq Task, D # {}, NEW W, W \in [D -> EdgesWithin(D)]
    PROVE  \E t, u \in D : t # u /\ W[t] = W[u]
  <1>1. IsFiniteSet(D) /\ IsFiniteSet(EdgesWithin(D))
    BY FS_Subset DEF Forest, EdgesWithin
  <1>2. Cardinality(EdgesWithin(D)) < Cardinality(D)
    BY DEF Forest
  <1> QED BY <1>1, <1>2, FS_PigeonHole

(* Each task that waits waits for one that has not left. *)
LEMMA WaitsWithin ==
    ASSUME SInv, Wired, \A t \in Task : EndSent(t) /\ ~ Quit(t),
           NEW D, D = {t \in Task : pc[t] # "done"}, NEW t \in D, Waits(t)
    PROVE  \E q \in EdgesWithin(D) : WaitsToRead(t, q) \/ WaitsToFill(t, q)
  <1>1. IInv /\ t \in Task /\ pc[t] # "done"
    BY DEF SInv
  <1>2. PICK q \in Queue : WaitsToRead(t, q) \/ WaitsToFill(t, q)
    BY <1>1, WaitsForQueue
  <1>3. PICK p \in Task : \E r \in Task : q \in Range(Out[p]) /\ q \in Range(In[r])
    BY DEF Wired
  <1>4. PICK r \in Task : q \in Range(Out[p]) /\ q \in Range(In[r])
    BY <1>3
  <1>5. CASE WaitsToRead(t, q)
    <2>1. q \in Range(In[t])
      BY <1>1, <1>5, WiringFacts DEF WaitsToRead
    <2>2. r = t /\ pc[p] # "done"
      BY <1>1, <1>4, <1>5, <2>1, ReadsFromLive, WiringFacts
    <2>3. q \in EdgesWithin(D)
      BY <1>1, <1>4, <2>2 DEF EdgesWithin
    <2> QED BY <1>5, <2>3
  <1>6. CASE WaitsToFill(t, q)
    <2>1. q \in Range(Out[t])
      BY <1>1, <1>6, OutputFacts DEF WaitsToFill
    <2>2. p = t /\ pc[r] # "done"
      BY <1>1, <1>4, <1>6, <2>1, FillsForLive, WiringFacts
    <2>3. q \in EdgesWithin(D)
      BY <1>1, <1>4, <2>2 DEF EdgesWithin
    <2> QED BY <1>6, <2>3
  <1> QED BY <1>2, <1>5, <1>6

(* Whatever the graph, if it is a forest and its reductors read streams    *)
(* that get an item in every run: as long as nobody aborts the run, no     *)
(* process returns FALSE and no generator fails, some task that has not    *)
(* left can take a step, unless the successor of a reductor failed and     *)
(* keeps its only buffer (the loops of ufo-fixed-scheduler.c).             *)
THEOREM FixedNoHang ==
    ASSUME Wired, Forest, NEW F, Supplied(F)
    PROVE  Spec => []NoHang
  <1>1. HInv /\ FInv(F) => NoHang
    <2> SUFFICES ASSUME HInv, FInv(F), \A t \in Task : pc[t] = "done" \/ Waits(t),
                        ~ AllDone, ~ Excused, ~ ReductorStarved
                 PROVE  FALSE
      BY DEF NoHang, Excused
    <2>1. PICK D : D = {t \in Task : pc[t] # "done"}
      OBVIOUS
    <2>2. D \subseteq Task /\ D # {}
      BY <2>1 DEF AllDone
    <2>3. SInv /\ IInv /\ \A t \in Task : EndSent(t) /\ ~ Quit(t)
      BY DEF HInv, AInv, RInv, DInv, SInv, FInv, Excused
    <2>4. ASSUME NEW t \in D
          PROVE  \E q \in EdgesWithin(D) : WaitsToRead(t, q) \/ WaitsToFill(t, q)
      <3>1. Waits(t)
        BY <2>1
      <3> QED BY <2>1, <2>3, <3>1, WaitsWithin
    <2>5. PICK W : W = [t \in D |-> CHOOSE q \in EdgesWithin(D) :
                                        WaitsToRead(t, q) \/ WaitsToFill(t, q)]
      OBVIOUS
    <2>6. \A t \in D : W[t] \in EdgesWithin(D) /\ (WaitsToRead(t, W[t]) \/ WaitsToFill(t, W[t]))
      BY <2>4, <2>5
    <2>7. PICK t \in D, u \in D : t # u /\ W[t] = W[u]
      <3>1. W \in [D -> EdgesWithin(D)]
        BY <2>5, <2>6
      <3> QED BY <2>2, <3>1, TooFewEdges
    <2>8. PICK q \in Queue : q = W[t]
      BY <2>6 DEF EdgesWithin
    <2>9. t \in Task /\ u \in Task
      BY <2>2
    <2>10. ~ (WaitsToRead(t, q) /\ WaitsToRead(u, q))
      <3>1. WaitsToRead(t, q) => q \in Range(In[t])
        BY <2>9, WiringFacts DEF WaitsToRead
      <3>2. WaitsToRead(u, q) => q \in Range(In[u])
        BY <2>9, WiringFacts DEF WaitsToRead
      <3> QED BY <2>7, <2>9, <3>1, <3>2, WiringFacts
    <2>11. ~ (WaitsToFill(t, q) /\ WaitsToFill(u, q))
      <3>1. WaitsToFill(t, q) => q \in Range(Out[t])
        BY <2>3, <2>9, OutputFacts DEF WaitsToFill
      <3>2. WaitsToFill(u, q) => q \in Range(Out[u])
        BY <2>3, <2>9, OutputFacts DEF WaitsToFill
      <3> QED BY <2>7, <2>9, <3>1, <3>2, WiringFacts
    <2>12. ~ (WaitsToRead(t, q) /\ WaitsToFill(u, q)) /\ ~ (WaitsToRead(u, q) /\ WaitsToFill(t, q))
      BY <2>9, EndsMeet
    <2> QED BY <2>6, <2>7, <2>8, <2>10, <2>11, <2>12
  <1>2. Init => HInv /\ FInv(F)
    BY InitHolds, InitFirst
  <1>3. HInv /\ FInv(F) /\ [Next]_vars => HInv' /\ FInv(F)'
    BY NextHolds, NextFirst
  <1> QED BY <1>1, <1>2, <1>3, PTL DEF Spec

=============================================================================
