--------------------------- MODULE BasicOpsProofs ---------------------------
(***************************************************************************)
(* Theorem about the operations of module BasicOps, for any number of      *)
(* threads: kernels are queued with the arguments of their caller.         *)
(***************************************************************************)
EXTENDS BasicOps, SequenceTheorems, TLAPS

States == {"lookup", "create", "insert", "lock", "set", "unlock", "done", "dead"}
Holding == {"insert", "lock", "set", "unlock"}

Kernels == {o.kernel : o \in Operations}
Argument == {"arg1", "arg2", "out", "value", "modifier", "offset"}
Held == {Old} \cup (Thread \X Argument)

(* The command of thread t that calls operation o. *)
Command(t, o) ==
    [thread |-> t, op |-> o, kernel |-> o.kernel,
     values |-> [i \in 1..Len(o.sets) |-> <<t, o.sets[i]>>]]

Commands == {Command(t, o) : t \in Thread, o \in Operations}

TypeInv ==
    /\ pc \in [Thread -> States]
    /\ op \in [Thread -> Operations]
    /\ next \in [Thread -> Nat \ {0}]
    /\ using \in [Thread -> {NoObject} \cup DOMAIN objects]
    /\ commands \in Seq(Commands)

IsObject(o) ==
    /\ o.name \in Kernels
    /\ o = [name |-> o.name, holds |-> o.holds]
    /\ o.holds \in [1..Len(Signature(o.name)) -> Held]

ObjectsOK == \A o \in DOMAIN objects : IsObject(objects[o])

CacheOK == \A k \in DOMAIN cached : cached[k] \in DOMAIN objects /\ objects[cached[k]].name = k

(* A thread makes at most one object, *)
NotYetMade == \A t \in Thread : pc[t] \in {"lookup", "create"} => <<"by", t>> \notin DOMAIN objects

(* works on an object of the kernel it wants, *)
UsingOK ==
    \A t \in Thread : pc[t] \in Holding =>
        using[t] \in DOMAIN objects /\ objects[using[t]].name = op[t].kernel

(* with the mutex of its operation held, *)
OwnerOK ==
    \A t \in Thread : pc[t] \in {"set", "unlock"} =>
        op[t].mutex \in DOMAIN owner /\ owner[op[t].mutex] = t

(* and what it has set is still there. *)
SetSoFar ==
    \A t \in Thread :
        /\ pc[t] \in {"lookup", "create", "insert", "lock"} => next[t] = 1
        /\ pc[t] = "set" => \A i \in 1..Len(op[t].sets) :
              i < next[t] => objects[using[t]].holds[i] = <<t, op[t].sets[i]>>

IInv == TypeInv /\ ObjectsOK /\ CacheOK /\ NotYetMade /\ UsingOK /\ OwnerOK /\ SetSoFar

----------------------------------------------------------------------------
(* The operations *)

(* An operation sets every parameter its kernel declares, numbers where    *)
(* numbers are declared, and its output where the kernel writes.           *)
Matches(o) ==
    /\ o = Operation(o.mutex, o.kernel, o.sets)
    /\ o.sets \in Seq(Argument)
    /\ Signature(o.kernel) \in Seq({"read", "write", "number"})
    /\ Len(Signature(o.kernel)) = Len(o.sets)
    /\ \A i \in 1..Len(o.sets) :
          /\ Signature(o.kernel)[i] = "number" <=> o.sets[i] \in Numbers
          /\ Signature(o.kernel)[i] = "write" => o.sets[i] = "out"

LEMMA Signatures ==
    /\ Signature("operation_set") = <<"write", "number">>
    /\ \A k \in {"operation_mul", "operation_add", "operation_deduction",
                  "operation_gradient_direction"} : Signature(k) = <<"read", "read", "write">>
    /\ \A k \in {"operation_add2", "operation_deduction2"} :
          Signature(k) = <<"read", "read", "number", "write">>
    /\ Signature("op_mulRows") = <<"read", "read", "write", "number">>
    /\ \A k \in {"operation_inv", "operation_gradient_magnitude", "POSC", "descent_grad"} :
          Signature(k) = <<"read", "write">>
  BY DEF Signature, Binary, Unary

LEMMA OperationMatches ==
    ASSUME NEW m, NEW k, NEW s \in Seq(Argument),
           Signature(k) \in Seq({"read", "write", "number"}),
           Len(Signature(k)) = Len(s),
           \A i \in 1..Len(s) : /\ Signature(k)[i] = "number" <=> s[i] \in Numbers
                                /\ Signature(k)[i] = "write" => s[i] = "out"
    PROVE  Matches(Operation(m, k, s))
  BY DEF Matches, Operation

LEMMA UnaryMatches ==
    ASSUME NEW m, NEW k \in {"operation_inv", "operation_gradient_magnitude", "POSC", "descent_grad"},
           NEW a \in {"arg1", "out"}
    PROVE  Matches(Operation(m, k, <<a, "out">>))
  <1> DEFINE s == <<a, "out">>
  <1>1. s \in Seq(Argument) /\ Len(s) = 2
    BY DEF Argument
  <1>2. Signature(k) = <<"read", "write">>
    BY Signatures
  <1>3. <<"read", "write">> \in Seq({"read", "write", "number"})
    OBVIOUS
  <1>4. \A i \in 1..2 : /\ <<"read", "write">>[i] = "number" <=> s[i] \in Numbers
                        /\ <<"read", "write">>[i] = "write" => s[i] = "out"
    BY DEF Numbers
  <1> HIDE DEF s
  <1>5. Matches(Operation(m, k, s))
    BY <1>1, <1>2, <1>3, <1>4, OperationMatches
  <1> QED BY <1>5 DEF s

LEMMA BinaryMatches ==
    ASSUME NEW m, NEW k \in {"operation_mul", "operation_add", "operation_deduction",
                             "operation_gradient_direction"}
    PROVE  Matches(Operation(m, k, ThreeImages))
  <1>1. ThreeImages \in Seq(Argument) /\ Len(ThreeImages) = 3
    BY DEF Argument, ThreeImages
  <1>2. Signature(k) = <<"read", "read", "write">>
    BY Signatures
  <1>3. <<"read", "read", "write">> \in Seq({"read", "write", "number"})
    OBVIOUS
  <1>4. \A i \in 1..3 : /\ <<"read", "read", "write">>[i] = "number" <=> ThreeImages[i] \in Numbers
                        /\ <<"read", "read", "write">>[i] = "write" => ThreeImages[i] = "out"
    BY DEF ThreeImages, Numbers
  <1> QED BY <1>1, <1>2, <1>3, <1>4, OperationMatches

LEMMA ModifierMatches ==
    ASSUME NEW m, NEW k \in {"operation_add2", "operation_deduction2"}
    PROVE  Matches(Operation(m, k, Modified))
  <1>1. Modified \in Seq(Argument) /\ Len(Modified) = 4
    BY DEF Argument, Modified
  <1>2. Signature(k) = <<"read", "read", "number", "write">>
    BY Signatures
  <1>3. <<"read", "read", "number", "write">> \in Seq({"read", "write", "number"})
    OBVIOUS
  <1>4. \A i \in 1..4 :
          /\ <<"read", "read", "number", "write">>[i] = "number" <=> Modified[i] \in Numbers
          /\ <<"read", "read", "number", "write">>[i] = "write" => Modified[i] = "out"
    BY DEF Modified, Numbers
  <1> QED BY <1>1, <1>2, <1>3, <1>4, OperationMatches

LEMMA SetMatches == Matches(Set)
  <1> DEFINE s == <<"out", "value">>
  <1>1. s \in Seq(Argument) /\ Len(s) = 2
    BY DEF Argument
  <1>2. <<"write", "number">> \in Seq({"read", "write", "number"})
    OBVIOUS
  <1>3. \A i \in 1..2 : /\ <<"write", "number">>[i] = "number" <=> s[i] \in Numbers
                        /\ <<"write", "number">>[i] = "write" => s[i] = "out"
    BY DEF Numbers
  <1> HIDE DEF s
  <1>4. Matches(Operation("set", "operation_set", s))
    BY <1>1, <1>2, <1>3, Signatures, OperationMatches
  <1> QED BY <1>4 DEF Set, s

LEMMA RowsMatch == Matches(MulRows)
  <1> DEFINE s == <<"arg1", "arg2", "out", "offset">>
  <1>1. s \in Seq(Argument) /\ Len(s) = 4
    BY DEF Argument
  <1>2. <<"read", "read", "write", "number">> \in Seq({"read", "write", "number"})
    OBVIOUS
  <1>3. \A i \in 1..4 :
          /\ <<"read", "read", "write", "number">>[i] = "number" <=> s[i] \in Numbers
          /\ <<"read", "read", "write", "number">>[i] = "write" => s[i] = "out"
    BY DEF Numbers
  <1> HIDE DEF s
  <1>4. Matches(Operation("mul_rows", "op_mulRows", s))
    BY <1>1, <1>2, <1>3, Signatures, OperationMatches
  <1> QED BY <1>4 DEF MulRows, s

LEMMA AllMatch == \A o \in Operations : Matches(o)
  <1>1. Matches(Inv) /\ Matches(GradientMagnitudes) /\ Matches(Positive) /\ Matches(GradientDescent)
    BY UnaryMatches DEF Inv, GradientMagnitudes, Positive, GradientDescent
  <1>2. Matches(Mul) /\ Matches(Add) /\ Matches(Deduction) /\ Matches(GradientDirections)
    BY BinaryMatches DEF Mul, Add, Deduction, GradientDirections, Elementwise
  <1>3. Matches(Add2) /\ Matches(Deduction2)
    BY ModifierMatches DEF Add2, Deduction2, WithModifier
  <1> QED BY <1>1, <1>2, <1>3, SetMatches, RowsMatch DEF Operations

(* A kernel is launched by one C function only: two operations that want   *)
(* the same kernel take the same mutex.                                    *)
LEMMA KernelHasMutex ==
    ASSUME NEW o \in Operations, NEW p \in Operations, o.kernel = p.kernel
    PROVE  o.mutex = p.mutex
  BY DEF Operations, Set, Inv, Mul, Add, Add2, Deduction, Deduction2, MulRows, GradientMagnitudes,
         GradientDirections, Positive, GradientDescent, Elementwise, WithModifier, Operation

----------------------------------------------------------------------------
(* The invariant *)

LEMMA OpFacts ==
    ASSUME TypeInv, NEW t \in Thread
    PROVE  /\ op[t] \in Operations /\ op[t].kernel \in Kernels
           /\ op[t].sets \in Seq(Argument)
           /\ Len(op[t].sets) \in Nat
           /\ Len(Signature(op[t].kernel)) = Len(op[t].sets)
           /\ DOMAIN Signature(op[t].kernel) = 1..Len(op[t].sets)
  <1>1. op[t] \in Operations
    BY DEF TypeInv
  <1>2. Matches(op[t])
    BY <1>1, AllMatch
  <1>3. op[t].kernel \in Kernels
    BY <1>1 DEF Kernels
  <1> QED BY <1>1, <1>2, <1>3 DEF Matches

LEMMA NewObjectOK ==
    ASSUME NEW k \in Kernels
    PROVE  IsObject(NewObject(k, Old)) /\ NewObject(k, Old).name = k
  <1>1. PICK o \in Operations : k = o.kernel
    BY DEF Kernels
  <1>2. Signature(k) \in Seq({"read", "write", "number"})
    BY <1>1, AllMatch DEF Matches
  <1>3. DOMAIN Signature(k) = 1..Len(Signature(k))
    BY <1>2
  <1> QED BY <1>3 DEF NewObject, IsObject, Held

LEMMA InitInv == Init => IInv
  <1> SUFFICES ASSUME Init PROVE IInv
    OBVIOUS
  <1> USE DEF Init
  <1>1. PICK before \in SUBSET {op[t].kernel : t \in Thread} :
          /\ objects = [o \in {<<"before", k>> : k \in before} |-> NewObject(o[2], Old)]
          /\ cached = [k \in before |-> <<"before", k>>]
    OBVIOUS
  <1>2. TypeInv
    BY DEF TypeInv, States
  <1>3. before \subseteq Kernels
    BY <1>2, OpFacts
  <1>4. ObjectsOK
    BY <1>1, <1>3, NewObjectOK DEF ObjectsOK
  <1>5. CacheOK
    BY <1>1, <1>3, NewObjectOK DEF CacheOK
  <1>6. NotYetMade
    BY <1>1 DEF NotYetMade
  <1>7. UsingOK /\ OwnerOK /\ SetSoFar
    BY DEF UsingOK, OwnerOK, SetSoFar, Holding
  <1> QED BY <1>2, <1>4, <1>5, <1>6, <1>7 DEF IInv

LEMMA LookupInv == ASSUME IInv, NEW t \in Thread, Lookup(t) PROVE IInv'
  <1> USE DEF IInv, Lookup, At
  <1>1. TypeInv'
    BY DEF TypeInv, States, CacheOK
  <1>2. ObjectsOK' /\ CacheOK'
    BY DEF ObjectsOK, CacheOK
  <1>3. NotYetMade'
    BY DEF NotYetMade, TypeInv
  <1>4. UsingOK'
    BY SMTT(30) DEF UsingOK, TypeInv, Holding, CacheOK
  <1>5. OwnerOK'
    BY DEF OwnerOK, TypeInv
  <1>6. SetSoFar'
    BY DEF SetSoFar, TypeInv
  <1> QED BY <1>1, <1>2, <1>3, <1>4, <1>5, <1>6

LEMMA CreateInv == ASSUME IInv, NEW t \in Thread, Create(t) PROVE IInv'
  <1> DEFINE new == <<"by", t>>
             obj == NewObject(op[t].kernel, Old)
  <1> USE DEF IInv
  <1>1. /\ pc[t] = "create" /\ pc' = [pc EXCEPT ![t] = "insert"]
        /\ objects' = [o \in DOMAIN objects \cup {new} |-> IF o = new THEN obj ELSE objects[o]]
        /\ using' = [using EXCEPT ![t] = new]
        /\ UNCHANGED <<op, next, cached, owner, commands>>
    BY DEF Create, At
  <1>2. new \notin DOMAIN objects
    BY <1>1 DEF NotYetMade
  <1>3. IsObject(obj) /\ obj.name = op[t].kernel
    BY OpFacts, NewObjectOK
  <1> HIDE DEF obj
  <1>4. TypeInv'
    BY <1>1 DEF TypeInv, States
  <1>5. ObjectsOK'
    BY <1>1, <1>3 DEF ObjectsOK
  <1>6. CacheOK'
    BY <1>1, <1>2 DEF CacheOK
  <1>7. NotYetMade'
    BY <1>1 DEF NotYetMade, TypeInv
  <1>8. UsingOK'
    BY <1>1, <1>2, <1>3 DEF UsingOK, TypeInv, Holding
  <1>9. OwnerOK'
    BY <1>1 DEF OwnerOK, TypeInv
  <1>10. SetSoFar'
    <2> SUFFICES ASSUME NEW u \in Thread
                 PROVE  /\ pc'[u] \in {"lookup", "create", "insert", "lock"} => next'[u] = 1
                        /\ pc'[u] = "set" => \A i \in 1..Len(op'[u].sets) :
                              i < next'[u] => objects'[using'[u]].holds[i] = <<u, op'[u].sets[i]>>
      BY DEF SetSoFar
    <2>1. CASE u = t
      BY <2>1, <1>1 DEF SetSoFar, TypeInv
    <2>2. CASE u # t
      <3>1. pc'[u] = pc[u] /\ using'[u] = using[u]
        BY <2>2, <1>1 DEF TypeInv
      <3>2. pc[u] = "set" => objects'[using[u]] = objects[using[u]]
        BY <1>1, <1>2 DEF UsingOK, Holding
      <3> QED BY <1>1, <3>1, <3>2 DEF SetSoFar
    <2> QED BY <2>1, <2>2
  <1> QED BY <1>4, <1>5, <1>6, <1>7, <1>8, <1>9, <1>10

LEMMA InsertInv == ASSUME IInv, NEW t \in Thread, Insert(t) PROVE IInv'
  <1> USE DEF IInv, Insert, At
  <1>1. TypeInv'
    BY DEF TypeInv, States
  <1>2. ObjectsOK'
    BY DEF ObjectsOK
  <1>3. CacheOK'
    BY DEF CacheOK, UsingOK, Holding
  <1>4. NotYetMade'
    BY DEF NotYetMade, TypeInv
  <1>5. UsingOK'
    BY DEF UsingOK, TypeInv, Holding
  <1>6. OwnerOK'
    BY DEF OwnerOK, TypeInv
  <1>7. SetSoFar'
    BY DEF SetSoFar, TypeInv
  <1> QED BY <1>1, <1>2, <1>3, <1>4, <1>5, <1>6, <1>7

LEMMA DieInv == ASSUME IInv, NEW t \in Thread, Die(t) PROVE IInv'
  <1> USE DEF IInv, Die
  <1>1. TypeInv'
    BY DEF TypeInv, States
  <1>2. ObjectsOK' /\ CacheOK'
    BY DEF ObjectsOK, CacheOK
  <1>3. NotYetMade' /\ UsingOK' /\ OwnerOK' /\ SetSoFar'
    BY DEF NotYetMade, UsingOK, OwnerOK, SetSoFar, Holding
  <1> QED BY <1>1, <1>2, <1>3

LEMMA LockInv == ASSUME IInv, NEW t \in Thread, Lock(t) PROVE IInv'
  <1> USE DEF IInv, Lock, At
  <1>1. TypeInv'
    BY DEF TypeInv, States
  <1>2. ObjectsOK' /\ CacheOK'
    BY DEF ObjectsOK, CacheOK
  <1>3. NotYetMade'
    BY DEF NotYetMade, TypeInv
  <1>4. UsingOK'
    BY DEF UsingOK, TypeInv, Holding
  <1>5. OwnerOK'
    BY DEF OwnerOK, TypeInv, Taken
  <1>6. SetSoFar'
    <2>1. next[t] = 1 /\ \A i \in 1..Len(op[t].sets) : ~ i < next[t]
      <3>1. Len(op[t].sets) \in Nat
        BY OpFacts
      <3> QED BY <3>1 DEF SetSoFar
    <2>2. \A u \in Thread : u # t => pc'[u] = pc[u]
      BY DEF TypeInv
    <2>3. pc'[t] = "set"
      BY DEF TypeInv
    <2> QED BY <2>1, <2>2, <2>3 DEF SetSoFar
  <1> QED BY <1>1, <1>2, <1>3, <1>4, <1>5, <1>6

(* Two threads that set parameters do not work on the same object. *)
LEMMA OwnObject ==
    ASSUME IInv, NEW t \in Thread, NEW u \in Thread, pc[t] = "set", pc[u] = "set", t # u
    PROVE  using[t] # using[u]
  <1> SUFFICES ASSUME using[t] = using[u] PROVE FALSE
    OBVIOUS
  <1>1. op[t].kernel = op[u].kernel
    BY DEF IInv, UsingOK, Holding
  <1>2. op[t].mutex = op[u].mutex
    BY <1>1, OpFacts, KernelHasMutex DEF IInv
  <1> QED BY <1>2 DEF IInv, OwnerOK

LEMMA SetArgumentInv == ASSUME IInv, NEW t \in Thread, SetArgument(t) PROVE IInv'
  <1> DEFINE o == using[t]
             n == next[t]
             value == <<t, op[t].sets[n]>>
  <1> USE DEF IInv
  <1>1. /\ pc[t] = "set" /\ n <= Len(op[t].sets)
        /\ objects' = [objects EXCEPT ![o].holds[n] = value]
        /\ next' = [next EXCEPT ![t] = @ + 1]
        /\ UNCHANGED <<pc, op, using, cached, owner, commands>>
    BY DEF SetArgument
  <1>2. n \in Nat \ {0} /\ o \in DOMAIN objects /\ objects[o].name = op[t].kernel
    BY <1>1 DEF TypeInv, UsingOK, Holding
  <1>3. n \in 1..Len(op[t].sets) /\ value \in Held
    BY <1>1, <1>2, OpFacts DEF Held
  <1>4. /\ objects[o].name \in Kernels
        /\ objects[o] = [name |-> objects[o].name, holds |-> objects[o].holds]
        /\ objects[o].holds \in [1..Len(op[t].sets) -> Held]
    BY <1>2, OpFacts DEF ObjectsOK, IsObject
  <1>5. /\ DOMAIN objects' = DOMAIN objects
        /\ \A p \in DOMAIN objects : p # o => objects'[p] = objects[p]
        /\ objects'[o] = [objects[o] EXCEPT !.holds[n] = value]
    BY <1>1, <1>2
  <1>6. /\ objects'[o].name = objects[o].name
        /\ objects'[o].holds = [objects[o].holds EXCEPT ![n] = value]
        /\ objects'[o] = [name |-> objects[o].name,
                          holds |-> [objects[o].holds EXCEPT ![n] = value]]
    BY <1>4, <1>5
  <1>7. \A p \in DOMAIN objects : objects'[p].name = objects[p].name
    BY <1>5, <1>6
  <1> HIDE DEF value
  <1>8. TypeInv'
    BY <1>1, <1>5 DEF TypeInv, States
  <1>9. ObjectsOK'
    <2>1. [objects[o].holds EXCEPT ![n] = value] \in [1..Len(op[t].sets) -> Held]
      BY <1>3, <1>4
    <2>2. Len(Signature(objects[o].name)) = Len(op[t].sets)
      BY <1>2, OpFacts
    <2>3. IsObject(objects'[o])
      BY <1>4, <1>6, <2>1, <2>2 DEF IsObject
    <2> QED BY <1>5, <2>3 DEF ObjectsOK
  <1>10. CacheOK'
    BY <1>1, <1>5, <1>7 DEF CacheOK
  <1>11. NotYetMade'
    BY <1>1, <1>5 DEF NotYetMade
  <1>12. UsingOK'
    BY <1>1, <1>5, <1>7 DEF UsingOK, Holding
  <1>13. OwnerOK'
    BY <1>1 DEF OwnerOK
  <1>14. SetSoFar'
    <2> SUFFICES ASSUME NEW u \in Thread
                 PROVE  /\ pc[u] \in {"lookup", "create", "insert", "lock"} => next'[u] = 1
                        /\ pc[u] = "set" => \A i \in 1..Len(op[u].sets) :
                              i < next'[u] => objects'[using[u]].holds[i] = <<u, op[u].sets[i]>>
      BY <1>1 DEF SetSoFar
    <2>1. CASE u = t
      <3> SUFFICES ASSUME NEW i \in 1..Len(op[t].sets), i < n + 1
                   PROVE  objects'[o].holds[i] = <<t, op[t].sets[i]>>
        BY <2>1, <1>1, <1>2 DEF TypeInv
      <3>1. CASE i = n
        BY <3>1, <1>3, <1>4, <1>6 DEF value
      <3>2. CASE i # n
        <4>1. i < n
          BY <3>2, <1>2, OpFacts
        <4>2. objects[o].holds[i] = <<t, op[t].sets[i]>>
          BY <4>1, <1>1 DEF SetSoFar
        <4> QED BY <3>2, <4>2, <1>4, <1>6
      <3> QED BY <3>1, <3>2
    <2>2. CASE u # t
      <3>1. next'[u] = next[u]
        BY <2>2, <1>1 DEF TypeInv
      <3>2. pc[u] = "set" => objects'[using[u]] = objects[using[u]]
        BY <2>2, <1>1, <1>5, OwnObject DEF UsingOK, Holding
      <3> QED BY <3>1, <3>2 DEF SetSoFar
    <2> QED BY <2>1, <2>2
  <1> QED BY <1>8, <1>9, <1>10, <1>11, <1>12, <1>13, <1>14

LEMMA EnqueueInv == ASSUME IInv, NEW t \in Thread, Enqueue(t) PROVE IInv'
  <1> DEFINE o == objects[using[t]]
             command == [thread |-> t, op |-> op[t], kernel |-> o.name, values |-> o.holds]
  <1> USE DEF IInv
  <1>1. /\ next[t] > Len(op[t].sets)
        /\ pc[t] = "set" /\ pc' = [pc EXCEPT ![t] = "unlock"]
        /\ commands' = Append(commands, command)
        /\ UNCHANGED <<op, using, next, objects, cached, owner>>
    BY DEF Enqueue, At
  <1>2. o.name = op[t].kernel /\ IsObject(o)
    BY <1>1 DEF UsingOK, Holding, ObjectsOK
  <1>3. o.holds \in [1..Len(op[t].sets) -> Held]
    BY <1>2, OpFacts DEF IsObject
  <1>4. \A i \in 1..Len(op[t].sets) : o.holds[i] = <<t, op[t].sets[i]>>
    <2>1. next[t] \in Nat /\ Len(op[t].sets) \in Nat
      BY OpFacts DEF TypeInv
    <2> QED BY <1>1, <2>1 DEF SetSoFar
  <1>5. o.holds = [i \in 1..Len(op[t].sets) |-> <<t, op[t].sets[i]>>]
    BY <1>3, <1>4
  <1>6. command \in Commands
    <2>1. command = Command(t, op[t])
      BY <1>2, <1>5 DEF Command
    <2> QED BY <2>1, OpFacts DEF Commands
  <1> HIDE DEF command
  <1>7. TypeInv'
    <2>1. commands' \in Seq(Commands)
      BY <1>1, <1>6 DEF TypeInv
    <2> QED BY <1>1, <2>1 DEF TypeInv, States
  <1>8. ObjectsOK' /\ CacheOK'
    BY <1>1 DEF ObjectsOK, CacheOK
  <1>9. NotYetMade'
    BY <1>1 DEF NotYetMade, TypeInv
  <1>10. UsingOK' /\ OwnerOK'
    BY <1>1 DEF UsingOK, OwnerOK, TypeInv, Holding
  <1>11. SetSoFar'
    BY <1>1 DEF SetSoFar, TypeInv
  <1> QED BY <1>7, <1>8, <1>9, <1>10, <1>11

LEMMA UnlockInv == ASSUME IInv, NEW t \in Thread, Unlock(t) PROVE IInv'
  <1> USE DEF IInv, Unlock, At
  <1>1. TypeInv'
    BY DEF TypeInv, States
  <1>2. ObjectsOK' /\ CacheOK'
    BY DEF ObjectsOK, CacheOK
  <1>3. NotYetMade'
    BY DEF NotYetMade, TypeInv
  <1>4. UsingOK'
    BY DEF UsingOK, TypeInv, Holding
  <1>5. OwnerOK'
    BY DEF OwnerOK, TypeInv
  <1>6. SetSoFar'
    BY DEF SetSoFar, TypeInv
  <1> QED BY <1>1, <1>2, <1>3, <1>4, <1>5, <1>6

LEMMA NextInv == IInv /\ [Next]_vars => IInv'
  <1> SUFFICES ASSUME IInv, [Next]_vars PROVE IInv'
    OBVIOUS
  <1>1. ASSUME NEW t \in Thread, Call(t) PROVE IInv'
    BY <1>1, LookupInv, CreateInv, InsertInv, DieInv, LockInv, SetArgumentInv, EnqueueInv,
       UnlockInv DEF Call
  <1>2. CASE UNCHANGED vars
    BY <1>2 DEF vars, IInv, TypeInv, ObjectsOK, CacheOK, NotYetMade, UsingOK, OwnerOK, SetSoFar
  <1> QED BY <1>1, <1>2 DEF Next

LEMMA InvImplies == IInv => LaunchedAsCalled
  <1> SUFFICES ASSUME IInv, NEW l \in ToSet(commands)
               PROVE  /\ Len(l.values) = Len(l.op.sets)
                      /\ l.kernel = l.op.kernel
                      /\ \A i \in DOMAIN l.values :
                            LET argument == l.op.sets[i]
                            IN  /\ l.values[i] = <<l.thread, argument>>
                                /\ Signature(l.kernel)[i] = "number" <=> argument \in Numbers
                                /\ Signature(l.kernel)[i] = "write" => argument = "out"
    BY DEF LaunchedAsCalled
  <1>1. l \in Commands
    BY DEF IInv, TypeInv, ToSet
  <1>2. PICK t \in Thread, o \in Operations : l = Command(t, o)
    BY <1>1 DEF Commands
  <1>3. Matches(o)
    BY AllMatch
  <1>4. /\ l.thread = t /\ l.op = o /\ l.kernel = o.kernel
        /\ l.values = [i \in 1..Len(o.sets) |-> <<t, o.sets[i]>>]
    BY <1>2 DEF Command
  <1>5. Len(o.sets) \in Nat
    BY <1>3 DEF Matches
  <1>6. Len(l.values) = Len(o.sets) /\ DOMAIN l.values = 1..Len(o.sets)
    BY <1>4, <1>5
  <1> QED BY <1>3, <1>4, <1>6 DEF Matches

(* Whatever the threads are that call operations at the same time, and     *)
(* whichever of them they call, every kernel that is queued holds the      *)
(* arguments of its caller, each where the kernel expects it: the mutex of *)
(* a C function is enough, for no kernel is launched by two functions.     *)
THEOREM ArgumentsCorrect == Spec => []LaunchedAsCalled
  <1>1. IInv => LaunchedAsCalled
    BY InvImplies
  <1> QED BY InitInv, NextInv, <1>1, PTL DEF Spec

=============================================================================
