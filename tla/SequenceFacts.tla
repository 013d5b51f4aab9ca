---------------------------- MODULE SequenceFacts ----------------------------
(***************************************************************************)
(* Lemmas about sequences that the proofs about the schedulers share: what *)
(* a push or a pop does to the set of elements of a queue and to what is   *)
(* on its way between two histories.                                       *)
(***************************************************************************)
EXTENDS SequenceTheorems, FiniteSetTheorems, TLAPS

(* No element but x twice. *)
OnceBut(x, s) == \A i, j \in DOMAIN s : s[i] = s[j] /\ s[i] # x => i = j

(* s was sent, g has arrived, c is on its way. *)
InTransit(s, g, c) ==
    /\ Len(s) = Len(g) + Len(c)
    /\ \A i \in 1..Len(g) : s[i] = g[i]
    /\ \A i \in 1..Len(c) : s[Len(g) + i] = c[i]

LEMMA SeqMono ==
    ASSUME NEW S, NEW T, S \subseteq T, NEW s \in Seq(S)
    PROVE  s \in Seq(T)
  OBVIOUS

LEMMA TailRange ==
    ASSUME NEW S, NEW s \in Seq(S), s # <<>>
    PROVE  /\ Tail(s) \in Seq(S) /\ Head(s) \in S
           /\ Range(s) = Range(Tail(s)) \cup {Head(s)}
           /\ IsInjective(s) => IsInjective(Tail(s)) /\ Head(s) \notin Range(Tail(s))
  <1>1. /\ Tail(s) \in Seq(S) /\ Head(s) \in S /\ Head(s) = s[1] /\ Len(s) \in Nat \ {0}
        /\ Len(Tail(s)) = Len(s) - 1 /\ \A i \in 1..Len(s) - 1 : Tail(s)[i] = s[i + 1]
    BY HeadTailProperties, EmptySeq
  <1>2. DOMAIN s = 1..Len(s) /\ DOMAIN Tail(s) = 1..Len(s) - 1
    BY <1>1, LenProperties
  <1>3. \A i \in 2..Len(s) : s[i] = Tail(s)[i - 1] /\ i - 1 \in 1..Len(s) - 1
    BY <1>1
  <1>4. Range(s) = Range(Tail(s)) \cup {Head(s)}
    <2>1. ASSUME NEW x \in Range(s) PROVE x \in Range(Tail(s)) \cup {Head(s)}
      <3>1. PICK i \in 1..Len(s) : x = s[i]
        BY <1>2 DEF Range
      <3>2. CASE i = 1
        BY <1>1, <3>1, <3>2
      <3>3. CASE i # 1
        <4>1. x = Tail(s)[i - 1] /\ i - 1 \in 1..Len(s) - 1
          BY <1>1, <1>3, <3>1, <3>3
        <4> QED BY <1>2, <4>1 DEF Range
      <3> QED BY <3>2, <3>3
    <2>2. ASSUME NEW x \in Range(Tail(s)) PROVE x \in Range(s)
      BY <1>1, <1>2 DEF Range
    <2>3. Head(s) \in Range(s)
      BY <1>1, <1>2 DEF Range
    <2> QED BY <2>1, <2>2, <2>3
  <1>5. ASSUME IsInjective(s) PROVE IsInjective(Tail(s)) /\ Head(s) \notin Range(Tail(s))
    <2>1. \A i, j \in 1..Len(s) : s[i] = s[j] => i = j
      BY <1>2, <1>5 DEF IsInjective
    <2>2. \A i, j \in 1..Len(s) - 1 : Tail(s)[i] = Tail(s)[j] => i = j
      BY <1>1, <2>1
    <2>3. \A i \in 1..Len(s) - 1 : Tail(s)[i] # Head(s)
      BY <1>1, <2>1
    <2> QED BY <1>2, <2>2, <2>3 DEF IsInjective, Range
  <1> QED BY <1>1, <1>4, <1>5

LEMMA AppendRange ==
    ASSUME NEW S, NEW s \in Seq(S), NEW x \in S
    PROVE  /\ Append(s, x) \in Seq(S) /\ s \o <<x>> = Append(s, x)
           /\ Range(Append(s, x)) = Range(s) \cup {x}
           /\ IsInjective(s) /\ x \notin Range(s) => IsInjective(Append(s, x))
  <1>1. /\ Append(s, x) \in Seq(S) /\ Len(s) \in Nat
        /\ Len(Append(s, x)) = Len(s) + 1
        /\ \A i \in 1..Len(s) : Append(s, x)[i] = s[i]
        /\ Append(s, x)[Len(s) + 1] = x
    BY AppendProperties
  <1>2. DOMAIN s = 1..Len(s) /\ DOMAIN Append(s, x) = 1..Len(s) + 1
    BY <1>1, LenProperties
  <1>3. s \o <<x>> = Append(s, x)
    OBVIOUS
  <1>4. \A i \in 1..Len(s) + 1 : i \in 1..Len(s) \/ i = Len(s) + 1
    BY <1>1
  <1>5. Range(Append(s, x)) = Range(s) \cup {x}
    BY <1>1, <1>2, <1>4 DEF Range
  <1>6. IsInjective(s) /\ x \notin Range(s) => IsInjective(Append(s, x))
    BY <1>1, <1>2, <1>4 DEF Range, IsInjective
  <1> QED BY <1>1, <1>3, <1>5, <1>6

LEMMA EmptyRange == Range(<<>>) = {} /\ IsInjective(<<>>)
  <1>1. DOMAIN <<>> = {}
    OBVIOUS
  <1> QED BY <1>1 DEF Range, IsInjective

LEMMA AppendsOne ==
    ASSUME NEW S, NEW s \in Seq(S), NEW x \in S
    PROVE  /\ Len(Append(s, x)) = Len(s) + 1
           /\ Append(s, x)[Len(Append(s, x))] = x
           /\ SubSeq(Append(s, x), 1, Len(s)) = s
  <1>1. /\ Append(s, x) \in Seq(S) /\ Len(s) \in Nat /\ Len(Append(s, x)) = Len(s) + 1
        /\ Append(s, x)[Len(s) + 1] = x /\ \A i \in 1..Len(s) : Append(s, x)[i] = s[i]
    BY AppendProperties
  <1>2. DOMAIN s = 1..Len(s) /\ s = [i \in 1..Len(s) |-> s[i]]
    BY LenProperties
  <1>3. SubSeq(Append(s, x), 1, Len(s)) = s
    BY <1>1, <1>2
  <1> QED BY <1>1, <1>3

(* A queue in which no element but x occurs twice, when one is taken ...   *)
LEMMA OnceTail ==
    ASSUME NEW S, NEW s \in Seq(S), s # <<>>, NEW x, OnceBut(x, s)
    PROVE  OnceBut(x, Tail(s)) /\ (Head(s) # x => Head(s) \notin Range(Tail(s)))
  <1>1. /\ Tail(s) \in Seq(S) /\ Head(s) = s[1] /\ Len(s) \in Nat \ {0}
        /\ Len(Tail(s)) = Len(s) - 1 /\ \A i \in 1..Len(s) - 1 : Tail(s)[i] = s[i + 1]
    BY HeadTailProperties, EmptySeq
  <1>2. DOMAIN s = 1..Len(s) /\ DOMAIN Tail(s) = 1..Len(s) - 1
    BY <1>1, LenProperties
  <1>3. \A i, j \in 1..Len(s) : s[i] = s[j] /\ s[i] # x => i = j
    BY <1>2 DEF OnceBut
  <1>4. \A i, j \in 1..Len(s) - 1 : Tail(s)[i] = Tail(s)[j] /\ Tail(s)[i] # x => i = j
    BY <1>1, <1>3
  <1>5. s[1] # x => \A i \in 1..Len(s) - 1 : Tail(s)[i] # s[1]
    BY <1>1, <1>3
  <1> QED BY <1>1, <1>2, <1>4, <1>5 DEF OnceBut, Range

(* ... and when one is added. *)
LEMMA OnceAppend ==
    ASSUME NEW S, NEW s \in Seq(S), NEW e \in S, NEW x, OnceBut(x, s), e = x \/ e \notin Range(s)
    PROVE  OnceBut(x, Append(s, e))
  <1>1. /\ Append(s, e) \in Seq(S) /\ Len(s) \in Nat
        /\ Len(Append(s, e)) = Len(s) + 1
        /\ \A i \in 1..Len(s) : Append(s, e)[i] = s[i]
        /\ Append(s, e)[Len(s) + 1] = e
    BY AppendProperties
  <1>2. DOMAIN s = 1..Len(s) /\ DOMAIN Append(s, e) = 1..Len(s) + 1
    BY <1>1, LenProperties
  <1>3. \A i \in 1..Len(s) + 1 : i \in 1..Len(s) \/ i = Len(s) + 1
    BY <1>1
  <1> QED BY <1>1, <1>2, <1>3 DEF OnceBut, Range

(* A queue that holds buffers number 1 to c of q, each once, but not one   *)
(* of them, is shorter than c.                                             *)
LEMMA RoomForOne ==
    ASSUME NEW c \in Nat, NEW q, NEW x \in {<<q, n>> : n \in 1..c}, NEW S, NEW s \in Seq(S),
           IsInjective(s), Range(s) \subseteq {<<q, n>> : n \in 1..c}, x \notin Range(s)
    PROVE  Len(s) < c
  <1> DEFINE number == [i \in 1..Len(s) |-> s[i][2]]
             others == (1..c) \ {x[2]}
  <1>1. Len(s) \in Nat /\ DOMAIN s = 1..Len(s)
    BY LenProperties
  <1>2. \A i \in 1..Len(s) : /\ s[i] = <<q, s[i][2]>> /\ s[i][2] \in 1..c
                            /\ s[i] # x
    BY <1>1 DEF Range
  <1>3. x = <<q, x[2]>> /\ x[2] \in 1..c
    OBVIOUS
  <1>4. \A i \in 1..Len(s) : s[i][2] \in others
    BY <1>2, <1>3
  <1>5. \A i, j \in 1..Len(s) : s[i][2] = s[j][2] => i = j
    <2>1. ASSUME NEW i \in 1..Len(s), NEW j \in 1..Len(s), s[i][2] = s[j][2] PROVE i = j
      <3>1. s[i] = s[j]
        BY <1>2, <2>1, Zenon
      <3> QED BY <1>1, <3>1 DEF IsInjective
    <2> QED BY <2>1
  <1>6. number \in Injection(1..Len(s), others)
    BY <1>4, <1>5 DEF Injection, IsInjective
  <1>7. IsFiniteSet(1..c) /\ Cardinality(1..c) = c
    BY FS_Interval
  <1>8. IsFiniteSet(others) /\ Cardinality(others) = c - 1
    BY <1>3, <1>7, FS_RemoveElement
  <1>9. Cardinality(1..Len(s)) = Len(s)
    <2>1. \A n \in Nat : Cardinality(1..n) = n
      BY FS_Interval
    <2> QED BY <1>1, <2>1
  <1> HIDE DEF number, others
  <1>10. Cardinality(1..Len(s)) <= Cardinality(others)
    BY <1>6, <1>8, FS_Injection
  <1> QED BY <1>1, <1>8, <1>9, <1>10

(* A push adds to both ends of what is known of a stream, ... *)
LEMMA TransitAppend ==
    ASSUME NEW S, NEW s \in Seq(S), NEW g \in Seq(S), NEW c \in Seq(S), NEW v \in S,
           InTransit(s, g, c)
    PROVE  InTransit(Append(s, v), g, Append(c, v))
  <1>1. PICK m \in Nat, n \in Nat : m = Len(g) /\ n = Len(c)
    OBVIOUS
  <1>2. /\ Len(s) = m + n /\ \A i \in 1..m : s[i] = g[i]
        /\ \A i \in 1..n : s[m + i] = c[i]
    BY <1>1 DEF InTransit
  <1>3. /\ Len(Append(c, v)) = n + 1 /\ Append(c, v)[n + 1] = v
        /\ \A i \in 1..n : Append(c, v)[i] = c[i]
    BY <1>1, AppendProperties
  <1>4. /\ Len(Append(s, v)) = m + n + 1 /\ Append(s, v)[m + n + 1] = v
        /\ \A i \in 1..m + n : Append(s, v)[i] = s[i]
    BY <1>2, AppendProperties
  <1>5. m + n + 1 = m + (n + 1)
    OBVIOUS
  <1>6. \A i \in 1..n + 1 : i \in 1..n \/ i = n + 1
    OBVIOUS
  <1>7. \A i \in 1..m : Append(s, v)[i] = g[i]
    BY <1>2, <1>4
  <1>8. \A i \in 1..n : Append(s, v)[m + i] = Append(c, v)[i]
    BY <1>2, <1>3, <1>4
  <1>9. \A i \in 1..n + 1 : Append(s, v)[m + i] = Append(c, v)[i]
    BY <1>3, <1>4, <1>5, <1>6, <1>8
  <1> QED BY <1>1, <1>3, <1>4, <1>5, <1>7, <1>9 DEF InTransit

(* ... and a pop moves the next element on. *)
LEMMA TransitPop ==
    ASSUME NEW S, NEW s \in Seq(S), NEW g \in Seq(S), NEW c \in Seq(S), c # <<>>,
           InTransit(s, g, c)
    PROVE  /\ InTransit(s, Append(g, Head(c)), Tail(c))
           /\ Len(g) < Len(s) /\ s[Len(g) + 1] = Head(c)
  <1>1. PICK m \in Nat, n \in Nat : m = Len(g) /\ n = Len(c)
    OBVIOUS
  <1>2. /\ Len(s) = m + n /\ \A i \in 1..m : s[i] = g[i]
        /\ \A i \in 1..n : s[m + i] = c[i]
    BY <1>1 DEF InTransit
  <1>3. /\ n > 0 /\ Head(c) = c[1] /\ Head(c) \in S /\ Len(Tail(c)) = n - 1
        /\ \A i \in 1..n - 1 : Tail(c)[i] = c[i + 1]
    BY <1>1, HeadTailProperties, EmptySeq
  <1>4. /\ Len(Append(g, Head(c))) = m + 1 /\ Append(g, Head(c))[m + 1] = Head(c)
        /\ \A i \in 1..m : Append(g, Head(c))[i] = g[i]
    BY <1>1, <1>3, AppendProperties
  <1>5. s[m + 1] = Head(c)
    <2>1. 1 \in 1..n
      BY <1>3
    <2> QED BY <1>2, <1>3, <2>1
  <1>6. \A i \in 1..m + 1 : s[i] = Append(g, Head(c))[i]
    <2>1. \A i \in 1..m + 1 : i \in 1..m \/ i = m + 1
      OBVIOUS
    <2> QED BY <1>2, <1>4, <1>5, <2>1
  <1>7. \A i \in 1..n - 1 : s[m + 1 + i] = Tail(c)[i]
    <2>1. ASSUME NEW i \in 1..n - 1 PROVE s[m + 1 + i] = Tail(c)[i]
      <3>1. i \in Nat /\ i + 1 \in 1..n /\ m + 1 + i = m + (i + 1)
        OBVIOUS
      <3> QED BY <1>2, <1>3, <3>1
    <2> QED BY <2>1
  <1>8. m + n = (m + 1) + (n - 1) /\ m < m + n
    BY <1>3
  <1> QED BY <1>1, <1>2, <1>3, <1>4, <1>5, <1>6, <1>7, <1>8 DEF InTransit

(* f is a function from S to T.  (The lemmas below are found by its name.) *)
Maps(f, S, T) == f \in [S -> T]

(* The elements of s, each seen through f. *)
Mapped(f, s) == [i \in 1..Len(s) |-> f[s[i]]]

LEMMA MappedFacts ==
    ASSUME NEW S, NEW T, NEW f, Maps(f, S, T), NEW s \in Seq(S)
    PROVE  /\ Mapped(f, s) \in Seq(T) /\ Len(Mapped(f, s)) = Len(s)
           /\ \A i \in 1..Len(s) : Mapped(f, s)[i] = f[s[i]] /\ s[i] \in S /\ s[i] \in Range(s)
  <1>1. PICK n \in Nat : n = Len(s)
    OBVIOUS
  <1>2. \A i \in 1..n : s[i] \in S /\ s[i] \in Range(s) /\ f[s[i]] \in T
    BY <1>1, ElementOfSeq, LenProperties DEF Range, Maps
  <1>3. Mapped(f, s) \in Seq(T)
    BY <1>1, <1>2 DEF Mapped
  <1>4. Len(Mapped(f, s)) = n
    BY <1>1 DEF Mapped
  <1> QED BY <1>1, <1>2, <1>3, <1>4 DEF Mapped

LEMMA MappedSame ==
    ASSUME NEW S, NEW T, NEW f, NEW g, Maps(f, S, T), Maps(g, S, T),
           NEW s \in Seq(S),
           \A x \in Range(s) : g[x] = f[x]
    PROVE  Mapped(g, s) = Mapped(f, s) /\ Mapped(f, s) \in Seq(T)
  BY MappedFacts DEF Mapped, Maps

LEMMA MappedAppend ==
    ASSUME NEW S, NEW T, NEW f, Maps(f, S, T), NEW s \in Seq(S), NEW x \in S
    PROVE  Mapped(f, Append(s, x)) = Append(Mapped(f, s), f[x])
  <1>1. PICK n \in Nat : n = Len(s)
    OBVIOUS
  <1>2. \A i \in 1..n : s[i] \in S /\ f[s[i]] \in T
    BY <1>1, ElementOfSeq DEF Maps
  <1>3. PICK m \in Seq(T) : m = Mapped(f, s) /\ Len(m) = n /\ \A i \in 1..n : m[i] = f[s[i]]
    <2>1. Mapped(f, s) \in Seq(T) /\ Len(Mapped(f, s)) = n
      BY <1>1, MappedFacts
    <2>2. \A i \in 1..n : Mapped(f, s)[i] = f[s[i]]
      BY <1>1 DEF Mapped
    <2> QED BY <2>1, <2>2
  <1>4. Mapped(f, Append(s, x)) = Append(m, f[x])
    <2>1. /\ Append(s, x) \in Seq(S) /\ Len(Append(s, x)) = n + 1 /\ Append(s, x)[n + 1] = x
          /\ \A i \in 1..n : Append(s, x)[i] = s[i]
      BY <1>1, AppendProperties
    <2>0. f[x] \in T
      BY DEF Maps
    <2>2. /\ Append(m, f[x]) \in Seq(T) /\ Len(Append(m, f[x])) = n + 1
          /\ Append(m, f[x])[n + 1] = f[x] /\ \A i \in 1..n : Append(m, f[x])[i] = m[i]
      BY <1>3, <2>0, AppendProperties
    <2>3. \A i \in 1..n + 1 : f[Append(s, x)[i]] = Append(m, f[x])[i]
      <3>1. \A i \in 1..n + 1 : i \in 1..n \/ i = n + 1
        OBVIOUS
      <3> QED BY <1>3, <2>1, <2>2, <3>1
    <2>4. Append(m, f[x]) = [i \in 1..n + 1 |-> Append(m, f[x])[i]]
      BY <2>2, LenProperties
    <2>5. Mapped(f, Append(s, x)) = [i \in 1..n + 1 |-> f[Append(s, x)[i]]]
      BY <2>1 DEF Mapped
    <2> QED BY <2>3, <2>4, <2>5
  <1> QED BY <1>3, <1>4

LEMMA MappedTail ==
    ASSUME NEW S, NEW T, NEW f, Maps(f, S, T), NEW s \in Seq(S), s # <<>>
    PROVE  /\ Mapped(f, s) # <<>> /\ Head(Mapped(f, s)) = f[Head(s)]
           /\ Mapped(f, Tail(s)) = Tail(Mapped(f, s))
           /\ Mapped(f, s) \in Seq(T) /\ Head(s) \in S
  <1>1. PICK n \in Nat : n = Len(s)
    OBVIOUS
  <1>2. \A i \in 1..n : s[i] \in S /\ f[s[i]] \in T
    BY <1>1, ElementOfSeq DEF Maps
  <1>3. PICK m \in Seq(T) : m = Mapped(f, s) /\ Len(m) = n /\ \A i \in 1..n : m[i] = f[s[i]]
    <2>1. Mapped(f, s) \in Seq(T) /\ Len(Mapped(f, s)) = n
      BY <1>1, MappedFacts
    <2>2. \A i \in 1..n : Mapped(f, s)[i] = f[s[i]]
      BY <1>1 DEF Mapped
    <2> QED BY <2>1, <2>2
  <1>4. m # <<>> /\ Head(m) = f[Head(s)] /\ Mapped(f, Tail(s)) = Tail(m)
    <2>1. /\ n > 0 /\ Head(s) = s[1] /\ Tail(s) \in Seq(S) /\ Len(Tail(s)) = n - 1
          /\ \A i \in 1..n - 1 : Tail(s)[i] = s[i + 1]
      BY <1>1, HeadTailProperties, EmptySeq
    <2>2. m # <<>> /\ 1 \in 1..n
      BY <1>3, <2>1
    <2>3. /\ Head(m) = m[1] /\ Tail(m) \in Seq(T) /\ Len(Tail(m)) = n - 1
          /\ \A i \in 1..n - 1 : Tail(m)[i] = m[i + 1]
      BY <1>3, <2>2, HeadTailProperties
    <2>4. \A i \in 1..n - 1 : f[Tail(s)[i]] = Tail(m)[i]
      <3>1. \A i \in 1..n - 1 : i + 1 \in 1..n
        OBVIOUS
      <3> QED BY <1>3, <2>1, <2>3, <3>1
    <2>5. Tail(m) = [i \in 1..n - 1 |-> Tail(m)[i]]
      BY <2>3, LenProperties
    <2>6. Mapped(f, Tail(s)) = [i \in 1..n - 1 |-> f[Tail(s)[i]]]
      BY <2>1 DEF Mapped
    <2> QED BY <1>3, <2>1, <2>2, <2>3, <2>4, <2>5, <2>6
  <1> QED BY <1>3, <1>4, HeadTailProperties

(* In a stream nothing follows an end marker but another one. *)
NothingBehind(e, s) == \A i, j \in 1..Len(s) : i <= j /\ s[i] = e => s[j] = e

LEMMA NothingBehindAppend ==
    ASSUME NEW S, NEW s \in Seq(S), NEW e, NEW v \in S, NothingBehind(e, s),
           e \notin Range(s) \/ v = e
    PROVE  NothingBehind(e, Append(s, v))
  <1>1. PICK n \in Nat : n = Len(s)
    OBVIOUS
  <1>2. /\ Len(Append(s, v)) = n + 1 /\ Append(s, v)[n + 1] = v
        /\ \A i \in 1..n : Append(s, v)[i] = s[i]
    BY <1>1, AppendProperties
  <1>3. \A i \in 1..n : s[i] \in Range(s)
    BY <1>1, LenProperties DEF Range
  <1>4. \A i, j \in 1..n : i <= j /\ s[i] = e => s[j] = e
    BY <1>1 DEF NothingBehind
  <1>5. \A i \in 1..n + 1 : i \in 1..n \/ i = n + 1
    OBVIOUS
  <1>6. \A i \in 1..n : ~ (n + 1 <= i)
    OBVIOUS
  <1>7. ASSUME NEW i \in 1..n + 1, NEW j \in 1..n + 1, i <= j, Append(s, v)[i] = e
        PROVE  Append(s, v)[j] = e
    <2>1. CASE j = n + 1
      BY <1>2, <1>3, <1>5, <1>7, <2>1
    <2>2. CASE j \in 1..n
      <3>1. i \in 1..n
        BY <1>5, <1>6, <1>7, <2>2
      <3> QED BY <1>2, <1>4, <1>7, <2>2, <3>1
    <2> QED BY <1>5, <2>1, <2>2
  <1> QED BY <1>2, <1>7 DEF NothingBehind

(* What has arrived was sent, and after an end marker only end markers are *)
(* on their way.                                                           *)
LEMMA TransitFacts ==
    ASSUME NEW S, NEW s \in Seq(S), NEW g \in Seq(S), NEW c \in Seq(S), InTransit(s, g, c), NEW e
    PROVE  /\ Range(g) \subseteq Range(s) /\ Range(c) \subseteq Range(s)
           /\ NothingBehind(e, s) /\ e \in Range(g) => \A i \in 1..Len(c) : c[i] = e
  <1>1. PICK m \in Nat, n \in Nat : m = Len(g) /\ n = Len(c)
    OBVIOUS
  <1>2. /\ Len(s) = m + n /\ \A i \in 1..m : s[i] = g[i]
        /\ \A i \in 1..n : s[m + i] = c[i]
    BY <1>1 DEF InTransit
  <1>3. DOMAIN s = 1..m + n /\ DOMAIN g = 1..m /\ DOMAIN c = 1..n
    BY <1>1, <1>2, LenProperties
  <1>4. /\ \A i \in 1..m : i \in 1..m + n
        /\ \A i \in 1..n : m + i \in 1..m + n
        /\ \A i \in 1..m : \A j \in 1..n : i <= m + j
    OBVIOUS
  <1>5. Range(g) \subseteq Range(s)
    BY <1>2, <1>3, <1>4 DEF Range
  <1>6. Range(c) \subseteq Range(s)
    BY <1>2, <1>3, <1>4 DEF Range
  <1>7. ASSUME NothingBehind(e, s), e \in Range(g), NEW i \in 1..n PROVE c[i] = e
    <2>1. PICK k \in 1..m : g[k] = e
      BY <1>3, <1>7 DEF Range
    <2>2. s[k] = e /\ k \in 1..m + n /\ m + i \in 1..m + n /\ k <= m + i
      BY <1>2, <1>4, <2>1
    <2>3. \A k1, k2 \in 1..m + n : k1 <= k2 /\ s[k1] = e => s[k2] = e
      BY <1>2, <1>7 DEF NothingBehind
    <2> QED BY <1>2, <2>2, <2>3
  <1> QED BY <1>1, <1>5, <1>6, <1>7

LEMMA TransitEnd ==
    ASSUME NEW S, NEW s \in Seq(S), NEW g \in Seq(S), NEW c \in Seq(S), InTransit(s, g, c), NEW e,
           NothingBehind(e, s), c # <<>>, Head(c) = e
    PROVE  e \in Range(s) /\ \A i \in 1..Len(c) : c[i] = e
  <1>1. PICK m \in Nat, n \in Nat : m = Len(g) /\ n = Len(c)
    OBVIOUS
  <1>2. n > 0 /\ c[1] = e /\ DOMAIN s = 1..m + n /\ Len(s) = m + n
    BY <1>1, HeadTailProperties, EmptySeq, LenProperties DEF InTransit
  <1>3. \A i \in 1..n : s[m + i] = c[i]
    BY <1>1 DEF InTransit
  <1>4. 1 \in 1..n /\ \A i \in 1..n : m + i \in 1..m + n /\ m + 1 <= m + i
    BY <1>2
  <1>5. s[m + 1] = e /\ m + 1 \in 1..m + n
    BY <1>2, <1>3, <1>4
  <1>6. \A i, j \in 1..m + n : i <= j /\ s[i] = e => s[j] = e
    BY <1>2 DEF NothingBehind
  <1>7. \A i \in 1..n : c[i] = e
    BY <1>3, <1>4, <1>5, <1>6
  <1> QED BY <1>1, <1>2, <1>5, <1>7 DEF Range

=============================================================================
