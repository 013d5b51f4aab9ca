---------------------------- MODULE BufferProofs ----------------------------
(***************************************************************************)
(* Proofs about module Buffer: the memories of a buffer fit its size, the  *)
(* host array is freed by its owner, no transfer goes wrong but a copy to  *)
(* a buffer whose size is mistaken for that of the source, and what a      *)
(* buffer holds is what was written last; for any number of buffers, any   *)
(* values and any sizes, as long as an application does not combine what   *)
(* the code does not stand.                                                *)
(***************************************************************************)
EXTENDS Buffer, TLAPS

(* The code does not stand every combination of the optional operations:   *)
(* what an application may use at most.                                    *)
Compatible == \A m \in Profiles :
    \/ m \subseteq {"image", "swap", "discard", "convert"}
    \/ m \subseteq {"image", "lend", "convert"}
    \/ m \subseteq {"resize", "convert"}

----------------------------------------------------------------------------
BufferTypeOK ==
    /\ requisition \in [Buffers -> Requisitions]
    /\ memory \in [Buffers -> [Places -> Memories \cup {Null}]]
    /\ free \in [Buffers -> BOOLEAN]
    /\ location \in [Buffers -> Places \cup {"invalid"}]
    /\ last_location \in [Buffers -> Places \cup {"invalid"}]
    /\ queued \in [Buffers -> BOOLEAN]
    /\ may \in Profiles
    /\ written \in [Buffers -> Value \cup {Blank}]

(* A buffer that does not own its host array has one, and is in use.       *)
Owned == \A b \in Buffers : ~ free[b] =>
    /\ "lend" \in may
    /\ location[b] # "invalid"
    /\ memory[b]["host"] # Null

(* The place of the data exists, unless the buffer was resized since.      *)
Present == \A b \in Buffers : location[b] \in Places =>
    \/ memory[b][location[b]] # Null
    \/ "resize" \in may /\ \A p \in Places : memory[b][p] = Null

LastPresent == "resize" \notin may => \A b \in Buffers :
    last_location[b] \in Places => memory[b][last_location[b]] # Null

NoResizedImage == "resize" \in may => \A b \in Buffers : location[b] # "image"

(* Data get to a device through a queue only, which the buffer remembers.  *)
QueueKnown == \A b \in Buffers :
    {location[b], last_location[b]} \cap {"device", "image"} # {} => queued[b]

BufferInv ==
    /\ BufferTypeOK /\ Owned /\ Present /\ LastPresent /\ NoResizedImage /\ QueueKnown
    /\ HoldsLastWrite /\ NoBadTransfer /\ Fits /\ OwnsHost

----------------------------------------------------------------------------
(* A size is a number of elements, and memory of that size is a memory. *)
LEMMA SizeIsNat ==
    ASSUME NEW r \in Requisitions
    PROVE  Size(r) \in Nat
<1>1. r \in Seq(Nat \ {0}) /\ Len(r) \in 2..3
  BY BufferAssumption
<1> \A i \in 1..Len(r) : r[i] \in Nat
  BY <1>1
<1>2. r[1] \in Nat /\ r[2] \in Nat
  BY <1>1
<1>3. Len(r) = 3 => r[3] \in Nat
  OBVIOUS
<1>4. \A m, n \in Nat : m * n \in Nat
  OBVIOUS
<1>5. r[1] * r[2] \in Nat
  BY <1>2, <1>4
<1> QED
  BY <1>3, <1>4, <1>5 DEF Size

LEMMA MemoryIsMemory ==
    ASSUME NEW r \in Requisitions, NEW v \in Value \cup {Blank}, NEW lent \in BOOLEAN
    PROVE  LET m == Memory(Size(r), v, lent)
           IN  /\ m \in Memories /\ m # Null
               /\ m.elements = Size(r) /\ m.data = v /\ m.lent = lent
BY SizeIsNat, BufferAssumption DEF Memory, Memories

LEMMA AllocIsMemory ==
    ASSUME NEW b \in Buffers, NEW r \in Requisitions
    PROVE  /\ Alloc(b, r) \in Memories /\ Alloc(b, r) # Null
           /\ Alloc(b, r).elements = Size(r) /\ Alloc(b, r).data = Blank
           /\ Alloc(b, r).lent = FALSE
BY MemoryIsMemory DEF Alloc

(* The memory after a transfer is the one before but for its data. *)
LEMMA TransferIsMemory ==
    ASSUME NEW r \in Requisitions, NEW from \in Memories, NEW to \in Memories
    PROVE  LET m == Transferred(from, to, r)
           IN  /\ m \in Memories /\ m # Null
               /\ m.elements = to.elements /\ m.lent = to.lent
               /\ m.data = IF to.elements = Size(r) THEN from.data ELSE Blank
<1>1. Null \notin {from, to}
  BY BufferAssumption
<1>2. Transferred(from, to, r)
        = [to EXCEPT !.data = IF to.elements = Size(r) THEN from.data ELSE Blank]
  BY <1>1 DEF Transferred
<1> QED
  BY <1>2, BufferAssumption DEF Memories

(* All that goes wrong between memories that fit, with a queue, is that    *)
(* the second is too small.                                                *)
LEMMA TransferIsGood ==
    ASSUME NEW r \in Requisitions, NEW s \in Requisitions,
           NEW from \in Memories, NEW to \in Memories,
           from.elements = Size(r), to.elements = Size(s)
    PROVE  \A f \in TransferFaults(from, to, r, s, TRUE) :
              f = <<"overrun", r, s>> /\ Size(s) < Size(r)
<1>1. Null \notin {from, to}
  BY BufferAssumption
<1>2. ~ (from.elements < Size(r))
  BY SizeIsNat
<1> QED
  BY <1>1, <1>2 DEF TransferFaults

----------------------------------------------------------------------------
(* The bytes that convert_data makes a pixel from are those where a pixel  *)
(* of this depth lies, also those of the last one of an odd number of 12   *)
(* bit pixels, which has no neighbour to be read with.                     *)
LEMMA SourceIsPacked ==
    ASSUME NEW d \in Depths, NEW n \in Nat, NEW i \in 0..(n - 1)
    PROVE  Source(d, i, n) = Packed(d, i)
<1>1. CASE d = "8U"
  <2>1. (i * 8) \div 8 = i /\ ((i + 1) * 8 - 1) \div 8 = i
    OBVIOUS
  <2>2. Packed(d, i) = i .. i
    BY <1>1, <2>1 DEF Packed, Bits
  <2>3. i .. i = {i}
    OBVIOUS
  <2> QED
    BY <1>1, <2>2, <2>3 DEF Source
<1>2. CASE d = "16U"
  <2>1. (i * 16) \div 8 = 2 * i /\ ((i + 1) * 16 - 1) \div 8 = 2 * i + 1
    OBVIOUS
  <2> QED
    BY <1>2, <2>1 DEF Packed, Bits, Source
<1>3. CASE d = "32U"
  <2>1. (i * 32) \div 8 = 4 * i /\ ((i + 1) * 32 - 1) \div 8 = 4 * i + 3
    OBVIOUS
  <2> QED
    BY <1>3, <2>1 DEF Packed, Bits, Source
<1>4. CASE d = "12U"
  <2>1. Packed(d, i) = (i * 12) \div 8 .. ((i + 1) * 12 - 1) \div 8
    BY <1>4 DEF Packed, Bits
  <2>2. PICK h \in Nat : i = 2 * h \/ i = 2 * h + 1
    <3>1. i \div 2 \in Nat /\ (i = 2 * (i \div 2) \/ i = 2 * (i \div 2) + 1)
      OBVIOUS
    <3> QED
      BY <3>1
  <2>3. \A x \in Int : x .. x + 1 = {x, x + 1}
    OBVIOUS
  <2>4. CASE i = 2 * h
    <3>1. (i * 12) \div 8 = 3 * h /\ ((i + 1) * 12 - 1) \div 8 = 3 * h + 1
      BY <2>4
    <3>2. Packed(d, i) = {3 * h, 3 * h + 1}
      BY <2>1, <2>3, <3>1
    <3>3. CASE n % 2 = 1 /\ i = n - 1
      <4>1. (3 * n) \div 2 = 3 * h + 1
        BY <2>4, <3>3
      <4> QED
        BY <1>4, <3>2, <3>3, <4>1 DEF Source
    <3>4. CASE ~ (n % 2 = 1 /\ i = n - 1)
      <4>1. i \div 2 = h /\ i % 2 = 0
        BY <2>4
      <4> QED
        BY <1>4, <3>2, <3>4, <4>1 DEF Source
    <3> QED
      BY <3>3, <3>4
  <2>5. CASE i = 2 * h + 1
    <3>1. (i * 12) \div 8 = 3 * h + 1 /\ ((i + 1) * 12 - 1) \div 8 = 3 * h + 2
      BY <2>5
    <3>2. Packed(d, i) = {3 * h + 1, 3 * h + 2}
      <4>1. 3 * h + 1 .. 3 * h + 2 = {3 * h + 1, 3 * h + 2}
        OBVIOUS
      <4> QED
        BY <2>1, <3>1, <4>1
    <3>3. ~ (n % 2 = 1 /\ i = n - 1)
      BY <2>5
    <3>4. i \div 2 = h /\ i % 2 = 1
      BY <2>5
    <3> QED
      BY <1>4, <3>2, <3>3, <3>4 DEF Source
  <2> QED
    BY <2>2, <2>4, <2>5
<1> QED
  BY <1>1, <1>2, <1>3, <1>4 DEF Depths

(* The loop of convert_data visits every pixel, from back to front. *)
VisitsAll(rounds, n) == UNION {rounds[k] : k \in DOMAIN rounds} = 0..(n - 1)

BackToFront(rounds) ==
    \A k \in DOMAIN rounds : \A m \in 1..(k - 1) :
        /\ m \in DOMAIN rounds
        /\ \A i \in rounds[k], j \in rounds[m] : i < j

LEMMA RoundsGoBack ==
    ASSUME NEW d \in Depths, NEW n \in Nat
    PROVE  VisitsAll(Rounds(d, n), n) /\ BackToFront(Rounds(d, n))
<1>1. CASE d # "12U"
  <2> DEFINE rounds == [k \in 1..n |-> {n - k}]
  <2>1. Rounds(d, n) = rounds
    BY <1>1 DEF Rounds
  <2>2. ASSUME NEW x \in 0..(n - 1)
        PROVE  n - x \in 1..n /\ x \in rounds[n - x]
    OBVIOUS
  <2>3. \A k \in 1..n : rounds[k] \subseteq 0..(n - 1)
    OBVIOUS
  <2>4. VisitsAll(rounds, n)
    <3>1. DOMAIN rounds = 1..n
      OBVIOUS
    <3> HIDE DEF rounds
    <3>2. ASSUME NEW x \in 0..(n - 1)
          PROVE  \E k \in DOMAIN rounds : x \in rounds[k]
      BY <2>2, <3>1
    <3> QED
      BY <2>3, <3>1, <3>2 DEF VisitsAll
  <2>5. BackToFront(rounds)
    BY DEF BackToFront
  <2> QED
    BY <2>1, <2>4, <2>5
<1>2. CASE d = "12U"
  <2> DEFINE h == n \div 2
             pairs == [k \in 1..h |-> {2 * (h - k), 2 * (h - k) + 1}]
  <2>1. h \in Nat /\ (n % 2 = 0 => n = 2 * h) /\ (n % 2 = 1 => n = 2 * h + 1)
    OBVIOUS
  <2>2. n % 2 \in {0, 1}
    OBVIOUS
  <2>3. pairs \in Seq(SUBSET Nat) /\ Len(pairs) = h
    BY <2>1
  <2>4. ASSUME NEW x \in 0..(2 * h - 1)
        PROVE  h - (x \div 2) \in 1..h /\ x \in pairs[h - (x \div 2)]
    <3>1. PICK y \in Nat : x \div 2 = y /\ (x = 2 * y \/ x = 2 * y + 1)
      BY <2>1
    <3>2. y < h /\ h - y \in 1..h
      BY <2>1, <3>1
    <3>3. pairs[h - y] = {2 * (h - (h - y)), 2 * (h - (h - y)) + 1}
      BY <3>2
    <3>4. h - (h - y) = y
      BY <2>1
    <3> QED
      BY <3>1, <3>2, <3>3, <3>4
  <2>5. \A k \in 1..h : pairs[k] \subseteq 0..(2 * h - 1)
    BY <2>1
  <2>6. CASE n % 2 = 0
    <3>1. Rounds(d, n) = pairs
      BY <1>2, <2>6 DEF Rounds
    <3>2. VisitsAll(pairs, n)
      <4>1. n = 2 * h /\ DOMAIN pairs = 1..h
        BY <2>1, <2>6
      <4> HIDE DEF h, pairs
      <4>2. ASSUME NEW x \in 0..(n - 1)
            PROVE  \E k \in DOMAIN pairs : x \in pairs[k]
        BY <2>4, <4>1
      <4>3. \A k \in DOMAIN pairs : pairs[k] \subseteq 0..(n - 1)
        BY <2>5, <4>1
      <4> QED
        BY <4>2, <4>3 DEF VisitsAll
    <3>3. BackToFront(pairs)
      BY <2>1 DEF BackToFront
    <3> QED
      BY <3>1, <3>2, <3>3
  <2>7. CASE n % 2 = 1
    <3> DEFINE rounds == <<{n - 1}>> \o pairs
    <3>1. Rounds(d, n) = rounds
      BY <1>2, <2>7 DEF Rounds
    <3>2. DOMAIN rounds = 1..(h + 1) /\ rounds[1] = {2 * h}
      BY <2>1, <2>3, <2>7
    <3>3. \A k \in 1..h : rounds[k + 1] = pairs[k]
      BY <2>1, <2>3, <2>7
    <3>4. \A k \in 2..(h + 1) : k - 1 \in 1..h /\ rounds[k] = pairs[k - 1]
      BY <2>1, <3>3
    <3> HIDE DEF rounds
    <3>5. ASSUME NEW x \in 0..(n - 1)
          PROVE  \E k \in 1..(h + 1) : x \in rounds[k]
      <4>1. CASE x = 2 * h
        BY <2>1, <3>2, <4>1
      <4>2. CASE x # 2 * h
        <5>1. x \in 0..(2 * h - 1)
          BY <2>1, <2>7, <4>2
        <5>2. PICK k \in 1..h : x \in pairs[k]
          BY <2>4, <5>1
        <5> QED
          BY <2>1, <3>3, <5>2
      <4> QED
        BY <4>1, <4>2
    <3>6. \A k \in 1..(h + 1) : rounds[k] \subseteq 0..(n - 1)
      BY <2>1, <2>5, <2>7, <3>2, <3>4
    <3>7. VisitsAll(rounds, n)
      BY <3>2, <3>5, <3>6 DEF VisitsAll
    <3>8. ASSUME NEW k \in 1..(h + 1), NEW m \in 1..(k - 1), NEW i \in rounds[k],
                 NEW j \in rounds[m]
          PROVE  i < j
      <4>1. k - 1 \in 1..h /\ i \in pairs[k - 1]
        BY <2>1, <3>4
      <4>2. CASE m = 1
        BY <2>1, <2>5, <3>2, <4>1, <4>2
      <4>3. CASE m # 1
        <5>1. m - 1 \in 1..h /\ j \in pairs[m - 1]
          BY <2>1, <3>4, <4>3
        <5> QED
          BY <2>1, <4>1, <5>1
      <4> QED
        BY <4>2, <4>3
    <3>9. BackToFront(rounds)
      BY <3>2, <3>8 DEF BackToFront
    <3> QED
      BY <3>1, <3>7, <3>9
  <2> QED
    BY <2>2, <2>6, <2>7
<1> QED
  BY <1>1, <1>2

(* convert_data converts in place without reading what it has written, for *)
(* every depth and any number of pixels.                                   *)
THEOREM ConversionInPlace ==
    ASSUME NEW d \in Depths, NEW n \in Nat
    PROVE  ConvertsRight(d, n)
<1> DEFINE rounds == Rounds(d, n)
<1>1. VisitsAll(rounds, n) /\ BackToFront(rounds)
  BY RoundsGoBack
<1> HIDE DEF rounds
<1>2. ASSUME NEW k \in DOMAIN rounds, NEW i \in rounds[k]
      PROVE  /\ Source(d, i, n) = Packed(d, i)
             /\ Source(d, i, n) \cap Overwritten(rounds, k) = {}
  <2>1. i \in 0..(n - 1)
    BY <1>1 DEF VisitsAll
  <2>2. Source(d, i, n) = Packed(d, i)
    BY <2>1, SourceIsPacked
  <2>3. Bits(d) \in 8..32
    BY DEF Bits, Depths
  <2>4. ((i + 1) * Bits(d) - 1) \div 8 < 4 * (i + 1)
    BY <2>1 DEF Bits, Depths
  <2>5. \A x \in Packed(d, i) : x \in Int /\ x < 4 * (i + 1)
    <3>1. PICK last \in Int : last = ((i + 1) * Bits(d) - 1) \div 8
      BY <2>1 DEF Bits, Depths
    <3>2. PICK first \in Int : first = (i * Bits(d)) \div 8
      BY <2>1 DEF Bits, Depths
    <3> QED
      BY <2>1, <2>4, <3>1, <3>2 DEF Packed
  <2>6. ASSUME NEW x \in Overwritten(rounds, k)
        PROVE  x \in Int /\ 4 * (i + 1) <= x
    <3>1. PICK m \in 1..(k - 1) : x \in UNION {4 * j .. 4 * j + 3 : j \in rounds[m]}
      BY DEF Overwritten
    <3>2. PICK j \in rounds[m] : x \in 4 * j .. 4 * j + 3
      BY <3>1
    <3>3. i < j
      BY <1>1, <3>2 DEF BackToFront
    <3>4. j \in 0..(n - 1)
      BY <1>1, <3>2 DEF BackToFront, VisitsAll
    <3> QED
      BY <2>1, <3>2, <3>3, <3>4
  <2> QED
    BY <2>1, <2>2, <2>5, <2>6
<1> QED
  BY <1>1, <1>2 DEF ConvertsRight, VisitsAll, rounds

----------------------------------------------------------------------------
(* Initially no buffer has a memory. *)
LEMMA InitiallyInv == BufferInit => BufferInv
<1> SUFFICES ASSUME BufferInit PROVE BufferInv
  OBVIOUS
<1>1. BufferTypeOK
  BY BufferAssumption DEF BufferInit, BufferTypeOK
<1>2. \A b \in Buffers : \A p \in Places : memory[b][p] = Null
  BY DEF BufferInit
<1>3. \A b \in Buffers : /\ free[b] /\ written[b] = Blank
                         /\ location[b] = "invalid" /\ last_location[b] = "invalid"
  BY DEF BufferInit
<1>4. Owned /\ Present /\ LastPresent /\ NoResizedImage /\ QueueKnown
  BY <1>3 DEF Owned, Present, LastPresent, NoResizedImage, QueueKnown, Places
<1>5. HoldsLastWrite /\ NoBadTransfer /\ Fits /\ OwnsHost
  BY <1>2, <1>3 DEF BufferInit, HoldsLastWrite, NoBadTransfer, Fits, OwnsHost, Places
<1> QED
  BY <1>1, <1>4, <1>5 DEF BufferInv

(* What the hypothesis on profiles says of the profile of a behaviour. *)
LEMMA ProfileOf ==
    ASSUME Compatible, BufferTypeOK
    PROVE  /\ "resize" \in may => {"image", "swap", "discard", "lend"} \cap may = {}
           /\ "lend" \in may => {"swap", "discard", "resize"} \cap may = {}
BY DEF Compatible, BufferTypeOK

(* A memory that exists is one of the memories, with the buffer's size. *)
LEMMA MemoryOf ==
    ASSUME BufferTypeOK, Fits, NEW b \in Buffers, NEW p \in Places, memory[b][p] # Null
    PROVE  memory[b][p] \in Memories /\ memory[b][p].elements = Size(requisition[b])
BY DEF BufferTypeOK, Fits

(* An accessor allocates and moves what is missing. *)
LEMMA GetArrayInv ==
    ASSUME Compatible, BufferInv, NEW b \in Buffers, NEW p \in Places, NEW queue \in BOOLEAN,
           GetArray(b, p, queue)
    PROVE  BufferInv'
<1> USE DEF BufferInv
<1> DEFINE there == IF memory[b][p] = Null THEN Alloc(b, requisition[b]) ELSE memory[b][p]
           from == memory[b][location[b]]
           moves == MovesFrom(b, p)
           gets == IF moves THEN Transferred(from, there, requisition[b]) ELSE there
<1>1. requisition[b] \in Requisitions /\ location[b] \in Places \cup {"invalid"}
  BY DEF BufferTypeOK
<1>2. /\ there \in Memories /\ there # Null
      /\ there.elements = Size(requisition[b])
      /\ there.lent = IF memory[b][p] = Null THEN FALSE ELSE memory[b][p].lent
  BY <1>1, MemoryIsMemory, MemoryOf, BufferAssumption DEF Alloc
<1>3. /\ memory' = [memory EXCEPT ![b][p] = gets]
      /\ location' = [location EXCEPT ![b] = p]
      /\ last_location' = [last_location EXCEPT ![b] = location[b]]
      /\ queued' = [queued EXCEPT ![b] = @ \/ queue]
      /\ UNCHANGED <<requisition, free, may, written>>
  BY DEF GetArray, UpdateLocation
<1>4. moves => from # Null
  BY ProfileOf DEF GetArray, MovesFrom, Present, NoResizedImage, Places
<1>5. moves => from \in Memories /\ from.elements = Size(requisition[b])
  BY <1>1, <1>4, MemoryOf DEF MovesFrom
<1>6. p # "host" => queued'[b]
  BY <1>1, <1>3 DEF GetArray, QueueKnown, BufferTypeOK, Places
<1>7. moves => queued'[b]
  BY <1>1, <1>3, <1>6 DEF MovesFrom, QueueKnown, BufferTypeOK, Places
<1>8. moves => TransferFaults(from, there, requisition[b], requisition[b], TRUE) = {}
  <2> HIDE DEF there, from, moves
  <2>1. Size(requisition[b]) \in Nat
    BY <1>1, SizeIsNat
  <2>2. ~ (Size(requisition[b]) < Size(requisition[b]))
    BY <2>1
  <2> QED
    BY <1>1, <1>2, <1>5, <2>2, TransferIsGood
<1>9. /\ gets \in Memories /\ gets # Null
      /\ gets.elements = Size(requisition[b])
      /\ gets.lent = there.lent
      /\ moves => gets.data = from.data
  <2> HIDE DEF there, from, moves
  <2>1. CASE moves
    <3>1. PICK x \in Memories, y \in Memories, r \in Requisitions :
             x = from /\ y = there /\ r = requisition[b]
      BY <1>1, <1>2, <1>5, <2>1
    <3>2. gets = Transferred(x, y, r)
      BY <2>1, <3>1
    <3> HIDE DEF gets
    <3> QED
      BY <1>2, <3>1, <3>2, TransferIsMemory
  <2>2. CASE ~ moves
    BY <1>2, <2>2
  <2> QED
    BY <2>1, <2>2
<1>10. NoBadTransfer'
  <2>1. queued'[b] \in BOOLEAN
    BY <1>3 DEF BufferTypeOK
  <2>2. moves => TransferFaults(from, there, requisition[b], requisition[b], queued'[b]) = {}
    BY <1>7, <1>8, <2>1
  <2> QED
    BY <2>2 DEF GetArray, NoBadTransfer
<1> HIDE DEF there, from, moves, gets
<1>11. BufferTypeOK'
  BY <1>3, <1>9 DEF BufferTypeOK
<1>12. \A c \in Buffers : \A q \in Places :
          memory'[c][q] = IF c = b /\ q = p THEN gets ELSE memory[c][q]
  BY <1>3 DEF BufferTypeOK
<1>13. \A c \in Buffers :
          /\ location'[c] = IF c = b THEN p ELSE location[c]
          /\ last_location'[c] = IF c = b THEN location[b] ELSE last_location[c]
          /\ queued[c] => queued'[c]
  BY <1>3 DEF BufferTypeOK
<1>14. Owned'
  BY <1>3, <1>9, <1>12, <1>13 DEF Owned, Places
<1>15. Present'
  BY <1>3, <1>9, <1>12, <1>13 DEF Present
<1>16. LastPresent'
  BY <1>3, <1>9, <1>12, <1>13 DEF LastPresent, Present
<1>17. NoResizedImage'
  BY <1>3, <1>13, ProfileOf DEF NoResizedImage, GetArray
<1>18. QueueKnown'
  BY <1>6, <1>13 DEF QueueKnown
<1>19. HoldsLastWrite'
  <2>1. written[b] # Blank => gets.data = written[b]
    BY <1>9 DEF HoldsLastWrite, MovesFrom, moves, from, gets, there
  <2> QED
    BY <1>3, <1>9, <1>12, <1>13, <2>1 DEF HoldsLastWrite
<1>20. Fits'
  BY <1>3, <1>9, <1>12 DEF Fits
<1>21. OwnsHost'
  <2>1. p = "host" => (free[b] <=> ~ gets.lent)
    <3>1. free[b] \in BOOLEAN /\ (memory[b][p] # Null => memory[b][p] \in Memories)
      BY DEF BufferTypeOK
    <3>2. CASE memory[b][p] = Null
      BY <1>2, <1>9, <3>1, <3>2 DEF Owned
    <3>3. CASE memory[b][p] # Null
      BY <1>2, <1>9, <3>1, <3>3 DEF OwnsHost, Memories
    <3> QED
      BY <3>2, <3>3
  <2> QED
    BY <1>3, <1>12, <2>1 DEF OwnsHost, Places
<1> QED
  BY <1>10, <1>11, <1>14, <1>15, <1>16, <1>17, <1>18, <1>19, <1>20, <1>21

(* Somebody puts new data into the memory at p, which is valid from then on *)
(* if it was not before.                                                    *)
LEMMA PutInv ==
    ASSUME BufferInv, NEW b \in Buffers, NEW p \in Places, NEW v \in Value, NEW m \in Memories,
           m.elements = Size(requisition[b]), m.data = v,
           memory' = [memory EXCEPT ![b][p] = m],
           written' = [written EXCEPT ![b] = v],
           \/ location[b] = p /\ UNCHANGED <<location, last_location>>
           \/ UpdateLocation(b, p),
           UNCHANGED <<requisition, queued, may, faults>>,
           free' \in [Buffers -> BOOLEAN],
           \A c \in Buffers \ {b} : free'[c] = free[c],
           IF p = "host" THEN free'[b] <=> ~ m.lent ELSE free'[b] = free[b],
           ~ free'[b] => "lend" \in may,
           p # "host" => queued[b],
           p = "image" => "resize" \notin may
    PROVE  BufferInv'
<1> USE DEF BufferInv
<1>1. m # Null
  BY BufferAssumption
<1>2. BufferTypeOK'
  <2>1. memory' \in [Buffers -> [Places -> Memories \cup {Null}]]
    BY DEF BufferTypeOK
  <2>2. /\ location' \in [Buffers -> Places \cup {"invalid"}]
        /\ last_location' \in [Buffers -> Places \cup {"invalid"}]
    <3>1. CASE UpdateLocation(b, p)
      BY <3>1 DEF BufferTypeOK, UpdateLocation
    <3>2. CASE UNCHANGED <<location, last_location>>
      BY <3>2 DEF BufferTypeOK
    <3> QED
      BY <3>1, <3>2
  <2>3. written' \in [Buffers -> Value \cup {Blank}]
    BY DEF BufferTypeOK
  <2> QED
    BY <2>1, <2>2, <2>3 DEF BufferTypeOK
<1>3. \A c \in Buffers : \A q \in Places :
          memory'[c][q] = IF c = b /\ q = p THEN m ELSE memory[c][q]
  BY DEF BufferTypeOK
<1>4. \A c \in Buffers :
          /\ location'[c] = IF c = b THEN p ELSE location[c]
          /\ last_location'[c] \in {last_location[c], location[c]}
          /\ written'[c] = IF c = b THEN v ELSE written[c]
  BY DEF BufferTypeOK, UpdateLocation
<1>5. Owned'
  BY <1>1, <1>3, <1>4 DEF Owned, Places
<1>6. Present'
  BY <1>1, <1>3, <1>4 DEF Present
<1>7. LastPresent'
  BY <1>1, <1>3, <1>4 DEF LastPresent, Present
<1>8. NoResizedImage'
  BY <1>4 DEF NoResizedImage
<1>9. QueueKnown'
  <2>1. ASSUME NEW c \in Buffers,
               {location'[c], last_location'[c]} \cap {"device", "image"} # {}
        PROVE  queued[c]
    <3>1. CASE c = b /\ p # "host"
      BY <3>1
    <3>2. CASE ~ (c = b /\ p # "host")
      BY <1>4, <2>1, <3>2 DEF QueueKnown
    <3> QED
      BY <3>1, <3>2
  <2> QED
    BY <2>1 DEF QueueKnown
<1>10. HoldsLastWrite'
  BY <1>1, <1>3, <1>4 DEF HoldsLastWrite
<1>11. Fits'
  BY <1>3 DEF Fits
<1>12. OwnsHost'
  BY <1>3 DEF OwnsHost, Places
<1>13. NoBadTransfer'
  BY DEF NoBadTransfer
<1> QED
  BY <1>2, <1>5, <1>6, <1>7, <1>8, <1>9, <1>10, <1>11, <1>12, <1>13

(* A write goes to the memory that is valid. *)
LEMMA WriteInv ==
    ASSUME Compatible, BufferInv, NEW b \in Buffers, NEW v \in Value, Write(b, v)
    PROVE  BufferInv'
<1> USE DEF BufferInv
<1>1. PICK p \in Places : p = location[b]
  BY DEF Write
<1>2. memory[b][p] # Null
  BY <1>1 DEF Write
<1>3. memory[b][p] \in Memories /\ memory[b][p].elements = Size(requisition[b])
  BY <1>2, MemoryOf
<1>4. PICK m \in Memories : m = [memory[b][p] EXCEPT !.data = v]
  BY <1>3 DEF Memories
<1>5. m.elements = Size(requisition[b]) /\ m.data = v /\ m.lent = memory[b][p].lent
  BY <1>3, <1>4 DEF Memories
<1>6. memory' = [memory EXCEPT ![b][p] = m]
  BY <1>1, <1>4 DEF Write, BufferTypeOK
<1>7. IF p = "host" THEN free[b] <=> ~ m.lent ELSE TRUE
  BY <1>2, <1>5 DEF OwnsHost
<1>8. ~ free[b] => "lend" \in may
  BY DEF Owned
<1>9. p # "host" => queued[b]
  BY <1>1 DEF QueueKnown, Places
<1>10. p = "image" => "resize" \notin may
  BY <1>1 DEF NoResizedImage
<1>11. /\ free' \in [Buffers -> BOOLEAN] /\ free' = free
       /\ location[b] = p /\ UNCHANGED <<location, last_location>>
       /\ UNCHANGED <<requisition, queued, may, faults>>
       /\ written' = [written EXCEPT ![b] = v]
  BY <1>1 DEF Write, BufferTypeOK
<1> HIDE DEF BufferInv
<1> QED
  BY <1>5, <1>6, <1>7, <1>8, <1>9, <1>10, <1>11, PutInv

(* A conversion puts the pixels into the host array, as a write does. *)
LEMMA ConvertInv ==
    ASSUME Compatible, BufferInv, NEW b \in Buffers, NEW v \in Value, NEW d \in Depths,
           Convert(b, v, d)
    PROVE  BufferInv'
<1> USE DEF BufferInv
<1>1. memory[b]["host"] # Null /\ "host" \in Places
  BY DEF Convert, Places
<1>2. memory[b]["host"] \in Memories
  BY <1>1, MemoryOf
<1>3. ConvertsRight(d, memory[b]["host"].elements)
  BY <1>2, ConversionInPlace DEF Memories
<1>4. memory' = [memory EXCEPT ![b]["host"].data = v]
  BY <1>3 DEF Convert
<1>5. Write(b, v)
  BY <1>1, <1>4 DEF Convert, Write
<1> QED
  BY <1>5, WriteInv

LEMMA ConvertFromDataInv ==
    ASSUME Compatible, BufferInv, NEW b \in Buffers, NEW v \in Value, ConvertFromData(b, v)
    PROVE  BufferInv'
<1> USE DEF BufferInv
<1>1. requisition[b] \in Requisitions /\ "host" \in Places
  BY DEF BufferTypeOK, Places
<1>2. memory[b]["host"] # Null => memory[b]["host"] \in Memories
  BY <1>1, MemoryOf
<1>3. PICK lent \in BOOLEAN :
         lent = IF memory[b]["host"] = Null THEN FALSE ELSE memory[b]["host"].lent
  BY <1>2 DEF Memories
<1>4. PICK m \in Memories : m = Memory(Size(requisition[b]), v, lent)
  BY <1>1, MemoryIsMemory
<1>5. m.elements = Size(requisition[b]) /\ m.data = v /\ m.lent = lent
  BY <1>4 DEF Memory
<1>6. memory' = [memory EXCEPT ![b]["host"] = m]
  BY <1>1, <1>3, <1>4 DEF ConvertFromData, BufferTypeOK
<1>7. free[b] <=> ~ m.lent
  BY <1>1, <1>3, <1>5 DEF OwnsHost, Owned, BufferTypeOK
<1>8. ~ free[b] => "lend" \in may
  BY DEF Owned
<1> QED
  BY <1>1, <1>5, <1>6, <1>7, <1>8, PutInv DEF ConvertFromData, BufferTypeOK

(* Memory of the caller takes the place of the buffer's. *)
LEMMA SetHostArrayInv ==
    ASSUME Compatible, BufferInv, NEW b \in Buffers, NEW v \in Value, NEW lent \in BOOLEAN,
           SetHostArray(b, v, lent)
    PROVE  BufferInv'
<1> USE DEF BufferInv
<1>1. requisition[b] \in Requisitions /\ "host" \in Places
  BY DEF BufferTypeOK, Places
<1>2. PICK m \in Memories : m = Memory(Size(requisition[b]), v, lent)
  BY <1>1, MemoryIsMemory
<1>3. m.elements = Size(requisition[b]) /\ m.data = v /\ m.lent = lent
  BY <1>2 DEF Memory
<1>4. memory' = [memory EXCEPT ![b]["host"] = m]
  BY <1>2 DEF SetHostArray
<1>5. free' = [free EXCEPT ![b] = ~ lent] /\ free \in [Buffers -> BOOLEAN]
  BY DEF SetHostArray, BufferTypeOK
<1>6. /\ free' \in [Buffers -> BOOLEAN]
      /\ \A c \in Buffers \ {b} : free'[c] = free[c]
      /\ free'[b] <=> ~ m.lent
  BY <1>3, <1>5
<1> QED
  BY <1>1, <1>3, <1>4, <1>6, PutInv DEF SetHostArray

LEMMA SetDeviceArrayInv ==
    ASSUME Compatible, BufferInv, NEW b \in Buffers, NEW v \in Value, SetDeviceArray(b, v)
    PROVE  BufferInv'
<1> USE DEF BufferInv
<1>1. requisition[b] \in Requisitions /\ "device" \in Places
  BY DEF BufferTypeOK, Places
<1>2. PICK m \in Memories : m = Memory(Size(requisition[b]), v, FALSE)
  BY <1>1, MemoryIsMemory
<1>3. m.elements = Size(requisition[b]) /\ m.data = v
  BY <1>2 DEF Memory
<1>4. memory' = [memory EXCEPT ![b]["device"] = m]
  BY <1>2 DEF SetDeviceArray
<1>5. ~ free[b] => "lend" \in may
  BY DEF Owned
<1>6. /\ free' \in [Buffers -> BOOLEAN] /\ free' = free
      /\ UpdateLocation(b, "device")
      /\ UNCHANGED <<requisition, queued, may, faults>>
      /\ written' = [written EXCEPT ![b] = v]
      /\ queued[b]
  BY DEF SetDeviceArray, BufferTypeOK
<1> HIDE DEF BufferInv
<1> QED
  BY <1>1, <1>3, <1>4, <1>5, <1>6, PutInv

(* After a resize there is no memory left, since the buffer owns its host  *)
(* array: who resizes does not lend.                                       *)
LEMMA ResizedIsEmpty ==
    ASSUME Compatible, BufferInv, NEW b \in Buffers, "resize" \in may
    PROVE  Resized(b) = [p \in Places |-> Null]
<1>1. free[b]
  BY ProfileOf DEF BufferInv, Owned
<1> QED
  BY <1>1 DEF Resized

LEMMA ResizeInv ==
    ASSUME Compatible, BufferInv, NEW b \in Buffers, NEW r \in Requisitions, Resize(b, r)
    PROVE  BufferInv'
<1>1. "resize" \in may
  BY DEF Resize
<1>2. /\ memory' = [memory EXCEPT ![b] = [p \in Places |-> Null]]
      /\ requisition' = [requisition EXCEPT ![b] = r]
      /\ written' = [written EXCEPT ![b] = Blank]
      /\ UNCHANGED <<free, location, last_location, queued, may, faults>>
  BY <1>1, ResizedIsEmpty DEF Resize
<1> USE DEF BufferInv
<1>3. BufferTypeOK'
  BY <1>2 DEF BufferTypeOK
<1>4. \A c \in Buffers : \A q \in Places :
          memory'[c][q] = IF c = b THEN Null ELSE memory[c][q]
  BY <1>2 DEF BufferTypeOK
<1>5. \A c \in Buffers : /\ c # b => requisition'[c] = requisition[c]
                         /\ written'[c] = IF c = b THEN Blank ELSE written[c]
  BY <1>2 DEF BufferTypeOK
<1>6. \A c \in Buffers : free[c]
  BY <1>1, ProfileOf DEF Owned
<1>7. Owned' /\ Present' /\ LastPresent'
  BY <1>1, <1>2, <1>4, <1>6 DEF Owned, Present, LastPresent
<1>8. NoResizedImage' /\ QueueKnown'
  BY <1>2 DEF NoResizedImage, QueueKnown
<1>9. HoldsLastWrite'
  BY <1>2, <1>4, <1>5 DEF HoldsLastWrite
<1>10. Fits'
  BY <1>4, <1>5 DEF Fits
<1>11. OwnsHost'
  BY <1>2, <1>4 DEF OwnsHost, Places
<1>12. NoBadTransfer'
  BY <1>2 DEF NoBadTransfer
<1> QED
  BY <1>3, <1>7, <1>8, <1>9, <1>10, <1>11, <1>12

(* Back to the place before. *)
LEMMA DiscardInv ==
    ASSUME Compatible, BufferInv, NEW b \in Buffers, DiscardLocation(b)
    PROVE  BufferInv'
<1> USE DEF BufferInv
<1> DEFINE p == last_location[b]
           found == IF p = "invalid" \/ memory[b][p] = Null THEN Blank ELSE memory[b][p].data
<1>1. "discard" \in may /\ "resize" \notin may /\ "lend" \notin may
  BY ProfileOf DEF DiscardLocation
<1>2. p \in Places \cup {"invalid"}
  BY DEF BufferTypeOK
<1>3. p \in Places => memory[b][p] # Null
  BY <1>1 DEF LastPresent
<1>4. found \in Value \cup {Blank}
  <2>1. CASE p \in Places
    <3>1. memory[b][p] \in Memories
      BY <1>3, <2>1, MemoryOf
    <3> QED
      BY <1>2, <1>3, <2>1, <3>1 DEF Memories
  <2>2. CASE p = "invalid"
    BY <2>2
  <2> QED
    BY <1>2, <2>1, <2>2
<1>5. /\ location' = [location EXCEPT ![b] = p]
      /\ written' = [written EXCEPT ![b] = found]
      /\ UNCHANGED <<requisition, memory, free, last_location, queued, may, faults>>
  BY DEF DiscardLocation
<1>6. found # Blank => p \in Places /\ memory[b][p] # Null /\ memory[b][p].data = found
  BY <1>2
<1> HIDE DEF found
<1>7. BufferTypeOK'
  BY <1>2, <1>4, <1>5 DEF BufferTypeOK
<1>8. \A c \in Buffers : /\ location'[c] = IF c = b THEN last_location[b] ELSE location[c]
                         /\ written'[c] = IF c = b THEN found ELSE written[c]
  BY <1>5 DEF BufferTypeOK
<1>9. \A c \in Buffers : free[c]
  BY <1>1 DEF Owned
<1>10. Owned' /\ Present' /\ LastPresent' /\ NoResizedImage'
  BY <1>1, <1>3, <1>5, <1>8, <1>9 DEF Owned, Present, LastPresent, NoResizedImage
<1>11. QueueKnown'
  BY <1>5, <1>8 DEF QueueKnown
<1>12. HoldsLastWrite'
  BY <1>5, <1>6, <1>8 DEF HoldsLastWrite
<1>13. Fits' /\ OwnsHost' /\ NoBadTransfer'
  BY <1>5 DEF Fits, OwnsHost, NoBadTransfer
<1> QED
  BY <1>7, <1>10, <1>11, <1>12, <1>13

(* A buffer that is freed and created anew. *)
LEMMA DupInv ==
    ASSUME Compatible, BufferInv, NEW a \in Buffers, NEW b \in Buffers, Dup(a, b)
    PROVE  BufferInv'
<1> USE DEF BufferInv
<1>1. BufferTypeOK'
  BY DEF BufferTypeOK, Dup
<1>2. \A c \in Buffers : \A q \in Places :
          memory'[c][q] = IF c = b THEN Null ELSE memory[c][q]
  BY DEF BufferTypeOK, Dup
<1>3. /\ free'[b] /\ location'[b] = "invalid" /\ last_location'[b] = "invalid"
      /\ written'[b] = Blank
  BY DEF BufferTypeOK, Dup
<1>4. \A c \in Buffers \ {b} :
          /\ free'[c] = free[c] /\ location'[c] = location[c]
          /\ last_location'[c] = last_location[c] /\ written'[c] = written[c]
          /\ queued'[c] = queued[c] /\ requisition'[c] = requisition[c]
  BY DEF BufferTypeOK, Dup
<1>5. UNCHANGED <<may, faults>> /\ "invalid" \notin Places
  BY DEF Dup, Places
<1>6. Owned'
  BY <1>2, <1>3, <1>4, <1>5 DEF Owned, Places
<1>7. Present' /\ LastPresent' /\ NoResizedImage'
  BY <1>2, <1>3, <1>4, <1>5 DEF Present, LastPresent, NoResizedImage
<1>8. QueueKnown'
  BY <1>3, <1>4 DEF QueueKnown
<1>9. HoldsLastWrite'
  BY <1>2, <1>3, <1>4 DEF HoldsLastWrite
<1>10. Fits'
  BY <1>2, <1>4 DEF Fits
<1>11. OwnsHost'
  BY <1>2, <1>4 DEF OwnsHost, Places
<1>12. NoBadTransfer'
  BY <1>5 DEF NoBadTransfer
<1> QED
  BY <1>1, <1>6, <1>7, <1>8, <1>9, <1>10, <1>11, <1>12

(* Two memories of the same size change places; none of them is lent. *)
LEMMA SwapPointersInv ==
    ASSUME Compatible, BufferInv, NEW a \in Buffers, NEW b \in Buffers, SwapPointers(a, b)
    PROVE  BufferInv'
<1> USE DEF BufferInv
<1>1. "swap" \in may /\ "resize" \notin may /\ "lend" \notin may
  BY ProfileOf DEF SwapPointers
<1>2. PICK p \in Places : p = location[a]
  BY DEF SwapPointers
<1>3. /\ a # b /\ location[b] = p /\ requisition[a] = requisition[b]
      /\ memory' = [memory EXCEPT ![a][p] = memory[b][p], ![b][p] = memory[a][p]]
      /\ written' = [written EXCEPT ![a] = written[b], ![b] = written[a]]
      /\ UNCHANGED <<requisition, free, location, last_location, queued, may, faults>>
  BY <1>2 DEF SwapPointers
<1>4. \A c \in Buffers : free[c]
  BY <1>1 DEF Owned
<1>5. memory[a][p] # Null /\ memory[b][p] # Null
  BY <1>1, <1>2, <1>3 DEF Present
<1>6. BufferTypeOK'
  <2> DEFINE M == [Buffers -> [Places -> Memories \cup {Null}]]
  <2>1. PICK x \in Memories \cup {Null}, y \in Memories \cup {Null} :
           x = memory[a][p] /\ y = memory[b][p]
    BY DEF BufferTypeOK
  <2>2. memory \in M
    BY DEF BufferTypeOK
  <2>3. PICK m \in M : m = [memory EXCEPT ![a][p] = y]
    BY <2>2
  <2>4. [m EXCEPT ![b][p] = x] \in M
    OBVIOUS
  <2>5. memory' \in M
    BY <1>3, <2>1, <2>3, <2>4
  <2> QED
    BY <1>3, <2>5 DEF BufferTypeOK
<1>7. /\ \A q \in Places : /\ memory'[a][q] = IF q = p THEN memory[b][q] ELSE memory[a][q]
                           /\ memory'[b][q] = IF q = p THEN memory[a][q] ELSE memory[b][q]
      /\ \A c \in Buffers \ {a, b} : memory'[c] = memory[c]
  BY <1>3 DEF BufferTypeOK
<1>8. /\ written'[a] = written[b] /\ written'[b] = written[a]
      /\ \A c \in Buffers \ {a, b} : written'[c] = written[c]
  BY <1>3 DEF BufferTypeOK
<1>9. \A c \in Buffers : \A q \in Places : memory[c][q] # Null => memory'[c][q] # Null
  BY <1>5, <1>7
<1>10. Owned' /\ Present' /\ LastPresent' /\ NoResizedImage'
  BY <1>1, <1>3, <1>4, <1>9 DEF Owned, Present, LastPresent, NoResizedImage
<1>11. QueueKnown'
  BY <1>3 DEF QueueKnown
<1>12. HoldsLastWrite'
  <2>1. /\ written[a] # Blank => memory[a][p].data = written[a]
        /\ written[b] # Blank => memory[b][p].data = written[b]
    BY <1>2, <1>3 DEF HoldsLastWrite
  <2>2. /\ written'[a] # Blank => memory'[a][p].data = written'[a]
        /\ written'[b] # Blank => memory'[b][p].data = written'[b]
    BY <1>7, <1>8, <2>1
  <2>3. location'[a] = p /\ location'[b] = p
    BY <1>2, <1>3
  <2>4. memory'[a][p] # Null /\ memory'[b][p] # Null
    BY <1>5, <1>9
  <2>5. ASSUME NEW c \in Buffers \ {a, b}, written'[c] # Blank
        PROVE  /\ location'[c] \in Places
               /\ memory'[c][location'[c]] # Null
               /\ memory'[c][location'[c]].data = written'[c]
    <3>1. memory'[c] = memory[c] /\ written'[c] = written[c] /\ location'[c] = location[c]
      BY <1>3, <1>7, <1>8
    <3> QED
      BY <2>5, <3>1 DEF HoldsLastWrite
  <2> QED
    BY <2>2, <2>3, <2>4, <2>5 DEF HoldsLastWrite
<1>13. Fits'
  <2>1. ASSUME NEW q \in Places
        PROVE  /\ memory'[a][q] # Null => memory'[a][q].elements = Size(requisition[a])
               /\ memory'[b][q] # Null => memory'[b][q].elements = Size(requisition[b])
    <3>1. /\ memory[a][q] # Null => memory[a][q].elements = Size(requisition[a])
          /\ memory[b][q] # Null => memory[b][q].elements = Size(requisition[a])
      BY <1>3 DEF Fits
    <3>2. /\ memory'[a][q] \in {memory[a][q], memory[b][q]}
          /\ memory'[b][q] \in {memory[a][q], memory[b][q]}
      BY <1>7
    <3> QED
      BY <1>3, <3>1, <3>2
  <2>2. ASSUME NEW c \in Buffers \ {a, b}, NEW q \in Places
        PROVE  memory'[c][q] # Null => memory'[c][q].elements = Size(requisition[c])
    BY <1>7 DEF Fits
  <2>3. requisition' = requisition
    BY <1>3
  <2>4. ASSUME NEW c \in Buffers, NEW q \in Places
        PROVE  memory'[c][q] # Null => memory'[c][q].elements = Size(requisition'[c])
    BY <2>1, <2>2, <2>3
  <2> QED
    BY <2>4 DEF Fits
<1>14. OwnsHost'
  <2>1. \A c \in Buffers : memory[c]["host"] # Null => ~ memory[c]["host"].lent
    BY <1>4 DEF OwnsHost
  <2>2. \A c \in Buffers : memory'[c]["host"] # Null => ~ memory'[c]["host"].lent
    <3>1. \A c \in Buffers : memory'[c]["host"] \in
             {memory[c]["host"], memory[a]["host"], memory[b]["host"]}
      BY <1>7 DEF Places
    <3> QED
      BY <2>1, <3>1
  <2> QED
    BY <1>3, <1>4, <2>2 DEF OwnsHost
<1>15. NoBadTransfer'
  BY <1>3 DEF NoBadTransfer
<1> QED
  BY <1>6, <1>10, <1>11, <1>12, <1>13, <1>14, <1>15

(* What a copy does: from and to are the memories it moves data between,   *)
(* at source and target, left is what the resize leaves of b, and size is  *)
(* the size of b then.                                                     *)
CopyStep(a, b, source, target, from, to, left, size) ==
    /\ a # b
    /\ IF location[a] = "invalid"
         THEN /\ source = "host" /\ ~ from.lent /\ from.data = Blank
              /\ written[a] = Blank
         ELSE /\ source = location[a] /\ from = memory[a][source]
              /\ from.data = written[a]
    /\ from.elements = Size(requisition[a]) /\ to.elements = Size(size)
    /\ \/ size = requisition[a]
       \/ size = requisition[b] /\ Difference(size, requisition[a]) = 0
    /\ \A p \in Places : left[p] \in {memory[b][p], Null}
    /\ \A p \in Places : left[p] # Null => size = requisition[b]
    /\ "resize" \notin may => left = memory[b]
    /\ IF CopyAllocates(location[b], left)
         THEN target = source /\ ~ to.lent
         ELSE target = location[b] /\ to = left[target]
    /\ memory' = [memory EXCEPT
                    ![a][source] = from,
                    ![b] = [left EXCEPT ![target] = Transferred(from, to, requisition[a])]]
    /\ requisition' = [requisition EXCEPT ![b] = size]
    /\ location' = [location EXCEPT ![a] = source, ![b] = target]
    /\ queued' = [queued EXCEPT ![b] = queued[a] \/ queued[b]]
    /\ faults' = faults \cup
                   TransferFaults(from, to, requisition[a], size,
                                  (queued[a] \/ queued[b]) \/ {source, target} = {"host"})
    /\ written' = [written EXCEPT ![b] = IF size = requisition[a] THEN written[a] ELSE Blank]
    /\ UNCHANGED <<free, last_location, may>>

LEMMA CopyIsStep ==
    ASSUME Compatible, BufferInv, NEW a \in Buffers, NEW b \in Buffers,
           Copy(a, b)
    PROVE  \E source, target \in Places : \E from, to \in Memories :
              \E left \in [Places -> Memories \cup {Null}] : \E size \in Requisitions :
                 CopyStep(a, b, source, target, from, to, left, size)
<1> DEFINE fresh == location[a] = "invalid"
           src == IF fresh THEN "host" ELSE location[a]
           fr == IF fresh THEN Alloc(a, requisition[a]) ELSE memory[a][src]
           differs == CompareDimensions(b, requisition[a]) # 0
           lf == IF differs THEN Resized(b) ELSE memory[b]
           sz == IF differs THEN requisition[a] ELSE requisition[b]
           allocates == CopyAllocates(location[b], lf)
           tgt == IF allocates THEN src ELSE location[b]
           t == IF allocates THEN Alloc(b, sz) ELSE lf[tgt]
<1> USE DEF BufferInv
<1>1. /\ location[a] \in Places \cup {"invalid"} /\ location[b] \in Places \cup {"invalid"}
      /\ requisition[a] \in Requisitions /\ requisition[b] \in Requisitions
      /\ "host" \in Places /\ "invalid" \notin Places
      /\ memory[b] \in [Places -> Memories \cup {Null}]
  BY DEF BufferTypeOK, Places
<1>2. /\ a # b
      /\ fresh \/ written[a] # Blank
      /\ differs \/ requisition[a] # requisition[b] => "resize" \in may
      /\ memory' = [memory EXCEPT ![a][src] = fr,
                                  ![b] = [lf EXCEPT ![tgt] = Transferred(fr, t, requisition[a])]]
      /\ requisition' = [requisition EXCEPT ![b] = sz]
      /\ location' = [location EXCEPT ![a] = src, ![b] = tgt]
      /\ queued' = [queued EXCEPT ![b] = queued[a] \/ queued[b]]
      /\ faults' = faults \cup
                     TransferFaults(fr, t, requisition[a], sz,
                                    (queued[a] \/ queued[b]) \/ {src, tgt} = {"host"})
      /\ written' = [written EXCEPT ![b] = IF sz = requisition[a] THEN written[a] ELSE Blank]
      /\ UNCHANGED <<free, last_location, may>>
  BY DEF Copy
<1>3. \/ sz = requisition[a] /\ differs
      \/ sz = requisition[b] /\ ~ differs /\ Difference(sz, requisition[a]) = 0
  BY DEF CompareDimensions
<1>4. PICK size \in Requisitions : size = sz
  BY <1>1
<1>5. PICK source \in Places : source = src
  BY <1>1
<1>6. /\ fr \in Memories /\ fr.elements = Size(requisition[a])
      /\ IF fresh THEN ~ fr.lent /\ fr.data = Blank /\ written[a] = Blank
         ELSE fr = memory[a][src] /\ fr.data = written[a]
  <2>1. CASE fresh
    <3>1. written[a] = Blank
      BY <1>1, <2>1 DEF HoldsLastWrite
    <3> QED
      BY <1>1, <2>1, <3>1, AllocIsMemory
  <2>2. CASE ~ fresh
    <3>1. memory[a][source] # Null /\ memory[a][source].data = written[a]
      BY <1>2, <1>5, <2>2 DEF HoldsLastWrite
    <3> QED
      BY <1>5, <2>2, <3>1, MemoryOf
  <2> QED
    BY <2>1, <2>2
<1>7. /\ differs => "resize" \in may /\ lf = [p \in Places |-> Null]
      /\ ~ differs => lf = memory[b]
  BY <1>2, ResizedIsEmpty
<1>8. PICK left \in [Places -> Memories \cup {Null}] : left = lf
  BY <1>1, <1>7
<1>9. /\ \A p \in Places : left[p] \in {memory[b][p], Null}
      /\ \A p \in Places : left[p] # Null => size = requisition[b]
      /\ "resize" \notin may => left = memory[b]
  BY <1>3, <1>4, <1>7, <1>8
<1>10. ~ allocates => location[b] \in Places /\ left[location[b]] # Null
  <2>1. CASE differs
    BY <1>7, <1>8, <2>1 DEF CopyAllocates
  <2>2. CASE ~ differs
    BY <1>1, <1>7, <1>8, <2>2 DEF CopyAllocates, Present
  <2> QED
    BY <2>1, <2>2
<1>11. PICK target \in Places : target = tgt
  BY <1>1, <1>10
<1>12. /\ t \in Memories /\ t.elements = Size(size)
       /\ IF allocates THEN target = source /\ ~ t.lent
          ELSE target = location[b] /\ t = left[target]
  <2>1. CASE allocates
    <3>1. t = Alloc(b, size) /\ target = source
      BY <1>4, <1>5, <1>11, <2>1
    <3> HIDE DEF t, tgt, src, lf, sz, differs, allocates
    <3>2. Alloc(b, size) \in Memories /\ ~ Alloc(b, size).lent
      BY AllocIsMemory
    <3>3. Alloc(b, size).elements = Size(size)
      BY AllocIsMemory
    <3> QED
      BY <2>1, <3>1, <3>2, <3>3
  <2>2. CASE ~ allocates
    <3>1. target = location[b] /\ t = left[target] /\ left[target] # Null
      BY <1>8, <1>10, <1>11, <2>2
    <3>2. left[target] = memory[b][target] /\ size = requisition[b]
      BY <1>9, <3>1
    <3>3. memory[b][target] \in Memories /\ memory[b][target].elements = Size(requisition[b])
      BY <3>1, <3>2, MemoryOf
    <3> QED
      BY <2>2, <3>1, <3>2, <3>3
  <2> QED
    BY <2>1, <2>2
<1>13. PICK from \in Memories, to \in Memories : from = fr /\ to = t
  BY <1>6, <1>12
<1>14. CopyStep(a, b, source, target, from, to, left, size)
  <2>1. IF fresh THEN /\ source = "host" /\ ~ from.lent /\ from.data = Blank
                      /\ written[a] = Blank
        ELSE /\ source = location[a] /\ from = memory[a][source]
             /\ from.data = written[a]
    BY <1>5, <1>6, <1>13
  <2>2. from.elements = Size(requisition[a]) /\ to.elements = Size(size)
    BY <1>6, <1>12, <1>13
  <2>3. IF CopyAllocates(location[b], left) THEN target = source /\ ~ to.lent
        ELSE target = location[b] /\ to = left[target]
    BY <1>8, <1>12, <1>13
  <2>4. \/ size = requisition[a]
        \/ size = requisition[b] /\ Difference(size, requisition[a]) = 0
    BY <1>3, <1>4
  <2> HIDE DEF src, fr, differs, lf, sz, tgt, t
  <2>5. /\ memory' = [memory EXCEPT
                        ![a][source] = from,
                        ![b] = [left EXCEPT ![target] = Transferred(from, to, requisition[a])]]
        /\ requisition' = [requisition EXCEPT ![b] = size]
        /\ location' = [location EXCEPT ![a] = source, ![b] = target]
        /\ faults' = faults \cup
                       TransferFaults(from, to, requisition[a], size,
                                      (queued[a] \/ queued[b]) \/ {source, target} = {"host"})
        /\ written' = [written EXCEPT ![b] = IF size = requisition[a] THEN written[a] ELSE Blank]
    BY <1>2, <1>4, <1>5, <1>8, <1>11, <1>13
  <2> QED
    BY <1>2, <1>9, <2>1, <2>2, <2>3, <2>4, <2>5 DEF CopyStep
<1> QED
  BY <1>14

LEMMA CopyInv ==
    ASSUME Compatible, BufferInv, NEW a \in Buffers, NEW b \in Buffers,
           Copy(a, b)
    PROVE  BufferInv'
<1>1. PICK source \in Places, target \in Places :
         \E from, to \in Memories : \E left \in [Places -> Memories \cup {Null}] :
            \E size \in Requisitions :
               CopyStep(a, b, source, target, from, to, left, size)
  BY CopyIsStep
<1>2. PICK from \in Memories, to \in Memories :
         \E left \in [Places -> Memories \cup {Null}] : \E size \in Requisitions :
            CopyStep(a, b, source, target, from, to, left, size)
  BY <1>1
<1>3. PICK left \in [Places -> Memories \cup {Null}], size \in Requisitions :
         CopyStep(a, b, source, target, from, to, left, size)
  BY <1>2
<1> USE DEF BufferInv
<1>4. /\ a # b /\ "invalid" \notin Places /\ "host" \in Places
      /\ requisition[a] \in Requisitions
      /\ UNCHANGED <<free, last_location, may>>
  BY <1>3 DEF CopyStep, Places, BufferTypeOK
<1>5. PICK m \in Memories : m = Transferred(from, to, requisition[a])
  BY <1>4, TransferIsMemory
<1>6. /\ m.elements = Size(size) /\ m.lent = to.lent
      /\ m.data = IF Size(size) = Size(requisition[a]) THEN from.data ELSE Blank
      /\ m # Null /\ from # Null
  <2>1. to.elements = Size(size)
    BY <1>3 DEF CopyStep
  <2> QED
    BY <1>4, <1>5, <2>1, TransferIsMemory, BufferAssumption
<1>7. BufferTypeOK'
  <2> DEFINE M == [Buffers -> [Places -> Memories \cup {Null}]]
  <2>1. PICK new \in [Places -> Memories \cup {Null}] : new = [left EXCEPT ![target] = m]
    OBVIOUS
  <2>2. memory \in M /\ memory' = [memory EXCEPT ![a][source] = from, ![b] = new]
    BY <1>3, <1>5, <2>1 DEF CopyStep, BufferTypeOK
  <2>3. PICK one \in M : one = [memory EXCEPT ![a][source] = from]
    BY <2>2
  <2>4. memory' \in M
    BY <2>2, <2>3
  <2>5. written' \in [Buffers -> Value \cup {Blank}]
    BY <1>3 DEF CopyStep, BufferTypeOK
  <2> QED
    BY <1>3, <1>4, <2>4, <2>5 DEF CopyStep, BufferTypeOK
<1>8. \A q \in Places : /\ memory'[a][q] = IF q = source THEN from ELSE memory[a][q]
                        /\ memory'[b][q] = IF q = target THEN m ELSE left[q]
  BY <1>3, <1>4, <1>5 DEF CopyStep, BufferTypeOK
<1>9. /\ location'[a] = source /\ location'[b] = target
      /\ queued'[a] = queued[a] /\ queued'[b] = (queued[a] \/ queued[b])
      /\ written'[a] = written[a]
      /\ written'[b] = IF size = requisition[a] THEN written[a] ELSE Blank
      /\ requisition'[a] = requisition[a] /\ requisition'[b] = size
  BY <1>3, <1>4 DEF CopyStep, BufferTypeOK
<1>10. \A c \in Buffers \ {a, b} :
          /\ memory'[c] = memory[c] /\ location'[c] = location[c] /\ queued'[c] = queued[c]
          /\ written'[c] = written[c] /\ requisition'[c] = requisition[c]
  BY <1>3, <1>4 DEF CopyStep, BufferTypeOK
<1>11. \A q \in Places : memory[a][q] # Null => memory'[a][q] # Null
  BY <1>6, <1>8
<1>12. "resize" \notin may =>
          \A q \in Places : memory[b][q] # Null => memory'[b][q] # Null
  BY <1>3, <1>6, <1>8 DEF CopyStep
<1>13. /\ source # "host" => queued[a]
       /\ target # "host" => queued[a] \/ queued[b]
  <2>1. source # "host" => source = location[a] /\ source \in {"device", "image"}
    BY <1>3 DEF CopyStep, Places
  <2>2. source # "host" => queued[a]
    BY <2>1 DEF QueueKnown
  <2>3. target = source \/ target = location[b]
    BY <1>3 DEF CopyStep
  <2>4. target # "host" => target \in {"device", "image"}
    BY DEF Places
  <2> QED
    BY <2>2, <2>3, <2>4 DEF QueueKnown
<1>14. Owned'
  <2>1. ~ free[a] => memory'[a]["host"] # Null
    BY <1>4, <1>11 DEF Owned
  <2>2. ~ free[b] => memory'[b]["host"] # Null
    <3>1. "lend" \in may => "resize" \notin may
      BY ProfileOf
    <3> QED
      BY <1>4, <1>12, <3>1 DEF Owned
  <2>3. ASSUME NEW c \in Buffers \ {a, b}, ~ free[c]
        PROVE  "lend" \in may /\ location'[c] # "invalid" /\ memory'[c]["host"] # Null
    BY <1>10, <2>3 DEF Owned
  <2> QED
    BY <1>4, <1>9, <2>1, <2>2, <2>3 DEF Owned
<1>15. Present'
  <2>1. memory'[a][location'[a]] # Null /\ memory'[b][location'[b]] # Null
    BY <1>6, <1>8, <1>9
  <2>2. ASSUME NEW c \in Buffers \ {a, b}, location'[c] \in Places
        PROVE  \/ memory'[c][location'[c]] # Null
               \/ "resize" \in may /\ \A p \in Places : memory'[c][p] = Null
    BY <1>10, <2>2 DEF Present
  <2> QED
    BY <1>4, <2>1, <2>2 DEF Present
<1>16. LastPresent'
  <2>1. ASSUME "resize" \notin may, NEW c \in Buffers, last_location[c] \in Places
        PROVE  memory'[c][last_location[c]] # Null
    <3>1. memory[c][last_location[c]] # Null
      BY <2>1 DEF LastPresent
    <3> QED
      BY <1>10, <1>11, <1>12, <2>1, <3>1
  <2> QED
    BY <1>4, <2>1 DEF LastPresent
<1>17. NoResizedImage'
  <2>1. location[a] # "image" => source # "image"
    BY <1>3 DEF CopyStep
  <2>2. target \in {source, location[b]}
    BY <1>3 DEF CopyStep
  <2> QED
    BY <1>4, <1>9, <1>10, <2>1, <2>2 DEF NoResizedImage
<1>18. QueueKnown'
  <2>1. ASSUME NEW c \in Buffers,
               {location'[c], last_location[c]} \cap {"device", "image"} # {}
        PROVE  queued'[c]
    <3>1. CASE last_location[c] \in {"device", "image"}
      <4>1. queued[c]
        BY <3>1 DEF QueueKnown
      <4> QED
        BY <1>9, <1>10, <4>1
    <3>2. CASE location'[c] \in {"device", "image"} /\ c \in {a, b}
      BY <1>9, <1>13, <3>2
    <3>3. CASE location'[c] \in {"device", "image"} /\ c \notin {a, b}
      BY <1>10, <3>3 DEF QueueKnown
    <3> QED
      BY <2>1, <3>1, <3>2, <3>3
  <2> QED
    BY <1>4, <2>1 DEF QueueKnown
<1>19. HoldsLastWrite'
  <2>1. written[a] # Blank => from.data = written[a]
    BY <1>3 DEF CopyStep
  <2>2. /\ written[a] # Blank => memory'[a][source].data = written[a]
        /\ written'[b] # Blank => memory'[b][target].data = written'[b]
    BY <1>6, <1>8, <1>9, <2>1
  <2>3. memory'[a][source] # Null /\ memory'[b][target] # Null
    BY <1>6, <1>8
  <2>4. ASSUME NEW c \in Buffers \ {a, b}, written'[c] # Blank
        PROVE  /\ location'[c] \in Places
               /\ memory'[c][location'[c]] # Null
               /\ memory'[c][location'[c]].data = written'[c]
    BY <1>10, <2>4 DEF HoldsLastWrite
  <2> QED
    BY <1>9, <2>2, <2>3, <2>4 DEF HoldsLastWrite
<1>20. Fits'
  <2>1. ASSUME NEW q \in Places, memory'[a][q] # Null
        PROVE  memory'[a][q].elements = Size(requisition[a])
    <3>1. from.elements = Size(requisition[a])
      BY <1>3 DEF CopyStep
    <3> QED
      BY <1>8, <2>1, <3>1 DEF Fits
  <2>2. ASSUME NEW q \in Places, memory'[b][q] # Null
        PROVE  memory'[b][q].elements = Size(size)
    <3>1. CASE q = target
      BY <1>6, <1>8, <3>1
    <3>2. CASE q # target
      <4>1. left[q] # Null /\ memory'[b][q] = left[q]
        BY <1>8, <2>2, <3>2
      <4>2. left[q] = memory[b][q] /\ requisition[b] = size
        BY <1>3, <4>1 DEF CopyStep
      <4> QED
        BY <4>1, <4>2 DEF Fits
    <3> QED
      BY <3>1, <3>2
  <2>3. ASSUME NEW c \in Buffers \ {a, b}, NEW q \in Places, memory'[c][q] # Null
        PROVE  memory'[c][q].elements = Size(requisition'[c])
    BY <1>10, <2>3 DEF Fits
  <2> QED
    BY <1>9, <2>1, <2>2, <2>3 DEF Fits
<1>21. OwnsHost'
  <2>1. memory'[a]["host"] # Null => (free[a] <=> ~ memory'[a]["host"].lent)
    <3>1. CASE location[a] = "invalid"
      <4>1. free[a] /\ source = "host" /\ ~ from.lent
        BY <1>3, <3>1 DEF Owned, CopyStep
      <4> QED
        BY <1>4, <1>8, <4>1
    <3>2. CASE location[a] # "invalid"
      <4>1. memory'[a]["host"] = memory[a]["host"]
        <5>1. from = memory[a][source]
          BY <1>3, <3>2 DEF CopyStep
        <5> QED
          BY <1>4, <1>8, <5>1
      <4> QED
        BY <4>1 DEF OwnsHost
    <3> QED
      BY <3>1, <3>2
  <2>2. memory'[b]["host"] # Null => (free[b] <=> ~ memory'[b]["host"].lent)
    <3>1. CASE target # "host"
      <4>1. memory'[b]["host"] \in {memory[b]["host"], Null}
        BY <1>3, <1>4, <1>8, <3>1 DEF CopyStep
      <4> QED
        BY <4>1 DEF OwnsHost
    <3>2. CASE target = "host" /\ CopyAllocates(location[b], left)
      <4>1. ~ m.lent
        BY <1>3, <1>6, <3>2 DEF CopyStep
      <4>2. free[b]
        <5>1. SUFFICES ASSUME ~ free[b] PROVE FALSE
          BY DEF BufferTypeOK
        <5>2. left = memory[b] /\ location[b] # "invalid" /\ memory[b]["host"] # Null
          BY <1>3, <5>1, ProfileOf DEF Owned, CopyStep
        <5> QED
          BY <1>4, <3>2, <5>2 DEF CopyAllocates
      <4> QED
        BY <1>4, <1>8, <3>2, <4>1, <4>2
    <3>3. CASE target = "host" /\ ~ CopyAllocates(location[b], left)
      <4>1. to = left["host"] /\ to # Null /\ left["host"] \in {memory[b]["host"], Null}
        BY <1>3, <1>4, <3>3, BufferAssumption DEF CopyStep
      <4>2. to = memory[b]["host"] /\ memory[b]["host"] # Null
        BY <4>1
      <4> QED
        BY <1>4, <1>6, <1>8, <3>3, <4>2 DEF OwnsHost
    <3> QED
      BY <3>1, <3>2, <3>3
  <2>3. ASSUME NEW c \in Buffers \ {a, b}, memory'[c]["host"] # Null
        PROVE  free[c] <=> ~ memory'[c]["host"].lent
    BY <1>10, <2>3 DEF OwnsHost
  <2> QED
    BY <1>4, <2>1, <2>2, <2>3 DEF OwnsHost
<1>22. NoBadTransfer'
  <2>1. (queued[a] \/ queued[b]) \/ {source, target} = {"host"}
    BY <1>13
  <2>2. \A f \in TransferFaults(from, to, requisition[a], size, TRUE) :
           f = <<"overrun", requisition[a], size>> /\ Size(size) < Size(requisition[a])
    BY <1>3, <1>4, TransferIsGood DEF CopyStep
  <2>3. ((queued[a] \/ queued[b]) \/ {source, target} = {"host"}) = TRUE
    BY <2>1 DEF BufferTypeOK
  <2>4. faults' = faults \cup TransferFaults(from, to, requisition[a], size, TRUE)
    BY <1>3, <2>3 DEF CopyStep
  <2>5. Size(size) < Size(requisition[a]) => Mistaken(requisition[a], size)
    <3>1. Size(size) < Size(requisition[a]) => size # requisition[a]
      BY <1>4, SizeIsNat
    <3> QED
      BY <1>3, <3>1 DEF CopyStep, Mistaken
  <2>6. ASSUME NEW f \in faults'
        PROVE  f[1] = "overrun" /\ Mistaken(f[2], f[3])
    <3>1. CASE f \in faults
      BY <3>1 DEF NoBadTransfer
    <3>2. CASE f \in TransferFaults(from, to, requisition[a], size, TRUE)
      <4>1. f = <<"overrun", requisition[a], size>> /\ Mistaken(requisition[a], size)
        BY <2>2, <2>5, <3>2
      <4>2. f[1] = "overrun" /\ f[2] = requisition[a] /\ f[3] = size
        BY <4>1
      <4> QED
        BY <4>1, <4>2
    <3> QED
      BY <2>4, <3>1, <3>2
  <2> QED
    BY <2>6 DEF NoBadTransfer
<1> QED
  BY <1>7, <1>14, <1>15, <1>16, <1>17, <1>18, <1>19, <1>20, <1>21, <1>22

----------------------------------------------------------------------------
(* BufferInv is an inductive invariant: every operation of an application  *)
(* of a compatible profile preserves it.                                   *)
THEOREM BufferInvariance ==
    ASSUME Compatible
    PROVE  BufferSpec => []BufferInv
<1>1. BufferInit => BufferInv
  BY InitiallyInv
<1>2. BufferInv /\ [BufferNext]_bufferVars => BufferInv'
  <2> SUFFICES ASSUME BufferInv, [BufferNext]_bufferVars PROVE BufferInv'
    OBVIOUS
  <2>1. ASSUME NEW b \in Buffers, Access(b) PROVE BufferInv'
    <3>1. "host" \in Places /\ "device" \in Places /\ "image" \in Places
      BY DEF Places
    <3> QED
      BY <2>1, <3>1, GetArrayInv DEF Access, GetHostArray, GetDeviceArray, GetDeviceImage
  <2>2. ASSUME NEW b \in Buffers, DiscardLocation(b) PROVE BufferInv'
    BY <2>2, DiscardInv
  <2>3. ASSUME NEW b \in Buffers, NEW r \in Requisitions, Resize(b, r) PROVE BufferInv'
    BY <2>3, ResizeInv
  <2>4. ASSUME NEW b \in Buffers, NEW v \in Value, Write(b, v) PROVE BufferInv'
    BY <2>4, WriteInv
  <2>5. ASSUME NEW b \in Buffers, NEW v \in Value, ConvertFromData(b, v) PROVE BufferInv'
    BY <2>5, ConvertFromDataInv
  <2>6. ASSUME NEW b \in Buffers, NEW v \in Value, SetDeviceArray(b, v) PROVE BufferInv'
    BY <2>6, SetDeviceArrayInv
  <2>7. ASSUME NEW b \in Buffers, NEW v \in Value, NEW lent \in BOOLEAN,
               SetHostArray(b, v, lent)
        PROVE  BufferInv'
    BY <2>7, SetHostArrayInv
  <2>8. ASSUME NEW b \in Buffers, NEW v \in Value, NEW d \in Depths, Convert(b, v, d)
        PROVE  BufferInv'
    BY <2>8, ConvertInv
  <2>9. ASSUME NEW a \in Buffers, NEW b \in Buffers, Copy(a, b) PROVE BufferInv'
    BY <2>9, CopyInv
  <2>10. ASSUME NEW a \in Buffers, NEW b \in Buffers, SwapPointers(a, b) PROVE BufferInv'
    BY <2>10, SwapPointersInv
  <2>11. ASSUME NEW a \in Buffers, NEW b \in Buffers, SwapByCopy(a, b) PROVE BufferInv'
    BY <2>11, CopyInv DEF SwapByCopy
  <2>12. ASSUME NEW a \in Buffers, NEW b \in Buffers, Dup(a, b) PROVE BufferInv'
    BY <2>12, DupInv
  <2>13. CASE UNCHANGED bufferVars
    BY <2>13 DEF bufferVars, BufferInv, BufferTypeOK, Owned, Present, LastPresent,
                 NoResizedImage, QueueKnown, HoldsLastWrite, NoBadTransfer, Fits, OwnsHost
  <2> QED
    BY <2>1, <2>2, <2>3, <2>4, <2>5, <2>6, <2>7, <2>8, <2>9, <2>10, <2>11, <2>12, <2>13
       DEF BufferNext
<1> QED
  BY <1>1, <1>2, PTL DEF BufferSpec

(* Whoever reads a buffer gets what was written last, wherever it was      *)
(* written and however the data were moved, copied, swapped or converted.  *)
THEOREM HoldsLastWriteCorrect ==
    ASSUME Compatible
    PROVE  BufferSpec => []HoldsLastWrite
<1>1. BufferInv => HoldsLastWrite
  BY DEF BufferInv
<1> QED
  BY <1>1, BufferInvariance, PTL

(* No transfer of ufo-buffer.c has a missing memory at either end, each    *)
(* that needs a command queue has one, and only a copy can meet memory     *)
(* that is too small: that of a smaller buffer whose dimensions have the   *)
(* sum of those of the source (ufo_buffer_cmp_dimensions).                 *)
THEOREM NoBadTransferCorrect ==
    ASSUME Compatible
    PROVE  BufferSpec => []NoBadTransfer
<1>1. BufferInv => NoBadTransfer
  BY DEF BufferInv
<1> QED
  BY <1>1, BufferInvariance, PTL

(* Every memory that exists has the size of its buffer. *)
THEOREM FitsCorrect ==
    ASSUME Compatible
    PROVE  BufferSpec => []Fits
<1>1. BufferInv => Fits
  BY DEF BufferInv
<1> QED
  BY <1>1, BufferInvariance, PTL

(* The flag free tells at any time whose the host array is. *)
THEOREM OwnsHostCorrect ==
    ASSUME Compatible
    PROVE  BufferSpec => []OwnsHost
<1>1. BufferInv => OwnsHost
  BY DEF BufferInv
<1> QED
  BY <1>1, BufferInvariance, PTL

=============================================================================
