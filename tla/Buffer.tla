------------------------------- MODULE Buffer -------------------------------
(***************************************************************************)
(* Buffers (ufo/ufo-buffer.c).  A buffer has up to three memories: a host  *)
(* array, a device array and a device image.  location says which of them  *)
(* is valid; the accessors move the data there first.  Which memory holds  *)
(* which data is all that is kept of the contents.                         *)
(*                                                                         *)
(* Applications differ in what they do with buffers.  A profile names the  *)
(* optional operations of one application; `may' is the profile of this    *)
(* behaviour.  The combinations that the code does not stand are listed    *)
(* in the README.                                                          *)
(***************************************************************************)
EXTENDS Integers, SequencesExt

CONSTANTS
    Buffers,        (* the buffers of the application                        *)
    Value,          (* what can be written into a buffer                     *)
    Requisitions,   (* the sizes asked for: sequences of dimensions          *)
    Profiles,       (* the applications: sets of names out of Features       *)
    Null,           (* the NULL pointer                                      *)
    Blank           (* contents that nobody has written                      *)

Features == {"image", "resize", "lend", "swap", "discard", "convert"}
Places == {"host", "device", "image"}
Depths == {"8U", "12U", "16U", "32U"}

Memories == [elements : Nat, data : Value \cup {Blank}, lent : BOOLEAN]

ASSUME BufferAssumption ==
    /\ Requisitions \subseteq Seq(Nat \ {0})
    /\ \A r, s \in Requisitions : Len(r) = Len(s) /\ Len(r) \in 2..3
    /\ Profiles \subseteq SUBSET Features
    /\ Blank \notin Value
    /\ Null \notin Memories

VARIABLES
    requisition,    (* priv->requisition                                     *)
    memory,         (* memory[b][p]: host_array, device_array, device_image  *)
    free,           (* priv->free: the buffer owns its host array            *)
    location,       (* priv->location                                        *)
    last_location,  (* priv->last_location                                   *)
    queued,         (* priv->last_queue is set                               *)
    may,            (* the profile of the application                        *)
    written,        (* history: what the buffer holds as its users see it    *)
    faults          (* history: what went wrong in the transfers             *)

bufferVars == <<requisition, memory, free, location, last_location, queued, may, written,
                faults>>

(* compute_required_size, in elements *)
Size(r) == r[1] * r[2] * (IF Len(r) = 3 THEN r[3] ELSE 1)

Memory(n, v, lent) == [elements |-> n, data |-> v, lent |-> lent]

(* ufo_buffer_init and ufo_buffer_new *)
BufferInit ==
    /\ requisition \in [Buffers -> Requisitions]
    /\ memory = [b \in Buffers |-> [p \in Places |-> Null]]
    /\ free = [b \in Buffers |-> TRUE]
    /\ location = [b \in Buffers |-> "invalid"]
    /\ last_location = [b \in Buffers |-> "invalid"]
    /\ queued = [b \in Buffers |-> FALSE]
    /\ may \in Profiles
    /\ written = [b \in Buffers |-> Blank]
    /\ faults = {}

UpdateLocation(b, p) ==
    /\ last_location' = [last_location EXCEPT ![b] = location[b]]
    /\ location' = [location EXCEPT ![b] = p]

(* alloc_host_mem, alloc_device_array and alloc_device_image.  Releasing   *)
(* the old memory is part of it, unless the host array is not owned.       *)
Alloc(b, r) == Memory(Size(r), Blank, FALSE)

(* What is wrong with moving the data of a buffer of size r from one       *)
(* memory to another, of a buffer of size s.  All but a copy from host to  *)
(* host go through a command queue.                                        *)
TransferFaults(from, to, r, s, queue) ==
    (IF Null \in {from, to} THEN {<<"null", r, s>>}
     ELSE {f \in {<<"overrun", r, s>>} : from.elements < Size(r) \/ to.elements < Size(r)})
    \cup {f \in {<<"queue", r, s>>} : ~ queue}

(* The memory after the transfer: if its size is another one, it holds     *)
(* nobody's data.                                                          *)
Transferred(from, to, r) ==
    IF Null \in {from, to} THEN to
    ELSE [to EXCEPT !.data = IF to.elements = Size(r) THEN from.data ELSE Blank]

----------------------------------------------------------------------------
(* ufo_buffer_get_host_array, ufo_buffer_get_device_array and              *)
(* ufo_buffer_get_device_image have one shape.  When the target is missing *)
(* it is allocated; data are moved from the valid place if that is another *)
(* and its memory exists.  get_device_array asks whether the device array  *)
(* exists where it means the image, which is true by then.                 *)
MovesFromHost(b, p) ==
    /\ location[b] = "host" /\ p # "host"
    /\ memory[b]["host"] # Null

MovesFrom(b, p) ==
    /\ location[b] \in Places \ {p}
    /\ \/ memory[b][location[b]] # Null
       \/ p = "device" /\ location[b] = "image"

(* The caller names a queue the first time that data go to a device: queue *)
(* says whether it does.                                                   *)
GetArray(b, p, queue) ==
    LET there == IF memory[b][p] = Null THEN Alloc(b, requisition[b]) ELSE memory[b][p]
        from == memory[b][location[b]]
        moves == MovesFrom(b, p)
    IN  /\ p = "image" => "image" \in may
        /\ p # "host" /\ location[b] \in {"host", "invalid"} => queued[b] \/ queue
        /\ queued' = [queued EXCEPT ![b] = @ \/ queue]
        /\ memory' = [memory EXCEPT ![b][p] =
                        IF moves THEN Transferred(from, there, requisition[b]) ELSE there]
        /\ faults' = IF moves
                       THEN faults \cup TransferFaults(from, there, requisition[b],
                                                       requisition[b], queued'[b])
                       ELSE faults
        /\ UpdateLocation(b, p)
        /\ UNCHANGED <<requisition, free, may, written>>

GetHostArray(b, queue) == GetArray(b, "host", queue)
GetDeviceArray(b, queue) == GetArray(b, "device", queue)
GetDeviceImage(b, queue) == GetArray(b, "image", queue)

(* The user of the buffer writes through the pointer it got last. *)
Write(b, v) ==
    /\ location[b] \in Places
    /\ memory[b][location[b]] # Null
    /\ memory' = [memory EXCEPT ![b][location[b]].data = v]
    /\ written' = [written EXCEPT ![b] = v]
    /\ UNCHANGED <<requisition, free, location, last_location, queued, may, faults>>

----------------------------------------------------------------------------
(* ufo_buffer_cmp_dimensions: the sum of the differences. *)
Difference(s, r) == FoldLeft(LAMBDA sum, i : sum + r[i] - s[i], 0, [i \in 1..Len(s) |-> i])

CompareDimensions(b, r) == Difference(requisition[b], r)

(* What ufo_buffer_resize leaves of the memories of b: nothing, except a   *)
(* host array that it does not own.                                        *)
ResizedHostOnly(b) == [memory[b] EXCEPT !["host"] = Null]

Resized(b) ==
    [p \in Places |-> IF p = "host" /\ ~ free[b] THEN memory[b][p] ELSE Null]

(* ufo_buffer_resize.  The contents are gone. *)
Resize(b, r) ==
    /\ "resize" \in may
    /\ CompareDimensions(b, r) # 0
    /\ memory' = [memory EXCEPT ![b] = Resized(b)]
    /\ requisition' = [requisition EXCEPT ![b] = r]
    /\ written' = [written EXCEPT ![b] = Blank]
    /\ UNCHANGED <<free, location, last_location, queued, may, faults>>

(* ufo_buffer_copy.  The destination is resized if its dimensions differ,  *)
(* unless the differences cancel out; a source that never had data gets a  *)
(* host array, a destination without any memory gets one where the source  *)
(* has its data.  All data of the source are moved, whatever the size of   *)
(* the destination.  The caller has written to the source since its last   *)
(* resize, or never used it; only applications that resize have buffers of *)
(* several sizes.                                                          *)
CopyAllocatesIfUnused(location_b, memory_b) == location_b = "invalid"

CopyAllocates(location_b, memory_b) ==
    location_b = "invalid" \/ \A p \in Places : memory_b[p] = Null

Copy(a, b) ==
    LET fresh == location[a] = "invalid"
        source == IF fresh THEN "host" ELSE location[a]
        from == IF fresh THEN Alloc(a, requisition[a]) ELSE memory[a][source]
        differs == CompareDimensions(b, requisition[a]) # 0
        left == IF differs THEN Resized(b) ELSE memory[b]
        size == IF differs THEN requisition[a] ELSE requisition[b]
        allocates == CopyAllocates(location[b], left)
        target == IF allocates THEN source ELSE location[b]
        to == IF allocates THEN Alloc(b, size) ELSE left[target]
        queue == queued[a] \/ queued[b]
    IN  /\ a # b
        /\ fresh \/ written[a] # Blank
        /\ differs \/ requisition[a] # requisition[b] => "resize" \in may
        /\ memory' = [memory EXCEPT
                        ![a][source] = from,
                        ![b] = [left EXCEPT ![target] = Transferred(from, to, requisition[a])]]
        /\ requisition' = [requisition EXCEPT ![b] = size]
        /\ location' = [location EXCEPT ![a] = source, ![b] = target]
        /\ queued' = [queued EXCEPT ![b] = queue]
        /\ faults' = faults \cup
                       TransferFaults(from, to, requisition[a], size,
                                      queue \/ {source, target} = {"host"})
        /\ written' = [written EXCEPT ![b] = IF size = requisition[a] THEN written[a] ELSE Blank]
        /\ UNCHANGED <<free, last_location, may>>

(* ufo_buffer_swap_data: with the data in the same place the pointers are  *)
(* swapped, whatever their size and owner; if not the data are copied.     *)
SwapPointers(a, b) ==
    LET p == location[a]
    IN  /\ "swap" \in may
        /\ a # b
        /\ location[a] = location[b]
        /\ requisition[a] = requisition[b]
        /\ p \in Places
        /\ memory' = [memory EXCEPT ![a][p] = memory[b][p], ![b][p] = memory[a][p]]
        /\ written' = [written EXCEPT ![a] = written[b], ![b] = written[a]]
        /\ UNCHANGED <<requisition, free, location, last_location, queued, may, faults>>

SwapByCopy(a, b) ==
    /\ "swap" \in may
    /\ location[a] # location[b]
    /\ Copy(a, b)

----------------------------------------------------------------------------
(* ufo_buffer_set_host_array with memory of the caller: lent if the buffer *)
(* shall not free it.                                                      *)
SetHostArrayOwned(b, v, lent) ==
    /\ "lend" \in may
    /\ memory' = [memory EXCEPT ![b]["host"] = Memory(Size(requisition[b]), v, lent)]
    /\ written' = [written EXCEPT ![b] = v]
    /\ UpdateLocation(b, "host")
    /\ UNCHANGED <<requisition, free, queued, may, faults>>

SetHostArray(b, v, lent) ==
    /\ "lend" \in may
    /\ memory' = [memory EXCEPT ![b]["host"] = Memory(Size(requisition[b]), v, lent)]
    /\ free' = [free EXCEPT ![b] = ~ lent]
    /\ written' = [written EXCEPT ![b] = v]
    /\ UpdateLocation(b, "host")
    /\ UNCHANGED <<requisition, queued, may, faults>>

(* ufo_buffer_set_device_array: the memory object becomes the buffer's,    *)
(* which has been used with a queue before.                                *)
SetDeviceArray(b, v) ==
    /\ "lend" \in may
    /\ queued[b]
    /\ memory' = [memory EXCEPT ![b]["device"] = Memory(Size(requisition[b]), v, FALSE)]
    /\ written' = [written EXCEPT ![b] = v]
    /\ UpdateLocation(b, "device")
    /\ UNCHANGED <<requisition, free, queued, may, faults>>

(* ufo_buffer_discard_location: from here on the buffer holds what the     *)
(* last place holds.  Tasks that work in place do this after a read.       *)
DiscardLocation(b) ==
    LET p == last_location[b]
    IN  /\ "discard" \in may
        /\ location' = [location EXCEPT ![b] = p]
        /\ written' = [written EXCEPT ![b] =
                         IF p = "invalid" \/ memory[b][p] = Null THEN Blank
                         ELSE memory[b][p].data]
        /\ UNCHANGED <<requisition, memory, free, last_location, queued, may, faults>>

(* ufo_buffer_finalize of b, whose place ufo_buffer_dup of a takes. *)
Dup(a, b) ==
    /\ a # b
    /\ requisition' = [requisition EXCEPT ![b] = requisition[a]]
    /\ memory' = [memory EXCEPT ![b] = [p \in Places |-> Null]]
    /\ free' = [free EXCEPT ![b] = TRUE]
    /\ location' = [location EXCEPT ![b] = "invalid"]
    /\ last_location' = [last_location EXCEPT ![b] = "invalid"]
    /\ queued' = [queued EXCEPT ![b] = FALSE]
    /\ written' = [written EXCEPT ![b] = Blank]
    /\ UNCHANGED <<may, faults>>

----------------------------------------------------------------------------
(* convert_data reads pixels of a lower depth and writes floats, in the    *)
(* same array from back to front.  Source(d, i, n) are the bytes that      *)
(* pixel i of n is made from, all counted from 0.                          *)
Source(d, i, n) ==
    CASE d = "8U"  -> {i}
      [] d = "16U" -> 2 * i .. 2 * i + 1
      [] d = "32U" -> 4 * i .. 4 * i + 3
      [] d = "12U" -> IF n % 2 = 1 /\ i = n - 1
                        THEN {(3 * n) \div 2 - 1, (3 * n) \div 2}
                        ELSE LET j == 3 * (i \div 2)
                             IN  IF i % 2 = 0 THEN {j, j + 1} ELSE {j + 1, j + 2}

(* The pixels of one round of the loop, in the order of the rounds.  A     *)
(* round of 12 bit pixels reads its three bytes before it writes.          *)
Rounds(d, n) ==
    IF d = "12U"
      THEN LET pairs == [k \in 1..(n \div 2) |-> {2 * (n \div 2 - k), 2 * (n \div 2 - k) + 1}]
           IN  IF n % 2 = 1 THEN <<{n - 1}>> \o pairs ELSE pairs
      ELSE [k \in 1..n |-> {n - k}]

(* Every pixel is made from bytes that no earlier round has overwritten,   *)
(* and the bytes are those where a packed pixel of this depth lies.        *)
Overwritten(rounds, k) ==
    UNION {UNION {4 * i .. 4 * i + 3 : i \in rounds[m]} : m \in 1..(k - 1)}

Bits(d) == CASE d = "8U" -> 8 [] d = "12U" -> 12 [] d = "16U" -> 16 [] d = "32U" -> 32

Packed(d, i) == (i * Bits(d)) \div 8 .. ((i + 1) * Bits(d) - 1) \div 8

ConvertsRight(d, n) ==
    LET rounds == Rounds(d, n)
    IN  /\ UNION {rounds[k] : k \in DOMAIN rounds} = 0..(n - 1)
        /\ \A k \in DOMAIN rounds : \A i \in rounds[k] :
              /\ Source(d, i, n) = Packed(d, i)
              /\ Source(d, i, n) \cap Overwritten(rounds, k) = {}

(* ufo_buffer_convert after the raw pixels of v were read into the host    *)
(* array.                                                                  *)
Convert(b, v, d) ==
    /\ "convert" \in may
    /\ location[b] = "host"
    /\ memory[b]["host"] # Null
    /\ memory' = [memory EXCEPT ![b]["host"].data =
                    IF ConvertsRight(d, memory[b]["host"].elements) THEN v ELSE Blank]
    /\ written' = [written EXCEPT ![b] = v]
    /\ UNCHANGED <<requisition, free, location, last_location, queued, may, faults>>

(* ufo_buffer_convert_from_data does not set the location.  The caller has *)
(* asked for the host array before.                                        *)
ConvertFromData(b, v) ==
    /\ "convert" \in may
    /\ location[b] = "host"
    /\ memory' = [memory EXCEPT ![b]["host"] =
                    Memory(Size(requisition[b]), v, IF @ = Null THEN FALSE ELSE @.lent)]
    /\ written' = [written EXCEPT ![b] = v]
    /\ UNCHANGED <<requisition, free, location, last_location, queued, may, faults>>

----------------------------------------------------------------------------
Access(b) == \E queue \in BOOLEAN :
    GetHostArray(b, queue) \/ GetDeviceArray(b, queue) \/ GetDeviceImage(b, queue)

BufferNext ==
    \/ \E b \in Buffers :
          \/ Access(b)
          \/ DiscardLocation(b)
          \/ \E r \in Requisitions : Resize(b, r)
          \/ \E v \in Value :
                \/ Write(b, v)
                \/ ConvertFromData(b, v)
                \/ SetDeviceArray(b, v)
                \/ \E lent \in BOOLEAN : SetHostArray(b, v, lent)
                \/ \E d \in Depths : Convert(b, v, d)
    \/ \E a, b \in Buffers :
          Copy(a, b) \/ SwapPointers(a, b) \/ SwapByCopy(a, b) \/ Dup(a, b)

BufferSpec == BufferInit /\ [][BufferNext]_bufferVars

----------------------------------------------------------------------------
(* Whoever reads a buffer, on the host, on the device or as an image, gets *)
(* what was written last, wherever that was and however often the buffer   *)
(* was copied, swapped or converted since (Copy between buffers that only  *)
(* seem to have one size counts as writing nothing).                       *)
HoldsLastWrite == \A b \in Buffers : written[b] # Blank =>
    /\ location[b] \in Places
    /\ memory[b][location[b]] # Null
    /\ memory[b][location[b]].data = written[b]

(* The comparison by the sum of the differences takes size r for s, which  *)
(* is smaller.                                                             *)
Mistaken(r, s) == Difference(s, r) = 0 /\ Size(s) < Size(r)

(* Although a resize drops the memories and leaves the location as it was, *)
(* no transfer touches memory that does not exist, none needs a command    *)
(* queue before the buffer knows one, and none meets memory that is too    *)
(* small but a copy to a buffer whose size is mistaken.                    *)
NoBadTransfer == \A f \in faults : f[1] = "overrun" /\ Mistaken(f[2], f[3])

(* "If the new requisition has the same size as before, resizing is a      *)
(* no-op", and ufo_buffer_cmp_dimensions returns "value < 0, 0 or > 0 if   *)
(* requisition is smaller, equal or larger" (ufo-buffer.c): a buffer that  *)
(* is copied to has the size of its source, so that the data fit.          *)
NoOverrun == \A f \in faults : f[1] # "overrun"

(* All memories of a buffer are as large as its requisition says: what the *)
(* accessors return holds as many elements as their caller counts on.      *)
Fits == \A b \in Buffers : \A p \in Places :
    memory[b][p] # Null => memory[b][p].elements = Size(requisition[b])

(* The flag tells whose the host array is: memory of the application is    *)
(* never freed by the buffer, and its own memory is never leaked.          *)
OwnsHost == \A b \in Buffers :
    memory[b]["host"] # Null => (free[b] <=> ~ memory[b]["host"].lent)

=============================================================================
