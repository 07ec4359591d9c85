----------------------------- MODULE RecordFile -----------------------------
(***************************************************************************)
(* moggie/storage/records.py, class RecordFile: one chunk file.  A chunk   *)
(* file is a header (an index of ChunkRecords offsets and a length marker) *)
(* followed by slots.  A slot is a HeadLen-byte head (its own offset and   *)
(* its length) and a payload.  One process writes the file; it may be      *)
(* killed between any two writes, or in the middle of one.                 *)
(*                                                                         *)
(* A payload is a member of Values; its encoded length is any member of    *)
(* EncLens, since compression and encryption decide it.                    *)
(***************************************************************************)
EXTENDS Integers, Sequences

CONSTANTS
    ChunkRecords,   \* records per chunk file
    Values,         \* payloads
    Missing,        \* what reading an absent record gives
    Torn,           \* payload of a slot whose overwrite was cut short
    HeaderSize,     \* bytes before the first slot
    HeadLen,        \* 2*int_size, the head of a slot
    Padding,        \* len(self.padding)
    EncLens,        \* lengths an encoding may have
    MaxSize         \* bound on the length of the file

ASSUME ChunkAssumption == ChunkRecords \in Nat \ {0}
ASSUME LayoutAssumption == /\ HeaderSize \in Nat \ {0}
                           /\ HeadLen \in Nat \ {0}
                           /\ Padding \in Nat
                           /\ EncLens \subseteq Nat
                           /\ MaxSize \in Nat
ASSUME ValueAssumption == /\ Missing \notin Values
                          /\ Torn \notin Values \cup {Missing}

VARIABLES
    size,       \* the file's length
    recs,       \* the slots with a valid head: offset -> [len, val]
    index,      \* the offsets in the file's header, 0 for none
    marker,     \* the length recorded in the header
    offsets,    \* self.offsets, the process's copy of the index
    empties,    \* self.empties, the slots that may be used again
    mapped,     \* len(self.mmap)
    phase,      \* what the process is doing
    op,         \* the locals of the set() in progress
    died        \* the last process was killed while it appended

disk == <<size, recs, index, marker>>
memory == <<offsets, empties, mapped>>
vars == <<size, recs, index, marker, offsets, empties, mapped, phase, op, died>>

Idx == 0 .. (ChunkRecords - 1)
Slot == [len : Nat, val : Values \cup {Torn}]
Empty == [len : Nat, ofs : Nat]
Op == [idx : Idx, val : Values \cup {Missing}, ofs : Nat, len : Nat,
       moved : BOOLEAN, append : BOOLEAN]
NoOp == [idx |-> 0, val |-> Missing, ofs |-> 0, len |-> 0,
         moved |-> FALSE, append |-> FALSE]

Min2(a, b) == IF a < b THEN a ELSE b
Max2(a, b) == IF a < b THEN b ELSE a

Init ==
    /\ size = HeaderSize
    /\ recs = [o \in {} |-> Missing]
    /\ index = [i \in Idx |-> 0]
    /\ marker = 0
    /\ offsets = index
    /\ empties = << >>
    /\ mapped = size
    /\ phase = "idle"
    /\ op = NoOp
    /\ died = FALSE
-----------------------------------------------------------------------------
End(o, len) == o + HeadLen + len
Overlaps(o1, len1, o2, len2) == o1 < End(o2, len2) /\ o2 < End(o1, len1)

\* Writing a record at o destroys every slot it overlaps.
Write(o, len, v) ==
    [p \in {q \in DOMAIN recs : ~Overlaps(q, recs[q].len, o, len)} \cup {o} |->
        IF p = o THEN [len |-> len, val |-> v] ELSE recs[p]]

\* safe_mmap: map the file again when the mapping is too short.
SafeMap(end) == IF end > mapped THEN size ELSE mapped

\* The padding of a new slot: 15%, but no less than Padding nor more than 16K.
PadLen(n) == Min2(16384, Max2((15 * n) \div 100, Padding))

\* Mutant: any slot smaller than twice the record will do.
Fits_NoLowerBound(e, n) == e.len < 2 * n

Fits(e, n) == n + PadLen(n) <= e.len /\ e.len < 2 * n
FirstFit(es, n) ==
    {k \in 1 .. Len(es) : Fits(es[k], n) /\ \A j \in 1 .. (k - 1) : ~Fits(es[j], n)}
\* Mutant: a slot that is used again stays on the list.
Without_Kept(es, k) == es
Without(es, k) ==
    [j \in 1 .. (Len(es) - 1) |-> IF j < k THEN es[j] ELSE es[j + 1]]

\* The length stored with a payload: encoded payloads are padded.
StoredLen(n, encode, append, cur_len) ==
    CASE ~encode -> n
      [] encode /\ append /\ Padding > 0 -> n + PadLen(n)
      [] OTHER -> Max2(n, cur_len)

Doing(i, v, o, len, moved, append) ==
    /\ phase' = "write"
    /\ op' = [idx |-> i, val |-> v, ofs |-> o, len |-> len,
              moved |-> moved, append |-> append]

\* set() goes on with its next write, or returns.
Proceed(more, ph) ==
    /\ phase' = IF more THEN ph ELSE "idle"
    /\ op' = IF more THEN op ELSE NoOp

\* The process ends; the file stays as it is.
Gone ==
    /\ phase' = "closed"
    /\ op' = NoOp
    /\ offsets' = [i \in Idx |-> 0]
    /\ empties' = << >>
    /\ mapped' = 0

\* set(), up to the write: choose where the record goes.
SetInPlace(i, v, n, encode) ==
    LET cur_len == recs[offsets[i]].len IN
    /\ phase = "idle"
    /\ offsets[i] > 0 /\ offsets[i] \in DOMAIN recs /\ n <= cur_len
    /\ mapped' = SafeMap(offsets[i] + HeadLen)
    /\ Doing(i, v, offsets[i], StoredLen(n, encode, FALSE, cur_len), FALSE, FALSE)
    /\ UNCHANGED <<disk, offsets, empties, died>>

\* The slot a record outgrows is released before a new one is looked for.
Released(i) ==
    IF offsets[i] > 0
    THEN Append(empties, [len |-> recs[offsets[i]].len, ofs |-> offsets[i]])
    ELSE empties

Outgrows(i, n) ==
    \/ offsets[i] = 0
    \/ offsets[i] > 0 /\ offsets[i] \in DOMAIN recs /\ n > recs[offsets[i]].len

\* Mutant: the length of the old slot is read without safe_mmap.
MapForLength_Unsafe(i) == mapped' = mapped

MapForLength(i) ==
    mapped' = IF offsets[i] > 0 THEN SafeMap(offsets[i] + HeadLen) ELSE mapped

SetReuse(i, v, n, encode) ==
    /\ phase = "idle"
    /\ Outgrows(i, n)
    /\ MapForLength(i)
    /\ \E k \in FirstFit(Released(i), n) :
          LET slot == Released(i)[k] IN
          /\ empties' = Without(Released(i), k)
          /\ Doing(i, v, slot.ofs, StoredLen(n, encode, FALSE, slot.len), TRUE, FALSE)
    /\ UNCHANGED <<disk, offsets, died>>

SetAppend(i, v, n, encode) ==
    LET len == StoredLen(n, encode, TRUE, 0) IN
    /\ phase = "idle"
    /\ Outgrows(i, n)
    /\ MapForLength(i)
    /\ FirstFit(Released(i), n) = {}
    /\ End(size, len) <= MaxSize
    /\ empties' = Released(i)
    /\ Doing(i, v, size, len, TRUE, TRUE)
    /\ UNCHANGED <<disk, offsets, died>>

\* Mutant: a record moved to a used slot is not indexed there.
WriteSlot_NotIndexed ==
    /\ phase = "write" /\ ~op.append
    /\ End(op.ofs, op.len) <= mapped
    /\ recs' = Write(op.ofs, op.len, op.val)
    /\ Proceed(FALSE, "index")
    /\ UNCHANGED <<size, index, marker, memory, died>>

\* The write itself: through the mapping into a slot, or at the end of the file.
WriteSlot ==
    /\ phase = "write" /\ ~op.append
    /\ End(op.ofs, op.len) <= mapped
    /\ recs' = Write(op.ofs, op.len, op.val)
    /\ Proceed(op.moved, "index")
    /\ UNCHANGED <<size, index, marker, memory, died>>

WriteEnd ==
    /\ phase = "write" /\ op.append
    /\ recs' = Write(op.ofs, op.len, op.val)
    /\ size' = End(op.ofs, op.len)
    /\ Proceed(TRUE, "index")
    /\ UNCHANGED <<index, marker, memory, died>>

WriteIndex ==
    /\ phase = "index"
    /\ index' = [index EXCEPT ![op.idx] = op.ofs]
    /\ offsets' = [offsets EXCEPT ![op.idx] = op.ofs]
    /\ Proceed(op.append, "marker")
    /\ UNCHANGED <<size, recs, marker, empties, mapped, died>>

\* Mutant: the marker holds where the record starts.
WriteMarker_Start ==
    /\ phase = "marker"
    /\ marker' = op.ofs
    /\ Proceed(FALSE, "idle")
    /\ UNCHANGED <<size, recs, index, memory, died>>

WriteMarker ==
    /\ phase = "marker"
    /\ marker' = size
    /\ Proceed(FALSE, "idle")
    /\ UNCHANGED <<size, recs, index, memory, died>>

\* Mutant: -1 marks a deleted record.
Delete_Minus1(i) ==
    /\ phase = "idle"
    /\ index' = [index EXCEPT ![i] = -1]
    /\ offsets' = [offsets EXCEPT ![i] = -1]
    /\ UNCHANGED <<size, recs, marker, empties, mapped, phase, op, died>>

\* __delitem__: the slot is forgotten, not released.
Delete(i) ==
    /\ phase = "idle"
    /\ index' = [index EXCEPT ![i] = 0]
    /\ offsets' = [offsets EXCEPT ![i] = 0]
    /\ UNCHANGED <<size, recs, marker, empties, mapped, phase, op, died>>

\* get(): a read may map the file again.
Get(i) ==
    /\ phase = "idle"
    /\ offsets[i] > 0 /\ offsets[i] \in DOMAIN recs
    /\ mapped' = SafeMap(End(offsets[i], recs[offsets[i]].len))
    /\ UNCHANGED <<disk, offsets, empties, phase, op, died>>

Close ==
    /\ phase = "idle"
    /\ Gone
    /\ died' = FALSE
    /\ UNCHANGED disk

\* The process is killed between two writes ...
Kill ==
    /\ phase \in {"write", "index", "marker"}
    /\ Gone
    /\ died' = (op.append /\ phase # "write")
    /\ UNCHANGED disk

\* ... or during one: an overwrite leaves a torn payload under an intact
\* head, an append leaves bytes that are no record.
KillInWriteSlot ==
    /\ phase = "write" /\ ~op.append
    /\ \E len \in {recs[op.ofs].len, op.len} :
          recs' = [recs EXCEPT ![op.ofs] = [len |-> len, val |-> Torn]]
    /\ Gone
    /\ died' = FALSE
    /\ UNCHANGED <<size, index, marker>>

KillInWriteEnd ==
    /\ phase = "write" /\ op.append
    /\ size' \in (size + 1) .. (End(op.ofs, op.len) - 1)
    /\ Gone
    /\ died' = TRUE
    /\ UNCHANGED <<recs, index, marker>>

\* __init__ and load_offsets on an existing file.
Open ==
    /\ phase = "closed"
    /\ marker = 0 \/ marker = size
    /\ offsets' = index
    /\ empties' = << >>
    /\ mapped' = size
    /\ phase' = "idle"
    /\ UNCHANGED <<disk, op, died>>

Refuse ==
    /\ phase = "closed"
    /\ marker > 0 /\ marker # size
    /\ phase' = "refused"
    /\ UNCHANGED <<disk, memory, op, died>>

Stop == phase = "refused" /\ UNCHANGED vars

Step ==
    \/ \E i \in Idx, v \in Values, n \in EncLens, encode \in BOOLEAN :
          \/ SetInPlace(i, v, n, encode)
          \/ SetReuse(i, v, n, encode)
          \/ SetAppend(i, v, n, encode)
    \/ WriteSlot \/ WriteEnd \/ WriteIndex \/ WriteMarker
    \/ \E i \in Idx : Delete(i) \/ Get(i)
    \/ Close

Next ==
    \/ Step
    \/ Kill \/ KillInWriteSlot \/ KillInWriteEnd
    \/ Open \/ Refuse \/ Stop

Spec == Init /\ [][Next]_vars

\* The file system may also be full: fd.write raises, and set() with it.
WriteEndFails ==
    /\ phase = "write" /\ op.append
    /\ Proceed(FALSE, "idle")
    /\ UNCHANGED <<disk, memory, died>>

SpecDiskFull == Init /\ [][Next \/ WriteEndFails]_vars
-----------------------------------------------------------------------------
\* What reading record i gives after opening the file.
ValueOf(i) ==
    IF index[i] = 0 THEN Missing
    ELSE IF index[i] \in DOMAIN recs THEN recs[index[i]].val ELSE Torn

\* The variables have their types.
TypeOK ==
    /\ size \in Nat /\ marker \in Nat /\ mapped \in Nat
    /\ DOMAIN recs \subseteq Nat
    /\ recs \in [DOMAIN recs -> Slot]
    /\ index \in [Idx -> Nat] /\ offsets \in [Idx -> Nat]
    /\ empties \in Seq(Empty)
    /\ phase \in {"idle", "write", "index", "marker", "closed", "refused"}
    /\ op \in Op
    /\ died \in BOOLEAN

\* Every indexed record is a slot of its own that no other slot overlaps,
\* and a slot that set() may use again belongs to no record, save for the one
\* that the set() in progress is moving away from.
SlotsApart ==
    /\ \A i \in Idx : index[i] > 0 => index[i] \in DOMAIN recs
    /\ \A i, j \in Idx : index[i] = index[j] /\ index[i] > 0 => i = j
    /\ \A o, p \in DOMAIN recs :
          o # p => ~Overlaps(o, recs[o].len, p, recs[p].len)
    /\ \A k \in 1 .. Len(empties), i \in Idx :
          empties[k].ofs = index[i] =>
              phase \in {"write", "index"} /\ op.moved /\ op.idx = i

\* set() writes into slots through a mapping that it does not check for its
\* length (`self.mmap[ofs:end] = ...`): the slot always lies inside it.
MappedWrites ==
    phase = "write" /\ ~op.append => End(op.ofs, op.len) <= mapped

\* "Record how long the chunk file should be; if this does not match we know
\* we died mid-operation": a file that load_offsets refuses is one whose last
\* process was killed while it appended.
RefusedMeansDied ==
    phase = "refused" => died

\* No step, of a process that is killed included, changes what a record reads
\* as, but for the record that is being deleted or set.  The latter goes from
\* its old value to the new one; only when it is overwritten where it stands
\* can a kill leave it torn.
OnlyTheTarget ==
    [][\A i \in Idx : ValueOf(i)' # ValueOf(i) =>
          \/ phase = "idle" /\ Delete(i)
          \/ /\ phase \in {"write", "index"} /\ op.idx = i
             /\ \/ ValueOf(i)' = op.val
                \/ ValueOf(i)' = Torn /\ ~op.moved /\ phase' = "closed"]_vars

\* When set() returns, the record reads as the value that was set, and the
\* process's index agrees with the file's.
SetTakesEffect ==
    [][phase' = "idle" /\ phase \in {"write", "index", "marker"} =>
          /\ \A i \in Idx : i = op.idx => ValueOf(i)' = op.val
          /\ (offsets = index)']_vars
=============================================================================
