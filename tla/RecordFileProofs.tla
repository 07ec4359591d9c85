-------------------------- MODULE RecordFileProofs --------------------------
(***************************************************************************)
(* Proofs about RecordFile, for every chunk size, layout, padding and set  *)
(* of encoded lengths.  The invariant is an induction on the slots: they   *)
(* never overlap, the mapping always ends where a slot ends, and the slot  *)
(* that the set() in progress writes to is its own.                        *)
(***************************************************************************)
EXTENDS RecordFile, TLAPS

Running == phase \in {"idle", "write", "index", "marker"}

\* The slots lie between the header and the end of the file.
SlotsInFile ==
    /\ HeaderSize <= size
    /\ \A o \in DOMAIN recs : HeaderSize <= o /\ End(o, recs[o].len) <= size

\* The mapping never ends inside a slot.
MapAtSlotEnd ==
    Running =>
        /\ mapped <= size
        /\ \A o \in DOMAIN recs : o < mapped => End(o, recs[o].len) <= mapped

EmptyOK(e) ==
    /\ e.ofs \in DOMAIN recs
    /\ e.len = recs[e.ofs].len
    /\ e.ofs < mapped

\* The slots to be used again are distinct slots inside the mapping.
EmptiesOK ==
    Running =>
        /\ \A k \in 1 .. Len(empties) : EmptyOK(empties[k])
        /\ \A j, k \in 1 .. Len(empties) : empties[j].ofs = empties[k].ofs => j = k

\* o is nobody's slot.
Unused(o) ==
    /\ \A i \in Idx : index[i] # o
    /\ \A k \in 1 .. Len(empties) : empties[k].ofs # o

\* Where the set() in progress is about to write, or has written.
OpOK ==
    /\ phase \in {"write", "index", "marker"} => op.val \in Values
    /\ phase = "write" /\ op.append => op.moved /\ op.ofs = size
    /\ phase = "write" /\ ~op.append =>
          /\ op.ofs \in DOMAIN recs
          /\ op.len <= recs[op.ofs].len
          /\ op.ofs < mapped
          /\ IF op.moved THEN Unused(op.ofs) ELSE index[op.idx] = op.ofs
    /\ phase \in {"index", "marker"} =>
          /\ op.ofs \in DOMAIN recs
          /\ recs[op.ofs].val = op.val
    /\ phase = "index" => op.moved /\ Unused(op.ofs)
    /\ phase = "marker" => op.append /\ index[op.idx] = op.ofs

\* The marker is right unless an append is under way or was cut short.
MarkerOK ==
    /\ phase \in {"idle", "write"} => marker = 0 \/ marker = size
    /\ phase = "index" /\ ~op.append => marker = 0 \/ marker = size
    /\ phase = "closed" => marker = 0 \/ marker = size \/ died
    /\ RefusedMeansDied

IInv ==
    /\ TypeOK
    /\ SlotsInFile
    /\ SlotsApart
    /\ Running => offsets = index
    /\ MapAtSlotEnd
    /\ EmptiesOK
    /\ OpOK
    /\ MarkerOK
-----------------------------------------------------------------------------
\* Slots that do not overlap do not do so when they are shorter.
LEMMA ShorterApart ==
    ASSUME NEW p \in Nat, NEW pl \in Nat, NEW pn \in Nat, pn <= pl,
           NEW q \in Nat, NEW ql \in Nat, NEW qn \in Nat, qn <= ql,
           ~Overlaps(p, pl, q, ql)
    PROVE  ~Overlaps(p, pn, q, qn)
  BY LayoutAssumption DEF Overlaps, End

\* Overwriting a slot with no more than its length touches no other slot.
LEMMA WriteInSlot ==
    ASSUME TypeOK, SlotsApart,
           NEW o \in DOMAIN recs, NEW len \in Nat, len <= recs[o].len,
           NEW v
    PROVE  /\ DOMAIN Write(o, len, v) = DOMAIN recs
           /\ Write(o, len, v)[o] = [len |-> len, val |-> v]
           /\ \A p \in DOMAIN recs : p # o => Write(o, len, v)[p] = recs[p]
<1>1. ASSUME NEW q \in DOMAIN recs, q # o
      PROVE  ~Overlaps(q, recs[q].len, o, len)
  <2>1. q \in Nat /\ o \in Nat /\ recs[q].len \in Nat /\ recs[o].len \in Nat
    BY DEF TypeOK, Slot
  <2>2. ~Overlaps(q, recs[q].len, o, recs[o].len)
    BY <1>1 DEF SlotsApart
  <2> QED
    BY <2>1, <2>2, LayoutAssumption DEF Overlaps, End
<1>2. {q \in DOMAIN recs : ~Overlaps(q, recs[q].len, o, len)} \cup {o} = DOMAIN recs
  BY <1>1
<1> QED
  BY <1>2 DEF Write

\* Appending a record touches no slot.
LEMMA WriteAtEnd ==
    ASSUME TypeOK, SlotsInFile, NEW len \in Nat, NEW v
    PROVE  /\ DOMAIN Write(size, len, v) = DOMAIN recs \cup {size}
           /\ Write(size, len, v)[size] = [len |-> len, val |-> v]
           /\ \A p \in DOMAIN recs : p # size /\ Write(size, len, v)[p] = recs[p]
<1>1. ASSUME NEW q \in DOMAIN recs
      PROVE  q # size /\ ~Overlaps(q, recs[q].len, size, len)
  <2>1. q \in Nat /\ size \in Nat /\ recs[q].len \in Nat
    BY DEF TypeOK, Slot
  <2> QED
    BY <2>1, LayoutAssumption DEF SlotsInFile, Overlaps, End
<1>2. {q \in DOMAIN recs : ~Overlaps(q, recs[q].len, size, len)} = DOMAIN recs
  BY <1>1
<1> QED
  BY <1>1, <1>2 DEF Write

\* PadLen is a length.
LEMMA PadLenType ==
    ASSUME NEW n \in Nat PROVE PadLen(n) \in Nat
<1>1. (15 * n) \div 100 \in Nat
  OBVIOUS
<1> QED
  BY <1>1, LayoutAssumption DEF PadLen, Min2, Max2

\* A record never needs more than the slot chosen for it.
LEMMA StoredLenFits ==
    ASSUME NEW n \in Nat, NEW encode \in BOOLEAN, NEW cur \in Nat
    PROVE  /\ StoredLen(n, encode, TRUE, cur) \in Nat
           /\ StoredLen(n, encode, FALSE, cur) \in Nat
           /\ n <= cur => StoredLen(n, encode, FALSE, cur) <= cur
<1>1. PadLen(n) \in Nat
  BY PadLenType
<1> QED
  BY <1>1 DEF StoredLen, Max2

\* Taking an entry off a list leaves the others, each once.
LEMMA WithoutOne ==
    ASSUME NEW es \in Seq(Empty), NEW k \in 1 .. Len(es)
    PROVE  /\ Without(es, k) \in Seq(Empty)
           /\ Len(Without(es, k)) = Len(es) - 1
           /\ \A j \in 1 .. (Len(es) - 1) :
                 \/ j < k /\ Without(es, k)[j] = es[j]
                 \/ j >= k /\ Without(es, k)[j] = es[j + 1]
<1>1. Len(es) \in Nat /\ \A j \in 1 .. Len(es) : es[j] \in Empty
  OBVIOUS
<1> QED
  BY <1>1 DEF Without

\* The invariant holds of a new file.
LEMMA InitIInv == Init => IInv
<1> SUFFICES ASSUME Init PROVE IInv
  OBVIOUS
<1>1. TypeOK
  BY ChunkAssumption, LayoutAssumption, ValueAssumption
  DEF Init, TypeOK, Idx, NoOp, Op, Empty, Slot
<1> QED
  BY <1>1, LayoutAssumption
  DEF Init, IInv, SlotsInFile, SlotsApart, Running, MapAtSlotEnd, EmptiesOK,
      OpOK, MarkerOK, RefusedMeansDied

\* Reading a record, or its length, maps whole slots.
LEMMA SafeMapOK ==
    ASSUME IInv, Running, NEW end \in Nat
    PROVE  /\ SafeMap(end) \in Nat /\ mapped <= SafeMap(end) /\ SafeMap(end) <= size
           /\ \A o \in DOMAIN recs :
                 /\ o < SafeMap(end) => End(o, recs[o].len) <= SafeMap(end)
                 /\ o < end => o < SafeMap(end)
<1>1. size \in Nat /\ mapped \in Nat /\ mapped <= size
  BY DEF IInv, TypeOK, MapAtSlotEnd
<1>2. ASSUME NEW o \in DOMAIN recs
      PROVE  /\ o \in Nat /\ o < size /\ End(o, recs[o].len) <= size
             /\ o < mapped => End(o, recs[o].len) <= mapped
  <2>1. o \in Nat /\ recs[o].len \in Nat
    BY <1>2 DEF IInv, TypeOK, Slot
  <2> QED
    BY <1>1, <1>2, <2>1, LayoutAssumption DEF IInv, SlotsInFile, MapAtSlotEnd, End
<1> QED
  BY <1>1, <1>2 DEF SafeMap

\* Choosing where an in-place set() writes.
LEMMA SetInPlaceIInv ==
    ASSUME IInv, NEW i \in Idx, NEW v \in Values, NEW n \in EncLens,
           NEW encode \in BOOLEAN, SetInPlace(i, v, n, encode)
    PROVE  IInv'
<1> DEFINE o == offsets[i]  len == recs[o].len
<1>1. /\ phase = "idle" /\ Running /\ offsets = index
      /\ o \in DOMAIN recs /\ o > 0 /\ o \in Nat /\ len \in Nat /\ n <= len /\ n \in Nat
  BY LayoutAssumption DEF SetInPlace, IInv, Running, TypeOK, Slot
<1>2. /\ mapped' = SafeMap(o + HeadLen)
      /\ phase' = "write"
      /\ op' = [idx |-> i, val |-> v, ofs |-> o,
                len |-> StoredLen(n, encode, FALSE, len), moved |-> FALSE, append |-> FALSE]
      /\ UNCHANGED <<size, recs, index, marker, offsets, empties, died>>
  BY DEF SetInPlace, Doing, disk
<1>3. /\ mapped' \in Nat /\ mapped <= mapped' /\ mapped' <= size
      /\ \A p \in DOMAIN recs : p < mapped' => End(p, recs[p].len) <= mapped'
      /\ o < mapped'
  BY <1>1, <1>2, SafeMapOK, LayoutAssumption
<1>4. StoredLen(n, encode, FALSE, len) \in Nat /\ StoredLen(n, encode, FALSE, len) <= len
  BY <1>1, StoredLenFits
<1> HIDE DEF o, len
<1>5. TypeOK'
  BY <1>1, <1>2, <1>3, <1>4 DEF IInv, TypeOK, Op
<1>6. SlotsInFile'
  BY <1>2 DEF IInv, SlotsInFile, End
<1>7. SlotsApart'
  BY <1>1, <1>2 DEF IInv, SlotsApart, Overlaps, End
<1>8. (Running => offsets = index)' /\ MapAtSlotEnd'
  BY <1>1, <1>2, <1>3 DEF Running, MapAtSlotEnd, End
<1>9. EmptiesOK'
  <2>1. \A k \in 1 .. Len(empties) : EmptyOK(empties[k])'
    BY <1>1, <1>2, <1>3 DEF IInv, EmptiesOK, EmptyOK, TypeOK
  <2> QED
    BY <1>1, <1>2, <2>1 DEF IInv, EmptiesOK
<1>10. OpOK'
  BY <1>1, <1>2, <1>3, <1>4 DEF OpOK, o, len
<1>11. MarkerOK'
  BY <1>1, <1>2 DEF IInv, MarkerOK, RefusedMeansDied
<1> QED
  BY <1>5, <1>6, <1>7, <1>8, <1>9, <1>10, <1>11 DEF IInv

\* The list of slots that set() searches: distinct slots inside the mapping,
\* of which only the slot that record i outgrows, too short for it, is indexed.
LEMMA ReleasedOK ==
    ASSUME IInv, phase = "idle", NEW i \in Idx, NEW n \in EncLens,
           Outgrows(i, n), MapForLength(i)
    PROVE  /\ Released(i) \in Seq(Empty)
           /\ mapped' \in Nat /\ mapped <= mapped' /\ mapped' <= size
           /\ \A o \in DOMAIN recs : o < mapped' => End(o, recs[o].len) <= mapped'
           /\ \A k \in 1 .. Len(Released(i)) :
                 LET e == Released(i)[k] IN
                 /\ e \in Empty
                 /\ e.ofs \in DOMAIN recs /\ e.len = recs[e.ofs].len /\ e.ofs < mapped'
                 /\ \A j \in Idx : e.ofs = index[j] => j = i /\ e.len < n
           /\ \A j, k \in 1 .. Len(Released(i)) :
                 Released(i)[j].ofs = Released(i)[k].ofs => j = k
<1>1. /\ Running /\ offsets = index /\ empties \in Seq(Empty) /\ Len(empties) \in Nat
      /\ index \in [Idx -> Nat] /\ size \in Nat /\ mapped \in Nat /\ mapped <= size
      /\ \A k \in 1 .. Len(empties) : empties[k] \in Empty
      /\ \A o \in DOMAIN recs : o < mapped => End(o, recs[o].len) <= mapped
  BY DEF IInv, Running, TypeOK, MapAtSlotEnd
<1>2. /\ \A k \in 1 .. Len(empties) :
            EmptyOK(empties[k]) /\ \A j \in Idx : empties[k].ofs # index[j]
      /\ \A j, k \in 1 .. Len(empties) : empties[j].ofs = empties[k].ofs => j = k
  BY <1>1 DEF IInv, EmptiesOK, SlotsApart
<1>3. ASSUME NEW o \in DOMAIN recs PROVE o \in Nat /\ recs[o].len \in Nat /\ o > 0
  BY <1>3, LayoutAssumption DEF IInv, TypeOK, Slot, SlotsInFile
<1>4. CASE offsets[i] = 0
  <2>1. Released(i) = empties /\ mapped' = mapped
    BY <1>4 DEF Released, MapForLength
  <2> QED
    BY <1>1, <1>2, <1>3, <2>1 DEF EmptyOK
<1>5. CASE offsets[i] > 0
  <2> DEFINE o == offsets[i]  last == [len |-> recs[o].len, ofs |-> o]
  <2>1. /\ Released(i) = Append(empties, last)
        /\ mapped' = SafeMap(o + HeadLen)
    BY <1>5 DEF Released, MapForLength
  <2>2. o \in DOMAIN recs /\ recs[o].len < n /\ o \in Nat /\ recs[o].len \in Nat /\ n \in Nat
    BY <1>1, <1>3, <1>5, LayoutAssumption DEF Outgrows
  <2>3. /\ mapped' \in Nat /\ mapped <= mapped' /\ mapped' <= size
        /\ \A p \in DOMAIN recs : p < mapped' => End(p, recs[p].len) <= mapped'
        /\ o < mapped'
    <3>1. o + HeadLen \in Nat /\ o < o + HeadLen
      BY <2>2, LayoutAssumption
    <3> HIDE DEF o
    <3> QED
      BY <1>1, <2>1, <2>2, <3>1, SafeMapOK
  <2>4. last \in Empty /\ o = index[i]
    BY <1>1, <2>2 DEF Empty
  <2>5. \A j \in Idx : o = index[j] => j = i
    BY <1>1, <1>5, <2>4 DEF IInv, SlotsApart
  <2> HIDE DEF o
  <2>6. /\ Released(i) \in Seq(Empty)
        /\ Len(Released(i)) = Len(empties) + 1
        /\ \A k \in 1 .. Len(empties) : Released(i)[k] = empties[k]
        /\ Released(i)[Len(empties) + 1] = last
    BY <1>1, <2>1, <2>4
  <2>7. ASSUME NEW k \in 1 .. Len(Released(i))
        PROVE  LET e == Released(i)[k] IN
                 /\ e \in Empty
                 /\ e.ofs \in DOMAIN recs /\ e.len = recs[e.ofs].len /\ e.ofs < mapped'
                 /\ \A j \in Idx : e.ofs = index[j] => j = i /\ e.len < n
    <3>1. CASE k = Len(empties) + 1
      BY <2>2, <2>3, <2>4, <2>5, <2>6, <3>1
    <3>2. CASE k \in 1 .. Len(empties)
      <4>1. Released(i)[k] = empties[k] /\ empties[k] \in Empty
        BY <1>1, <2>6, <3>2
      <4>2. EmptyOK(empties[k]) /\ \A j \in Idx : empties[k].ofs # index[j]
        BY <1>2, <3>2
      <4>3. empties[k].ofs \in Nat
        BY <4>1 DEF Empty
      <4> QED
        BY <1>1, <2>3, <4>1, <4>2, <4>3 DEF EmptyOK
    <3> QED
      BY <1>1, <2>6, <3>1, <3>2
  <2>8. ASSUME NEW j \in 1 .. Len(Released(i)), NEW k \in 1 .. Len(Released(i)),
               Released(i)[j].ofs = Released(i)[k].ofs
        PROVE  j = k
    <3>1. \A m \in 1 .. Len(empties) : Released(i)[m].ofs # o
      BY <1>2, <2>4, <2>6
    <3>2. CASE j = Len(empties) + 1
      BY <1>1, <2>6, <2>8, <3>1, <3>2
    <3>3. CASE k = Len(empties) + 1
      BY <1>1, <2>6, <2>8, <3>1, <3>3
    <3>4. CASE j \in 1 .. Len(empties) /\ k \in 1 .. Len(empties)
      BY <1>2, <2>6, <2>8, <3>4
    <3> QED
      BY <1>1, <2>6, <3>2, <3>3, <3>4
  <2> QED
    BY <2>3, <2>6, <2>7, <2>8
<1> QED
  BY <1>1, <1>4, <1>5

\* Choosing a slot that was used before.
LEMMA SetReuseIInv ==
    ASSUME IInv, NEW i \in Idx, NEW v \in Values, NEW n \in EncLens,
           NEW encode \in BOOLEAN, SetReuse(i, v, n, encode)
    PROVE  IInv'
<1> DEFINE R == Released(i)
<1>1. /\ phase = "idle" /\ Outgrows(i, n) /\ MapForLength(i)
      /\ offsets = index /\ n \in Nat /\ PadLen(n) \in Nat
      /\ UNCHANGED <<size, recs, index, marker, offsets, died>>
  BY LayoutAssumption, PadLenType DEF SetReuse, disk, IInv, Running
<1>2. PICK k \in FirstFit(R, n) :
        /\ empties' = Without(R, k)
        /\ Doing(i, v, R[k].ofs, StoredLen(n, encode, FALSE, R[k].len), TRUE, FALSE)
  BY DEF SetReuse
<1> DEFINE slot == R[k]  len == StoredLen(n, encode, FALSE, slot.len)
<1>3. /\ R \in Seq(Empty) /\ Len(R) \in Nat
      /\ mapped' \in Nat /\ mapped <= mapped' /\ mapped' <= size
      /\ \A o \in DOMAIN recs : o < mapped' => End(o, recs[o].len) <= mapped'
      /\ \A m \in 1 .. Len(R) :
            /\ R[m] \in Empty
            /\ R[m].ofs \in DOMAIN recs /\ R[m].len = recs[R[m].ofs].len /\ R[m].ofs < mapped'
            /\ \A j \in Idx : R[m].ofs = index[j] => j = i /\ R[m].len < n
      /\ \A j, m \in 1 .. Len(R) : R[j].ofs = R[m].ofs => j = m
  BY <1>1, ReleasedOK
<1> HIDE DEF R
<1>4. k \in 1 .. Len(R) /\ n <= slot.len /\ slot.len \in Nat /\ slot.ofs \in Nat
  <2>1. k \in 1 .. Len(R) /\ n + PadLen(n) <= slot.len
    BY DEF FirstFit, Fits
  <2> QED
    BY <1>1, <1>3, <2>1 DEF Empty
<1>5. len \in Nat /\ len <= slot.len
  BY <1>1, <1>4, StoredLenFits
<1>6. /\ phase' = "write"
      /\ op' = [idx |-> i, val |-> v, ofs |-> slot.ofs, len |-> len,
                moved |-> TRUE, append |-> FALSE]
  BY <1>2 DEF Doing
<1>7. /\ empties' \in Seq(Empty) /\ Len(empties') = Len(R) - 1
      /\ \A j \in 1 .. (Len(R) - 1) :
            \/ j < k /\ empties'[j] = R[j]
            \/ j >= k /\ empties'[j] = R[j + 1]
  BY <1>2, <1>3, <1>4, WithoutOne
\* Each slot left on the list is another one of R than k.
<1>8. ASSUME NEW j \in 1 .. Len(empties')
      PROVE  \E m \in 1 .. Len(R) : /\ empties'[j] = R[m] /\ m # k
                                     /\ m = IF j < k THEN j ELSE j + 1
  <2>1. CASE j < k
    BY <1>3, <1>4, <1>7, <2>1
  <2>2. CASE j >= k
    BY <1>3, <1>4, <1>7, <2>2
  <2> QED
    BY <1>4, <1>7, <2>1, <2>2
<1> HIDE DEF slot, len
<1>9. TypeOK'
  BY <1>1, <1>3, <1>4, <1>5, <1>6, <1>7 DEF IInv, TypeOK, Op
<1>10. SlotsInFile'
  BY <1>1 DEF IInv, SlotsInFile, End
<1>11. SlotsApart'
  <2>1. \A j \in 1 .. Len(empties'), m \in Idx : empties'[j].ofs = index[m] => m = i
    BY <1>3, <1>8
  <2> QED
    BY <1>1, <1>6, <2>1 DEF IInv, SlotsApart, Overlaps, End
<1>12. (Running => offsets = index)' /\ MapAtSlotEnd'
  BY <1>1, <1>3 DEF Running, MapAtSlotEnd, End
<1>13. EmptiesOK'
  <2>1. \A j \in 1 .. Len(empties') : EmptyOK(empties[j])'
    BY <1>1, <1>3, <1>8 DEF EmptyOK
  <2>2. ASSUME NEW j \in 1 .. Len(empties'), NEW m \in 1 .. Len(empties'),
               empties'[j].ofs = empties'[m].ofs
        PROVE  j = m
    <3>1. PICK a \in 1 .. Len(R) : empties'[j] = R[a] /\ a = IF j < k THEN j ELSE j + 1
      BY <1>8
    <3>2. PICK b \in 1 .. Len(R) : empties'[m] = R[b] /\ b = IF m < k THEN m ELSE m + 1
      BY <1>8
    <3>3. a = b
      BY <1>3, <2>2, <3>1, <3>2
    <3> QED
      BY <1>3, <1>4, <1>7, <3>1, <3>2, <3>3
  <2> QED
    BY <2>1, <2>2 DEF EmptiesOK
<1>14. OpOK'
  <2>1. Unused(op.ofs)'
    <3>1. \A j \in Idx : index[j] # slot.ofs
      BY <1>1, <1>3, <1>4 DEF slot
    <3>2. \A j \in 1 .. Len(empties') : empties'[j].ofs # slot.ofs
      BY <1>3, <1>4, <1>8 DEF slot
    <3> QED
      BY <1>1, <1>6, <3>1, <3>2 DEF Unused
  <2>2. slot.ofs \in DOMAIN recs /\ slot.len = recs[slot.ofs].len /\ slot.ofs < mapped'
    BY <1>3, <1>4 DEF slot
  <2> QED
    BY <1>1, <1>5, <1>6, <2>1, <2>2 DEF OpOK
<1>15. MarkerOK'
  BY <1>1, <1>6 DEF IInv, MarkerOK, RefusedMeansDied
<1> QED
  BY <1>9, <1>10, <1>11, <1>12, <1>13, <1>14, <1>15 DEF IInv

\* Choosing the end of the file.
LEMMA SetAppendIInv ==
    ASSUME IInv, NEW i \in Idx, NEW v \in Values, NEW n \in EncLens,
           NEW encode \in BOOLEAN, SetAppend(i, v, n, encode)
    PROVE  IInv'
<1> DEFINE len == StoredLen(n, encode, TRUE, 0)
<1>1. /\ phase = "idle" /\ Outgrows(i, n) /\ MapForLength(i)
      /\ offsets = index /\ n \in Nat
      /\ empties' = Released(i)
      /\ phase' = "write"
      /\ op' = [idx |-> i, val |-> v, ofs |-> size, len |-> len,
                moved |-> TRUE, append |-> TRUE]
      /\ UNCHANGED <<size, recs, index, marker, offsets, died>>
  BY LayoutAssumption DEF SetAppend, Doing, disk, IInv, Running
<1>2. /\ empties' \in Seq(Empty)
      /\ mapped' \in Nat /\ mapped <= mapped' /\ mapped' <= size
      /\ \A o \in DOMAIN recs : o < mapped' => End(o, recs[o].len) <= mapped'
      /\ \A m \in 1 .. Len(empties') :
            /\ empties'[m].ofs \in DOMAIN recs
            /\ empties'[m].len = recs[empties'[m].ofs].len
            /\ empties'[m].ofs < mapped'
            /\ \A j \in Idx : empties'[m].ofs = index[j] => j = i
      /\ \A j, m \in 1 .. Len(empties') : empties'[j].ofs = empties'[m].ofs => j = m
  BY <1>1, ReleasedOK
<1>3. len \in Nat
  BY <1>1, StoredLenFits
<1> HIDE DEF len
<1>4. TypeOK'
  BY <1>1, <1>2, <1>3 DEF IInv, TypeOK, Op
<1>5. SlotsInFile'
  BY <1>1 DEF IInv, SlotsInFile, End
<1>6. SlotsApart'
  BY <1>1, <1>2 DEF IInv, SlotsApart, Overlaps, End
<1>7. (Running => offsets = index)' /\ MapAtSlotEnd'
  BY <1>1, <1>2 DEF Running, MapAtSlotEnd, End
<1>8. EmptiesOK'
  BY <1>1, <1>2 DEF EmptiesOK, EmptyOK
<1>9. OpOK'
  BY <1>1 DEF OpOK
<1>10. MarkerOK'
  BY <1>1 DEF IInv, MarkerOK, RefusedMeansDied
<1> QED
  BY <1>4, <1>5, <1>6, <1>7, <1>8, <1>9, <1>10 DEF IInv

\* Writing into a slot.
LEMMA WriteSlotIInv == IInv /\ WriteSlot => IInv'
<1> SUFFICES ASSUME IInv, WriteSlot PROVE IInv'
  OBVIOUS
<1> DEFINE o == op.ofs
<1>1. /\ phase = "write" /\ ~op.append /\ op \in Op /\ o \in Nat /\ op.len \in Nat
      /\ o \in DOMAIN recs /\ op.len <= recs[o].len /\ o < mapped
      /\ op.val \in Values /\ op.idx \in Idx
      /\ IF op.moved THEN Unused(o) ELSE index[op.idx] = o
      /\ Running /\ offsets = index
  BY DEF WriteSlot, IInv, TypeOK, OpOK, Op, Running
<1>2. /\ recs' = Write(o, op.len, op.val)
      /\ phase' = IF op.moved THEN "index" ELSE "idle"
      /\ op' = IF op.moved THEN op ELSE NoOp
      /\ UNCHANGED <<size, index, marker, offsets, empties, mapped, died>>
  BY DEF WriteSlot, Proceed, memory
<1>3. /\ DOMAIN recs' = DOMAIN recs
      /\ recs'[o] = [len |-> op.len, val |-> op.val]
      /\ \A p \in DOMAIN recs : p # o => recs'[p] = recs[p]
  BY <1>1, <1>2, WriteInSlot DEF IInv
<1>4. \A p \in DOMAIN recs : /\ p \in Nat /\ recs[p].len \in Nat /\ recs'[p].len \in Nat
                              /\ recs'[p].len <= recs[p].len
  BY <1>1, <1>3 DEF IInv, TypeOK, Slot
<1> HIDE DEF o
<1>5. TypeOK'
  <2>1. recs' \in [DOMAIN recs' -> Slot]
    <3>1. \A p \in DOMAIN recs : recs'[p] \in Slot
      BY <1>1, <1>3 DEF IInv, TypeOK, Slot
    <3> QED
      BY <1>2, <1>3, <3>1 DEF Write
  <2>2. NoOp \in Op
    BY ChunkAssumption DEF NoOp, Op, Idx
  <2> QED
    BY <1>1, <1>2, <1>3, <2>1, <2>2 DEF IInv, TypeOK
<1>6. SlotsInFile'
  <2>1. \A p \in DOMAIN recs : End(p, recs[p].len) <= size /\ HeaderSize <= p
    BY DEF IInv, SlotsInFile
  <2>2. size \in Nat
    BY DEF IInv, TypeOK
  <2> QED
    BY <1>2, <1>3, <1>4, <2>1, <2>2, LayoutAssumption DEF IInv, SlotsInFile, End
<1>7. SlotsApart'
  <2>1. ASSUME NEW p \in DOMAIN recs', NEW q \in DOMAIN recs', p # q
        PROVE  ~Overlaps(p, recs'[p].len, q, recs'[q].len)
    <3> DEFINE pl == recs[p].len  pn == recs'[p].len
               ql == recs[q].len  qn == recs'[q].len
    <3>1. ~Overlaps(p, pl, q, ql)
      BY <1>3, <2>1 DEF IInv, SlotsApart
    <3>2. /\ p \in Nat /\ pl \in Nat /\ pn \in Nat /\ pn <= pl
          /\ q \in Nat /\ ql \in Nat /\ qn \in Nat /\ qn <= ql
      BY <1>3, <1>4, <2>1
    <3> HIDE DEF pl, pn, ql, qn
    <3>3. ~Overlaps(p, pn, q, qn)
      BY <3>1, <3>2, ShorterApart
    <3> QED
      BY <3>3 DEF pn, qn
  <2>2. \A k \in 1 .. Len(empties'), j \in Idx :
          empties'[k].ofs = index'[j] => phase' = "index" /\ op'.moved /\ op'.idx = j
    BY <1>1, <1>2 DEF IInv, SlotsApart
  <2> QED
    BY <1>2, <1>3, <2>1, <2>2 DEF IInv, SlotsApart, Overlaps, End
<1>8. (Running => offsets = index)'
  BY <1>1, <1>2
<1>9. MapAtSlotEnd'
  <2>1. mapped \in Nat /\ size \in Nat
    BY DEF IInv, TypeOK
  <2> QED
    BY <1>1, <1>2, <1>3, <1>4, <2>1, LayoutAssumption DEF IInv, MapAtSlotEnd, End
<1>10. EmptiesOK'
  <2>1. \A k \in 1 .. Len(empties) : EmptyOK(empties[k]) /\ empties[k].ofs # o
    BY <1>1 DEF IInv, EmptiesOK, Unused, SlotsApart
  <2>2. \A k \in 1 .. Len(empties') : EmptyOK(empties[k])'
    BY <1>2, <1>3, <2>1 DEF EmptyOK
  <2> QED
    BY <1>1, <1>2, <2>2 DEF IInv, EmptiesOK
<1>11. OpOK'
  <2>1. CASE op.moved
    BY <1>1, <1>2, <1>3, <2>1 DEF OpOK, Unused, o
  <2>2. CASE ~op.moved
    BY <1>2, <2>2 DEF OpOK
  <2> QED
    BY <2>1, <2>2
<1>12. MarkerOK'
  BY <1>1, <1>2 DEF IInv, MarkerOK, RefusedMeansDied
<1> QED
  BY <1>5, <1>6, <1>7, <1>8, <1>9, <1>10, <1>11, <1>12 DEF IInv

\* Appending a slot.
LEMMA WriteEndIInv == IInv /\ WriteEnd => IInv'
<1> SUFFICES ASSUME IInv, WriteEnd PROVE IInv'
  OBVIOUS
<1>1. /\ phase = "write" /\ op.append /\ op.moved /\ op \in Op /\ op.ofs = size
      /\ op.len \in Nat /\ op.val \in Values /\ op.idx \in Idx /\ size \in Nat
      /\ Running /\ offsets = index /\ mapped \in Nat /\ mapped <= size
  BY DEF WriteEnd, IInv, TypeOK, OpOK, Op, Running, MapAtSlotEnd
<1>2. /\ recs' = Write(size, op.len, op.val)
      /\ size' = End(size, op.len)
      /\ phase' = "index" /\ op' = op
      /\ UNCHANGED <<index, marker, offsets, empties, mapped, died>>
  BY <1>1 DEF WriteEnd, Proceed, memory
<1>3. /\ DOMAIN recs' = DOMAIN recs \cup {size}
      /\ recs'[size] = [len |-> op.len, val |-> op.val]
      /\ \A p \in DOMAIN recs : p # size /\ recs'[p] = recs[p]
  BY <1>1, <1>2, WriteAtEnd DEF IInv
<1>4. \A p \in DOMAIN recs :
        p \in Nat /\ recs[p].len \in Nat /\ HeaderSize <= p /\ End(p, recs[p].len) <= size
  BY DEF IInv, TypeOK, Slot, SlotsInFile
<1>5. size' \in Nat /\ size < size'
  BY <1>1, <1>2, LayoutAssumption DEF End
<1>6. TypeOK'
  <2>1. \A p \in DOMAIN recs' : recs'[p] \in Slot /\ p \in Nat
    BY <1>1, <1>3, <1>4 DEF IInv, TypeOK, Slot
  <2>2. recs' \in [DOMAIN recs' -> Slot]
    BY <1>2, <2>1 DEF Write
  <2> QED
    BY <1>1, <1>2, <1>5, <2>1, <2>2 DEF IInv, TypeOK
<1>7. SlotsInFile'
  BY <1>1, <1>2, <1>3, <1>4, <1>5, LayoutAssumption DEF IInv, SlotsInFile, End
<1>8. SlotsApart'
  <2>1. \A p, q \in DOMAIN recs' :
          p # q => ~Overlaps(p, recs'[p].len, q, recs'[q].len)
    BY <1>1, <1>3, <1>4, LayoutAssumption DEF IInv, SlotsApart, Overlaps, End
  <2>2. \A k \in 1 .. Len(empties'), j \in Idx :
          empties'[k].ofs = index'[j] => op'.idx = j
    BY <1>2 DEF IInv, SlotsApart
  <2> QED
    BY <1>1, <1>2, <1>3, <2>1, <2>2 DEF IInv, SlotsApart, Overlaps, End
<1>9. (Running => offsets = index)'
  BY <1>1, <1>2
<1>10. MapAtSlotEnd'
  BY <1>1, <1>2, <1>3, <1>5 DEF IInv, MapAtSlotEnd, End
<1>11. EmptiesOK'
  BY <1>1, <1>2, <1>3 DEF IInv, EmptiesOK, EmptyOK
<1>12. OpOK'
  <2>1. \A j \in Idx : index[j] # size
    <3>1. \A j \in Idx : index[j] > 0 => index[j] \in DOMAIN recs
      BY DEF IInv, SlotsApart
    <3>2. size > 0 /\ index \in [Idx -> Nat]
      BY <1>1, LayoutAssumption DEF IInv, SlotsInFile, TypeOK
    <3> QED
      BY <1>3, <3>1, <3>2
  <2>2. \A k \in 1 .. Len(empties) : empties[k].ofs # size
    BY <1>1, <1>3 DEF IInv, EmptiesOK, EmptyOK
  <2>3. Unused(op.ofs)'
    BY <1>1, <1>2, <2>1, <2>2 DEF Unused
  <2> QED
    BY <1>1, <1>2, <1>3, <2>3 DEF OpOK
<1>13. MarkerOK'
  BY <1>1, <1>2 DEF MarkerOK, RefusedMeansDied
<1> QED
  BY <1>6, <1>7, <1>8, <1>9, <1>10, <1>11, <1>12, <1>13 DEF IInv

\* Pointing the index at the record that was written.
LEMMA WriteIndexIInv == IInv /\ WriteIndex => IInv'
<1> SUFFICES ASSUME IInv, WriteIndex PROVE IInv'
  OBVIOUS
<1>1. /\ phase = "index" /\ op \in Op /\ op.ofs \in Nat /\ op.idx \in Idx
      /\ op.val \in Values /\ op.moved /\ op.ofs \in DOMAIN recs
      /\ recs[op.ofs].val = op.val /\ Unused(op.ofs)
      /\ Running /\ offsets = index /\ index \in [Idx -> Nat]
  BY DEF WriteIndex, IInv, TypeOK, OpOK, Op, Running
<1>2. /\ index' = [index EXCEPT ![op.idx] = op.ofs]
      /\ offsets' = index'
      /\ phase' = IF op.append THEN "marker" ELSE "idle"
      /\ op' = IF op.append THEN op ELSE NoOp
      /\ UNCHANGED <<size, recs, marker, empties, mapped, died>>
  BY <1>1 DEF WriteIndex, Proceed
<1>3. TypeOK'
  <2>1. NoOp \in Op
    BY ChunkAssumption DEF NoOp, Op, Idx
  <2> QED
    BY <1>1, <1>2, <2>1 DEF IInv, TypeOK
<1>4. SlotsInFile'
  BY <1>2 DEF IInv, SlotsInFile, End
<1>5. SlotsApart'
  <2>1. \A j \in Idx : index'[j] > 0 => index'[j] \in DOMAIN recs
    BY <1>1, <1>2 DEF IInv, SlotsApart
  <2>2. \A j, m \in Idx : index'[j] = index'[m] /\ index'[j] > 0 => j = m
    BY <1>1, <1>2 DEF IInv, SlotsApart, Unused
  <2>3. \A k \in 1 .. Len(empties), j \in Idx : empties[k].ofs # index'[j]
    BY <1>1, <1>2 DEF IInv, SlotsApart, Unused
  <2> QED
    BY <1>2, <2>1, <2>2, <2>3 DEF IInv, SlotsApart, Overlaps, End
<1>6. (Running => offsets = index)' /\ MapAtSlotEnd' /\ EmptiesOK'
  BY <1>1, <1>2 DEF IInv, MapAtSlotEnd, EmptiesOK, EmptyOK, End
<1>7. OpOK'
  <2>1. CASE op.append
    BY <1>1, <1>2, <2>1 DEF OpOK
  <2>2. CASE ~op.append
    BY <1>2, <2>2 DEF OpOK
  <2> QED
    BY <2>1, <2>2
<1>8. MarkerOK'
  BY <1>1, <1>2 DEF IInv, MarkerOK, RefusedMeansDied
<1> QED
  BY <1>3, <1>4, <1>5, <1>6, <1>7, <1>8 DEF IInv

\* The steps that touch no slot: they keep what the file says.
LEMMA WriteMarkerIInv == IInv /\ WriteMarker => IInv'
<1> SUFFICES ASSUME IInv, WriteMarker PROVE IInv'
  OBVIOUS
<1>1. /\ phase = "marker" /\ phase' = "idle" /\ op' = NoOp /\ marker' = size
      /\ UNCHANGED <<size, recs, index, offsets, empties, mapped, died>>
  BY DEF WriteMarker, Proceed, memory
<1>2. TypeOK'
  BY <1>1, ChunkAssumption DEF IInv, TypeOK, NoOp, Op, Idx
<1>3. SlotsInFile' /\ SlotsApart'
  BY <1>1 DEF IInv, SlotsInFile, SlotsApart, Overlaps, End
<1>4. (Running => offsets = index)' /\ MapAtSlotEnd' /\ EmptiesOK'
  BY <1>1 DEF IInv, Running, MapAtSlotEnd, EmptiesOK, EmptyOK, End
<1>5. OpOK' /\ MarkerOK'
  BY <1>1 DEF OpOK, MarkerOK, RefusedMeansDied
<1> QED
  BY <1>2, <1>3, <1>4, <1>5 DEF IInv

LEMMA DeleteIInv ==
    ASSUME IInv, NEW i \in Idx, Delete(i)
    PROVE  IInv'
<1>1. /\ phase = "idle" /\ Running /\ offsets = index /\ index \in [Idx -> Nat]
      /\ index' = [index EXCEPT ![i] = 0] /\ offsets' = index'
      /\ UNCHANGED <<size, recs, marker, empties, mapped, phase, op, died>>
  BY DEF Delete, IInv, TypeOK, Running
<1>2. TypeOK'
  BY <1>1 DEF IInv, TypeOK
<1>3. \A k \in 1 .. Len(empties) : empties[k].ofs \in Nat /\ empties[k].ofs > 0
  BY <1>1, LayoutAssumption DEF IInv, TypeOK, EmptiesOK, EmptyOK, SlotsInFile
<1>4. SlotsInFile' /\ SlotsApart'
  <2>1. \A k \in 1 .. Len(empties), j \in Idx : empties[k].ofs # index'[j]
    BY <1>1, <1>3 DEF IInv, SlotsApart
  <2> QED
    BY <1>1, <2>1 DEF IInv, SlotsInFile, SlotsApart, Overlaps, End
<1>5. (Running => offsets = index)' /\ MapAtSlotEnd' /\ EmptiesOK'
  BY <1>1 DEF IInv, MapAtSlotEnd, EmptiesOK, EmptyOK, End
<1>6. OpOK' /\ MarkerOK'
  BY <1>1 DEF IInv, OpOK, MarkerOK, RefusedMeansDied
<1> QED
  BY <1>2, <1>4, <1>5, <1>6 DEF IInv

LEMMA GetIInv ==
    ASSUME IInv, NEW i \in Idx, Get(i)
    PROVE  IInv'
<1> DEFINE end == End(offsets[i], recs[offsets[i]].len)
<1>1. /\ phase = "idle" /\ Running /\ mapped' = SafeMap(end)
      /\ UNCHANGED <<size, recs, index, marker, offsets, empties, phase, op, died>>
  BY DEF Get, disk, Running
<1>2. end \in Nat
  BY LayoutAssumption DEF Get, IInv, TypeOK, Slot, End
<1> HIDE DEF end
<1>3. /\ mapped' \in Nat /\ mapped <= mapped' /\ mapped' <= size
      /\ \A p \in DOMAIN recs : p < mapped' => End(p, recs[p].len) <= mapped'
  BY <1>1, <1>2, SafeMapOK
<1>4. TypeOK'
  BY <1>1, <1>3 DEF IInv, TypeOK
<1>5. SlotsInFile' /\ SlotsApart'
  BY <1>1 DEF IInv, SlotsInFile, SlotsApart, Overlaps, End
<1>6. (Running => offsets = index)' /\ MapAtSlotEnd'
  BY <1>1, <1>3 DEF IInv, Running, MapAtSlotEnd, End
<1>7. EmptiesOK'
  <2>1. \A k \in 1 .. Len(empties) : EmptyOK(empties[k])'
    BY <1>1, <1>3 DEF IInv, EmptiesOK, EmptyOK, TypeOK
  <2> QED
    BY <1>1, <2>1 DEF IInv, EmptiesOK
<1>8. OpOK' /\ MarkerOK'
  BY <1>1 DEF IInv, OpOK, MarkerOK, RefusedMeansDied
<1> QED
  BY <1>4, <1>5, <1>6, <1>7, <1>8 DEF IInv

\* The process ends and the slots are as they were.
LEMMA GoneIInv ==
    ASSUME IInv, Gone, UNCHANGED <<recs, index, marker>>,
           died' \in BOOLEAN, size' \in Nat, size <= size',
           marker = 0 \/ marker = size' \/ died'
    PROVE  IInv'
<1>1. /\ phase' = "closed" /\ op' = NoOp /\ mapped' = 0 /\ empties' = << >>
      /\ offsets' = [i \in Idx |-> 0]
  BY DEF Gone
<1>2. TypeOK'
  BY <1>1, ChunkAssumption DEF IInv, TypeOK, NoOp, Op, Idx
<1>3. SlotsInFile'
  <2>1. \A o \in DOMAIN recs : o \in Nat /\ recs[o].len \in Nat
    BY DEF IInv, TypeOK, Slot
  <2> QED
    BY <2>1, LayoutAssumption DEF IInv, TypeOK, SlotsInFile, End
<1>4. SlotsApart'
  BY <1>1 DEF IInv, SlotsApart, Overlaps, End
<1> QED
  BY <1>1, <1>2, <1>3, <1>4
  DEF IInv, Running, MapAtSlotEnd, EmptiesOK, OpOK, MarkerOK, RefusedMeansDied

\* A kill in the middle of an overwrite.
LEMMA KillInWriteSlotIInv == IInv /\ KillInWriteSlot => IInv'
<1> SUFFICES ASSUME IInv, KillInWriteSlot PROVE IInv'
  OBVIOUS
<1> DEFINE o == op.ofs
<1>1. /\ phase = "write" /\ ~op.append /\ o \in DOMAIN recs /\ op.len \in Nat
      /\ op.len <= recs[o].len
      /\ marker = 0 \/ marker = size
  BY DEF KillInWriteSlot, IInv, TypeOK, OpOK, Op, MarkerOK
<1>2. PICK len \in {recs[o].len, op.len} :
        recs' = [recs EXCEPT ![o] = [len |-> len, val |-> Torn]]
  BY DEF KillInWriteSlot
<1>3. /\ phase' = "closed" /\ op' = NoOp /\ mapped' = 0 /\ empties' = << >>
      /\ offsets' = [i \in Idx |-> 0] /\ died' = FALSE
      /\ UNCHANGED <<size, index, marker>>
  BY DEF KillInWriteSlot, Gone
<1>4. \A p \in DOMAIN recs :
        /\ p \in Nat /\ recs[p].len \in Nat /\ recs'[p].len \in Nat
        /\ recs'[p].len <= recs[p].len /\ recs'[p] \in Slot
  BY <1>1, <1>2 DEF IInv, TypeOK, Slot
<1>5. DOMAIN recs' = DOMAIN recs
  BY <1>2
<1>6. TypeOK'
  <2>1. recs' \in [DOMAIN recs' -> Slot]
    BY <1>2, <1>4, <1>5
  <2>2. NoOp \in Op
    BY ChunkAssumption DEF NoOp, Op, Idx
  <2>3. offsets' \in [Idx -> Nat] /\ empties' \in Seq(Empty)
    BY <1>3
  <2> QED
    BY <1>3, <1>5, <2>1, <2>2, <2>3 DEF IInv, TypeOK
<1>7. SlotsInFile'
  <2>1. \A p \in DOMAIN recs : End(p, recs[p].len) <= size /\ HeaderSize <= p
    BY DEF IInv, SlotsInFile
  <2>2. size \in Nat
    BY DEF IInv, TypeOK
  <2> QED
    BY <1>3, <1>4, <1>5, <2>1, <2>2, LayoutAssumption DEF IInv, SlotsInFile, End
<1>8. SlotsApart'
  <2>1. \A p, q \in DOMAIN recs' :
          p # q => ~Overlaps(p, recs'[p].len, q, recs'[q].len)
    <3> SUFFICES ASSUME NEW p \in DOMAIN recs, NEW q \in DOMAIN recs, p # q
                 PROVE  ~Overlaps(p, recs'[p].len, q, recs'[q].len)
      BY <1>5
    <3>1. ~Overlaps(p, recs[p].len, q, recs[q].len)
      BY DEF IInv, SlotsApart
    <3> QED
      BY <1>4, <3>1, LayoutAssumption DEF Overlaps, End
  <2> QED
    BY <1>3, <1>5, <2>1 DEF IInv, SlotsApart, Overlaps, End
<1> QED
  BY <1>1, <1>3, <1>6, <1>7, <1>8
  DEF IInv, Running, MapAtSlotEnd, EmptiesOK, OpOK, MarkerOK, RefusedMeansDied

\* Opening the file again.
LEMMA OpenIInv == IInv /\ Open => IInv'
<1> SUFFICES ASSUME IInv, Open PROVE IInv'
  OBVIOUS
<1>1. /\ phase' = "idle" /\ offsets' = index /\ empties' = << >> /\ mapped' = size
      /\ marker = 0 \/ marker = size
      /\ UNCHANGED <<size, recs, index, marker, op, died>>
  BY DEF Open, disk
<1>2. TypeOK'
  BY <1>1 DEF IInv, TypeOK
<1>3. SlotsInFile' /\ SlotsApart' /\ MapAtSlotEnd'
  BY <1>1 DEF IInv, TypeOK, SlotsInFile, SlotsApart, Overlaps, End, MapAtSlotEnd
<1> QED
  BY <1>1, <1>2, <1>3
  DEF IInv, EmptiesOK, OpOK, MarkerOK, RefusedMeansDied

\* Every step keeps the invariant.
LEMMA NextIInv == IInv /\ [Next]_vars => IInv'
<1> SUFFICES ASSUME IInv, [Next]_vars PROVE IInv'
  OBVIOUS
<1>1. CASE \E i \in Idx, v \in Values, n \in EncLens, encode \in BOOLEAN :
             \/ SetInPlace(i, v, n, encode)
             \/ SetReuse(i, v, n, encode)
             \/ SetAppend(i, v, n, encode)
  BY <1>1, SetInPlaceIInv, SetReuseIInv, SetAppendIInv
<1>2. CASE WriteSlot \/ WriteEnd \/ WriteIndex \/ WriteMarker
  BY <1>2, WriteSlotIInv, WriteEndIInv, WriteIndexIInv, WriteMarkerIInv
<1>3. CASE \E i \in Idx : Delete(i) \/ Get(i)
  BY <1>3, DeleteIInv, GetIInv
<1>4. CASE Close
  <2>1. /\ Gone /\ died' = FALSE /\ UNCHANGED <<size, recs, index, marker>>
        /\ size \in Nat /\ (marker = 0 \/ marker = size)
    BY <1>4 DEF Close, disk, IInv, TypeOK, MarkerOK
  <2>2. size' \in Nat /\ size <= size' /\ (marker = 0 \/ marker = size')
    BY <2>1
  <2>3. died' \in BOOLEAN
    BY <2>1, Zenon
  <2> QED
    BY <2>1, <2>2, <2>3, GoneIInv
<1>5. CASE Kill
  <2>1. /\ Gone /\ died' = (op.append /\ phase # "write")
        /\ UNCHANGED <<size, recs, index, marker>>
    BY <1>5 DEF Kill, disk
  <2>2. size \in Nat /\ died' \in BOOLEAN
    BY <2>1 DEF IInv, TypeOK, Op
  <2>3. marker = 0 \/ marker = size \/ died'
    BY <1>5, <2>1 DEF Kill, IInv, MarkerOK, OpOK
  <2> QED
    BY <2>1, <2>2, <2>3, GoneIInv
<1>6. CASE KillInWriteSlot
  BY <1>6, KillInWriteSlotIInv
<1>7. CASE KillInWriteEnd
  <2>1. /\ Gone /\ died' = TRUE /\ UNCHANGED <<recs, index, marker>>
        /\ size' \in (size + 1) .. (End(op.ofs, op.len) - 1)
    BY <1>7 DEF KillInWriteEnd
  <2>2. size \in Nat /\ op.ofs \in Nat /\ op.len \in Nat
    BY DEF IInv, TypeOK, Op
  <2>3. size' \in Nat /\ size <= size'
    BY <2>1, <2>2, LayoutAssumption DEF End
  <2> QED
    BY <2>1, <2>3, GoneIInv
<1>8. CASE Open
  BY <1>8, OpenIInv
<1>9. CASE Refuse
  <2>1. /\ phase = "closed" /\ phase' = "refused" /\ marker > 0 /\ marker # size
        /\ UNCHANGED <<size, recs, index, marker, offsets, empties, mapped, op, died>>
    BY <1>9 DEF Refuse, disk, memory
  <2>2. TypeOK'
    BY <2>1 DEF IInv, TypeOK
  <2>3. SlotsInFile' /\ SlotsApart'
    BY <2>1 DEF IInv, SlotsInFile, SlotsApart, Overlaps, End
  <2>4. MarkerOK'
    BY <2>1 DEF IInv, TypeOK, MarkerOK, RefusedMeansDied
  <2> QED
    BY <2>1, <2>2, <2>3, <2>4 DEF IInv, Running, MapAtSlotEnd, EmptiesOK, OpOK
<1>10. CASE UNCHANGED vars
  BY <1>10
  DEF vars, IInv, TypeOK, SlotsInFile, SlotsApart, Running, MapAtSlotEnd, EmptiesOK,
      EmptyOK, OpOK, Unused, MarkerOK, RefusedMeansDied, Overlaps, End
<1> QED
  BY <1>1, <1>2, <1>3, <1>4, <1>5, <1>6, <1>7, <1>8, <1>9, <1>10 DEF Next, Step, Stop

\* The inductive invariant holds in every behaviour, kills and restarts included.
THEOREM Invariance == Spec => []IInv
<1>1. IInv /\ [Next]_vars => IInv'
  BY NextIInv
<1> QED
  BY InitIInv, <1>1, PTL DEF Spec

\* The variables keep their types.
THEOREM TypeCorrect == Spec => []TypeOK
<1>1. IInv => TypeOK
  BY DEF IInv
<1> QED
  BY Invariance, <1>1, PTL

\* RecordFile.set never gives two records the same or overlapping slots, and
\* never lists a slot for reuse that a record still needs.
THEOREM SlotsStayApart == Spec => []SlotsApart
<1>1. IInv => SlotsApart
  BY DEF IInv
<1> QED
  BY Invariance, <1>1, PTL

\* The unchecked mmap write of RecordFile.set is always inside the mapping.
THEOREM WritesAreMapped == Spec => []MappedWrites
<1>1. IInv => MappedWrites
  <2> SUFFICES ASSUME IInv, phase = "write", ~op.append
               PROVE  End(op.ofs, op.len) <= mapped
    BY DEF MappedWrites
  <2>1. /\ op.ofs \in DOMAIN recs /\ op.len <= recs[op.ofs].len
        /\ End(op.ofs, recs[op.ofs].len) <= mapped
    BY DEF IInv, OpOK, MapAtSlotEnd, Running
  <2>2. op.ofs \in Nat /\ op.len \in Nat /\ recs[op.ofs].len \in Nat /\ mapped \in Nat
    BY <2>1 DEF IInv, TypeOK, Op, Slot
  <2> QED
    BY <2>1, <2>2, LayoutAssumption DEF End
<1> QED
  BY Invariance, <1>1, PTL

\* load_offsets refuses only files whose last writer died while appending.
THEOREM RefusalIsJustified == Spec => []RefusedMeansDied
<1>1. IInv => RefusedMeansDied
  BY DEF IInv, MarkerOK
<1> QED
  BY Invariance, <1>1, PTL

\* A step that changes neither the slots nor the index changes no value.
LEMMA SameValues ==
    ASSUME UNCHANGED <<recs, index>>, NEW i \in Idx
    PROVE  ValueOf(i)' = ValueOf(i)
  BY DEF ValueOf

\* RecordFile.set and a kill during it affect the record being set alone.
THEOREM OnlyTheTargetChanges == Spec => OnlyTheTarget
<1>1. ASSUME IInv, [Next]_vars, NEW i \in Idx, ValueOf(i)' # ValueOf(i)
      PROVE  \/ phase = "idle" /\ Delete(i)
             \/ /\ phase \in {"write", "index"} /\ op.idx = i
                /\ \/ ValueOf(i)' = op.val
                   \/ ValueOf(i)' = Torn /\ ~op.moved /\ phase' = "closed"
  <2>1. /\ TypeOK /\ SlotsApart /\ OpOK /\ SlotsInFile
        /\ index \in [Idx -> Nat] /\ op \in Op /\ op.idx \in Idx /\ op.len \in Nat
    BY <1>1 DEF IInv, TypeOK, Op
  <2>2. index[i] > 0 => index[i] \in DOMAIN recs
    BY <2>1 DEF SlotsApart
  <2>3. CASE WriteSlot
    <3>1. /\ phase = "write" /\ ~op.append /\ op.ofs \in DOMAIN recs
          /\ op.len <= recs[op.ofs].len /\ index' = index
          /\ recs' = Write(op.ofs, op.len, op.val)
          /\ IF op.moved THEN Unused(op.ofs) ELSE index[op.idx] = op.ofs
      BY <2>1, <2>3 DEF WriteSlot, OpOK
    <3>2. /\ DOMAIN recs' = DOMAIN recs
          /\ recs'[op.ofs] = [len |-> op.len, val |-> op.val]
          /\ \A p \in DOMAIN recs : p # op.ofs => recs'[p] = recs[p]
      BY <2>1, <3>1, WriteInSlot
    <3>3. index[i] = op.ofs /\ index[i] > 0
      BY <1>1, <2>1, <2>2, <3>1, <3>2 DEF ValueOf
    <3>4. op.idx = i
      BY <2>1, <3>1, <3>3 DEF Unused, SlotsApart
    <3> QED
      BY <3>1, <3>2, <3>3, <3>4 DEF ValueOf
  <2>4. CASE WriteEnd
    <3>1. /\ recs' = Write(size, op.len, op.val) /\ index' = index
      BY <2>1, <2>4 DEF WriteEnd, OpOK
    <3>2. /\ DOMAIN recs' = DOMAIN recs \cup {size}
          /\ recs'[size] = [len |-> op.len, val |-> op.val]
          /\ \A p \in DOMAIN recs : p # size /\ recs'[p] = recs[p]
      BY <2>1, <3>1, WriteAtEnd
    <3> QED
      BY <1>1, <2>1, <2>2, <3>1, <3>2 DEF ValueOf
  <2>5. CASE WriteIndex
    <3>1. /\ phase = "index" /\ op.ofs \in DOMAIN recs /\ recs[op.ofs].val = op.val
          /\ index' = [index EXCEPT ![op.idx] = op.ofs] /\ recs' = recs
      BY <2>1, <2>5 DEF WriteIndex, OpOK
    <3>2. op.ofs # 0
      BY <2>1, <3>1, LayoutAssumption DEF SlotsInFile, TypeOK
    <3>3. op.idx = i
      BY <1>1, <2>1, <3>1 DEF ValueOf
    <3> QED
      BY <2>1, <3>1, <3>2, <3>3 DEF ValueOf
  <2>6. CASE \E j \in Idx : Delete(j)
    <3>1. PICK j \in Idx : Delete(j)
      BY <2>6
    <3>2. j = i
      BY <1>1, <2>1, <3>1 DEF Delete, ValueOf
    <3> QED
      BY <3>1, <3>2 DEF Delete
  <2>7. CASE KillInWriteSlot
    <3>1. /\ phase = "write" /\ ~op.append /\ op.ofs \in DOMAIN recs
          /\ IF op.moved THEN Unused(op.ofs) ELSE index[op.idx] = op.ofs
          /\ index' = index /\ phase' = "closed"
      BY <2>1, <2>7 DEF KillInWriteSlot, OpOK, Gone
    <3>2. PICK len : recs' = [recs EXCEPT ![op.ofs] = [len |-> len, val |-> Torn]]
      BY <2>7 DEF KillInWriteSlot
    <3>3. index[i] = op.ofs /\ index[i] > 0
      BY <1>1, <2>1, <2>2, <3>1, <3>2 DEF ValueOf
    <3>4. op.idx = i /\ ~op.moved
      BY <2>1, <3>1, <3>3 DEF Unused, SlotsApart
    <3> QED
      BY <3>1, <3>2, <3>3, <3>4 DEF ValueOf
  <2>8. CASE UNCHANGED <<recs, index>>
    BY <1>1, <2>8, SameValues
  <2> QED
    <3>1. CASE \E j \in Idx, v \in Values, n \in EncLens, encode \in BOOLEAN :
                 \/ SetInPlace(j, v, n, encode)
                 \/ SetReuse(j, v, n, encode)
                 \/ SetAppend(j, v, n, encode)
      <4>1. PICK j \in Idx, v \in Values, n \in EncLens, encode \in BOOLEAN :
                 \/ SetInPlace(j, v, n, encode)
                 \/ SetReuse(j, v, n, encode)
                 \/ SetAppend(j, v, n, encode)
        BY <3>1
      <4>2. UNCHANGED disk
        BY <4>1 DEF SetInPlace, SetReuse, SetAppend
      <4> QED
        BY <2>8, <4>2 DEF disk
    <3>2. CASE WriteMarker \/ Close \/ Kill \/ KillInWriteEnd \/ Open \/ Refuse
      BY <2>8, <3>2 DEF WriteMarker, Close, Kill, KillInWriteEnd, Open, Refuse, disk
    <3>3. CASE \E j \in Idx : Get(j)
      BY <2>8, <3>3 DEF Get, disk
    <3>4. CASE UNCHANGED vars
      BY <2>8, <3>4 DEF vars
    <3> QED
      BY <1>1, <2>3, <2>4, <2>5, <2>6, <2>7, <3>1, <3>2, <3>3, <3>4 DEF Next, Step, Stop
<1>2. IInv /\ [Next]_vars =>
        [\A i \in Idx : ValueOf(i)' # ValueOf(i) =>
          \/ phase = "idle" /\ Delete(i)
          \/ /\ phase \in {"write", "index"} /\ op.idx = i
             /\ \/ ValueOf(i)' = op.val
                \/ ValueOf(i)' = Torn /\ ~op.moved /\ phase' = "closed"]_vars
  BY <1>1
<1> QED
  BY Invariance, <1>2, PTL DEF Spec, OnlyTheTarget

\* When RecordFile.set returns, the record reads as what was set.
THEOREM SetHasEffect == Spec => SetTakesEffect
<1>1. ASSUME IInv, IInv', [Next]_vars,
             phase' = "idle", phase \in {"write", "index", "marker"}
      PROVE  /\ \A i \in Idx : i = op.idx => ValueOf(i)' = op.val
             /\ (offsets = index)'
  <2>1. (offsets = index)'
    BY <1>1 DEF IInv, Running
  <2>2. /\ TypeOK /\ SlotsApart /\ OpOK /\ SlotsInFile
        /\ index \in [Idx -> Nat] /\ op.idx \in Idx /\ op.len \in Nat
    BY <1>1 DEF IInv, TypeOK, Op
  <2>3. \A o \in DOMAIN recs : o # 0
    BY <2>2, LayoutAssumption DEF SlotsInFile, TypeOK
  <2>4. WriteSlot \/ WriteIndex \/ WriteMarker
    BY <1>1 DEF Next, Step, Stop, SetInPlace, SetReuse, SetAppend, Doing, WriteEnd,
                Proceed, Delete, Get, Close, Kill, KillInWriteSlot, KillInWriteEnd, Gone,
                Open, Refuse, vars
  <2>5. CASE WriteSlot
    <3>1. /\ phase = "write" /\ ~op.append /\ ~op.moved
          /\ recs' = Write(op.ofs, op.len, op.val) /\ index' = index
      BY <1>1, <2>5 DEF WriteSlot, Proceed
    <3>2. op.ofs \in DOMAIN recs /\ op.len <= recs[op.ofs].len /\ index[op.idx] = op.ofs
      BY <2>2, <3>1 DEF OpOK
    <3>3. DOMAIN recs' = DOMAIN recs /\ recs'[op.ofs] = [len |-> op.len, val |-> op.val]
      BY <2>2, <3>1, <3>2, WriteInSlot
    <3> QED
      BY <2>1, <2>3, <3>1, <3>2, <3>3 DEF ValueOf
  <2>6. CASE WriteIndex
    <3>1. /\ op.ofs \in DOMAIN recs /\ recs[op.ofs].val = op.val /\ recs' = recs
          /\ index' = [index EXCEPT ![op.idx] = op.ofs]
      BY <2>2, <2>6 DEF WriteIndex, OpOK
    <3> QED
      BY <2>1, <2>2, <2>3, <3>1 DEF ValueOf
  <2>7. CASE WriteMarker
    <3>1. /\ op.ofs \in DOMAIN recs /\ recs[op.ofs].val = op.val /\ recs' = recs
          /\ index' = index /\ index[op.idx] = op.ofs
      BY <2>2, <2>7 DEF WriteMarker, OpOK
    <3> QED
      BY <2>1, <2>3, <3>1 DEF ValueOf
  <2> QED
    BY <2>4, <2>5, <2>6, <2>7
<1>2. IInv /\ IInv' /\ [Next]_vars =>
        [phase' = "idle" /\ phase \in {"write", "index", "marker"} =>
          /\ \A i \in Idx : i = op.idx => ValueOf(i)' = op.val
          /\ (offsets = index)']_vars
  BY <1>1
<1> QED
  BY Invariance, <1>2, PTL DEF Spec, SetTakesEffect
=============================================================================
