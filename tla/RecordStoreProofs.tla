-------------------------- MODULE RecordStoreProofs --------------------------
(***************************************************************************)
(* Proofs about the store of records, for any number of chunks, records,   *)
(* keys, requests and kills, with a compaction at any time.                *)
(***************************************************************************)
EXTENDS RecordStore, SequenceTheorems, WellFoundedInduction, TLAPS

Entry == {Zero} \cup [key : Keys, idx : Index]

\* What TypeOK leaves open.
MoreTypes ==
    /\ slots \in Seq(Entry)
    /\ truth \in [Index -> Values \cup {Missing}]
    /\ torn \subseteq Index /\ gone \subseteq Index

\* Nothing is in memory while no process has the store open.
Idle ==
    ~up => /\ keys = << >> /\ cache = << >> /\ next_idx = 0
           /\ chunks = [c \in Chunk |-> NoObject] /\ op = Done /\ comp = Quiet

\* Which files there are in each phase of the compaction.
PhaseOK ==
    /\ comp.phase = "next" => comp.i = 0
    /\ comp.phase = "copy" => path[comp.chunk] # NoFile /\ tmp[comp.chunk] # NoFile
    /\ comp.phase = "install" =>
          tmp[comp.chunk] # NoFile /\ path[comp.chunk] = NoFile /\ comp.i = ChunkRecords
    /\ comp.phase = "clean" => path[comp.chunk] # NoFile

\* Neither file has records that the store cannot number.
Numbered(file) ==
    \A c \in Chunk, i \in Idx :
        c * ChunkRecords + i \notin Index => file[c] = NoFile \/ file[c][i] = Missing
NumbersOK == Numbered(path) /\ Numbered(tmp)

Sound(full) == full \notin torn /\ full \notin gone
Away(c) == comp.phase = "install" /\ comp.chunk = c

\* A record is what was set, unless its file is out of the way.
Kept == \A full \in Index : Sound(full) /\ ~Away(ChunkOf(full)) => Stored(full) = truth[full]

\* So is its copy, once the compaction made it.
CopyKept ==
    comp.phase \in {"copy", "install"} =>
        \A full \in Index :
            Sound(full) /\ ChunkOf(full) = comp.chunk /\ InChunk(full) < comp.i =>
                tmp[comp.chunk][InChunk(full)] = truth[full]

\* No two chunks have the same object.
Distinct == \A c, d \in Chunk : chunks[c] = chunks[d] /\ chunks[c] # NoObject => c = d

\* CacheIsFresh, by the number of the record.
Slot(full) == <<InChunk(full), chunks[ChunkOf(full)]>>
FreshCache ==
    \A full \in Index : Sound(full) /\ Slot(full) \in DOMAIN cache => cache[Slot(full)] = truth[full]

\* The keys file has one entry for a key at most.
Held(s) == {n \in 1 .. Len(s) : s[n] # Zero}
Unique(s) == \A m, n \in Held(s) : s[m].key = s[n].key => m = n

\* What the request in progress is about.
OpOK ==
    /\ op.kind = "none" => op.todo = {}
    /\ op.kind = "set" => truth[op.idx] # Missing
    /\ op.kind = "del" => op.todo \subseteq DOMAIN keys

\* Records that are lost make the keys loose.
LossIsLoose == torn # {} \/ gone # {} => loose

\* The keys name records, but for those that __delitem__ is about to forget.
EntriesNameRecords ==
    ~loose => \A n \in Held(slots) :
        ~(op.kind = "del" /\ slots[n].key \in op.todo) => truth[slots[n].idx] # Missing

\* append() hands out numbers that are free.
NextIsFree ==
    up => \A full \in Index : Sound(full) /\ truth[full] # Missing => full < next_idx

\* The inductive invariant: about the files, the cache and the keys.
Types == TypeOK /\ MoreTypes /\ Idle
Files == PhaseOK /\ NumbersOK /\ Kept /\ CopyKept /\ MissingChunkIsInOld
Memory == Distinct /\ FreshCache
Names == KeysAgree /\ Unique(slots) /\ OpOK /\ LossIsLoose /\ EntriesNameRecords /\ NextIsFree
         /\ KeysNameRecords
IInv == Types /\ Files /\ Memory /\ Names
-----------------------------------------------------------------------------
\* A non-empty set of natural numbers has a least element.
LEMMA LeastIs ==
    ASSUME NEW S, S \subseteq Nat, S # {}
    PROVE  Least(S) \in S /\ \A m \in S : Least(S) <= m
  <1>1. PICK n \in S : \A m \in S : <<m, n>> \notin OpToRel(<, Nat)
    BY NatLessThanWellFounded, WFMin
  <1>2. \A m \in S : ~(m < n)
    BY <1>1 DEF OpToRel
  <1>3. \A m \in S : n <= m
    BY <1>2
  <1> QED  BY <1>3 DEF Least

\* A non-empty set of natural numbers with a bound has a greatest one.
LEMMA GreatestIs ==
    ASSUME NEW S, NEW b \in Nat, S \subseteq 0 .. b, S # {}
    PROVE  Greatest(S) \in S /\ \A m \in S : m <= Greatest(S)
  <1> DEFINE T == {b - s : s \in S}
  <1>1. T \subseteq Nat /\ T # {}
    <2>1. T \subseteq Nat
      OBVIOUS
    <2>2. PICK s \in S : TRUE
      OBVIOUS
    <2>3. b - s \in T
      OBVIOUS
    <2> QED  BY <2>1, <2>3
  <1>2. PICK t \in T : \A m \in T : t <= m
    BY <1>1, LeastIs
  <1>3. PICK n \in S : t = b - n
    OBVIOUS
  <1>4. ASSUME NEW m \in S PROVE m <= n
    <2>1. b - n <= b - m
      BY <1>2, <1>3
    <2> QED  BY <2>1
  <1> QED  BY <1>4 DEF Greatest

\* The constants are natural numbers.
LEMMA Sizes ==
    /\ ChunkRecords \in Nat /\ ChunkRecords >= 1 /\ MaxRecords \in Nat /\ MaxRecords >= 1
    /\ MaxObjects \in Nat /\ Idx \subseteq Nat /\ Index \subseteq Nat /\ 0 \in Index
  BY SizeAssumption DEF Idx, Index

\* The number of a record is its chunk and its index in the chunk.
LEMMA Numbers ==
    ASSUME NEW full \in Index
    PROVE  /\ ChunkOf(full) \in Chunk /\ ChunkOf(full) \in Nat /\ InChunk(full) \in Idx
           /\ ChunkOf(full) * ChunkRecords + InChunk(full) = full
           /\ ChunkOf(full) * ChunkRecords <= full
  <1>1. full \in Nat
    BY Sizes
  <1>2. full \div ChunkRecords \in Nat /\ full % ChunkRecords \in 0 .. (ChunkRecords - 1)
        /\ full % ChunkRecords = full - ChunkRecords * (full \div ChunkRecords)
        /\ (full \div ChunkRecords) * ChunkRecords <= full
    BY <1>1, Sizes
  <1>3. ChunkRecords * (full \div ChunkRecords) = (full \div ChunkRecords) * ChunkRecords
        /\ ChunkRecords * (full \div ChunkRecords) \in Int
    BY <1>1, <1>2, Sizes
  <1>4. ChunkOf(full) \in Chunk
    BY DEF ChunkOf, Chunk
  <1> QED  BY <1>1, <1>2, <1>3, <1>4 DEF ChunkOf, InChunk, Idx

LEMMA NumbersBack ==
    ASSUME NEW c \in Chunk, NEW i \in Idx
    PROVE  /\ c \in Nat /\ c * ChunkRecords \in Index /\ c * ChunkRecords + i \in Nat
           /\ ChunkOf(c * ChunkRecords + i) = c /\ InChunk(c * ChunkRecords + i) = i
  <1>1. PICK full \in Index : c = full \div ChunkRecords
    BY DEF Chunk
  <1>2. c \in Nat /\ c * ChunkRecords <= full /\ c * ChunkRecords \in Nat
    BY <1>1, Numbers, Sizes DEF ChunkOf
  <1>3. i \in 0 .. ChunkRecords - 1
    BY DEF Idx
  <1>4. (c * ChunkRecords + i) \div ChunkRecords = c /\ (c * ChunkRecords + i) % ChunkRecords = i
    BY <1>2, <1>3, Sizes
  <1> QED  BY <1>2, <1>3, <1>4, Sizes DEF ChunkOf, InChunk, Index

LEMMA FirstChunk == 0 \in Chunk /\ Chunk \subseteq Nat
  <1>1. 0 \div ChunkRecords = 0
    BY Sizes
  <1>2. 0 \in Idx
    BY Sizes DEF Idx
  <1> QED  BY <1>1, <1>2, Sizes, NumbersBack DEF Chunk
-----------------------------------------------------------------------------
FilesTyped == /\ path \in [Chunk -> Content \cup {NoFile}]
              /\ tmp \in [Chunk -> Content \cup {NoFile}]
              /\ old \in [Chunk -> Content \cup {NoFile}]
MemoryTyped == /\ chunks \in [Chunk -> Objects \cup {NoObject}]
               /\ DOMAIN cache \subseteq Idx \X Objects
               /\ next_idx \in 0 .. MaxRecords
KeysTyped == /\ DOMAIN keys \subseteq Keys
             /\ \A k \in DOMAIN keys : keys[k] \in [pos : 1 .. Len(slots), idx : Index]
OpType == [todo : SUBSET Keys, idx : Index, kind : {"none", "set", "del"}, locked : BOOLEAN]
CompType == [phase : {"none", "next", "copy", "install", "clean"},
             chunk : Chunk, i : 0 .. ChunkRecords, todo : SUBSET Chunk]

\* The parts of the types.
LEMMA TypeParts ==
    Types <=> /\ FilesTyped /\ MemoryTyped /\ KeysTyped /\ MoreTypes
              /\ op \in OpType /\ comp \in CompType /\ up \in BOOLEAN /\ Idle
  <1>1. ASSUME MoreTypes, NEW n \in 1 .. Len(slots)
        PROVE  slots[n] = Zero \/ slots[n] \in [key : Keys, idx : Index]
    BY <1>1, ElementOfSeq DEF MoreTypes, Entry
  <1> QED  BY <1>1 DEF Types, TypeOK, FilesTyped, MemoryTyped, KeysTyped, OpType, CompType

\* The same, of the next state.
LEMMA TypesFromParts ==
    ASSUME FilesTyped', MemoryTyped', KeysTyped', MoreTypes',
           op' \in OpType, comp' \in CompType, up' \in BOOLEAN, Idle'
    PROVE  Types'
  <1>1. ASSUME NEW n \in 1 .. Len(slots')
        PROVE  slots'[n] = Zero \/ slots'[n] \in [key : Keys, idx : Index]
    BY <1>1, ElementOfSeq DEF MoreTypes, Entry
  <1> QED  BY <1>1 DEF Types, TypeOK, FilesTyped, MemoryTyped, KeysTyped, OpType, CompType

\* A blank file is a file, and a file is not the lack of one.
LEMMA FileFacts ==
    /\ Blank \in Content /\ NoFile \notin Content /\ Missing \notin Values
    /\ \A f \in Content, i \in Idx, v \in Values \cup {Missing} : [f EXCEPT ![i] = v] \in Content
  BY NoneAssumption DEF Blank, Content, Idx

\* The quiet states have their types.
LEMMA QuietTyped == Done \in OpType /\ Quiet \in CompType
  <1>1. Done \in OpType
    BY Sizes DEF Done, OpType
  <1>2. Quiet \in CompType
    BY Sizes, FirstChunk DEF Quiet, CompType
  <1> QED  BY <1>1, <1>2

LEMMA DoingTyped ==
    ASSUME NEW kind \in {"set", "del"}, NEW full \in Index, NEW todo \in SUBSET Keys,
           NEW locked \in BOOLEAN, Doing(kind, full, todo, locked)
    PROVE  op' \in OpType
  BY QuietTyped DEF Doing, OpType

\* What get_chunk() does.
LEMMA NewObjectIsFree == ASSUME Free # {} PROVE NewObject \in Free /\ NewObject \in Objects
  <1>1. Free \subseteq Objects /\ Objects \subseteq Nat
    BY Sizes DEF Free, Objects
  <1> QED  BY <1>1, LeastIs DEF NewObject

LEMMA GetChunkFacts ==
    ASSUME MemoryTyped, NEW c \in Chunk, NEW create, GetChunk(c, create)
    PROVE  /\ chunks' = [chunks EXCEPT ![c] = Obj(c)] /\ Obj(c) \in Objects
           /\ chunks' \in [Chunk -> Objects \cup {NoObject}]
           /\ chunks[c] = NoObject => Obj(c) \in Free
  <1>1. Obj(c) \in Objects /\ (chunks[c] = NoObject => Obj(c) \in Free)
    BY NewObjectIsFree DEF GetChunk, Obj, MemoryTyped
  <1> QED  BY <1>1 DEF GetChunk, MemoryTyped

\* The requests that set a record.
Stores(full, v) ==
    \E create \in BOOLEAN, todo \in SUBSET Keys, locked \in BOOLEAN :
        up /\ op = Done /\ Store(full, v, create, todo, locked)

LEMMA RequestStores ==
    ASSUME Types, NEW v \in Values, Request(v)
    PROVE  \E full \in Index : Stores(full, v)
  <1>1. ASSUME NEW ks \in SUBSET Keys, AppendRecord(ks, v) PROVE \E full \in Index : Stores(full, v)
    BY <1>1 DEF AppendRecord, Start, Stores
  <1>2. ASSUME NEW full \in Index, NEW ks \in SUBSET Keys, NEW locked \in BOOLEAN,
               SetByIndex(full, ks, v, locked)
        PROVE  Stores(full, v)
    BY <1>2, SizeAssumption DEF SetByIndex, Start, Stores
  <1>3. ASSUME NEW k \in Keys, NEW ks \in SUBSET (Keys \ {k}), SetByKey(k, ks, v)
        PROVE  \E full \in Index : Stores(full, v)
    <2>1. CASE Found(k) /\ Start(TRUE) /\ Store(keys[k].idx, v, Sparse, ks, TRUE)
      <3>1. keys[k].idx \in Index
        BY <2>1, TypeParts DEF Found, Named, KeysTyped
      <3>2. Stores(keys[k].idx, v)
        BY <2>1, SizeAssumption DEF Start, Stores
      <3> QED  BY <3>1, <3>2
    <2>2. CASE AppendRecord(ks \cup {k}, v)
      BY <1>1, <2>2
    <2> QED  BY <1>3, <2>1, <2>2 DEF SetByKey
  <1> QED  BY <1>1, <1>2, <1>3 DEF Request
-----------------------------------------------------------------------------
\* A function on 1 .. n is a sequence of length n.
LEMMA IsSequence ==
    ASSUME NEW n \in Nat, NEW S, NEW s \in [1 .. n -> S]
    PROVE  s \in Seq(S) /\ Len(s) = n
  <1>1. s \in Seq(S)
    BY SeqDef
  <1>2. Len(s) \in Nat /\ 1 .. Len(s) = 1 .. n
    BY <1>1, LenProperties
  <1> QED  BY <1>1, <1>2

\* Writing and zeroing an entry of the keys file.
Pos(k) == IF Named(k) THEN keys[k].pos ELSE Len(slots) + 1

LEMMA PutKeyFacts ==
    ASSUME KeysTyped, MoreTypes, NEW k \in Keys, NEW full \in Index, PutKey(k, full)
    PROVE  /\ Pos(k) \in 1 .. Len(slots') /\ slots' \in Seq(Entry)
           /\ Len(slots') = (IF Pos(k) > Len(slots) THEN Pos(k) ELSE Len(slots))
           /\ Len(slots) \in Nat /\ Len(slots') \in Nat /\ Len(slots) <= Len(slots')
           /\ (Pos(k) > Len(slots) => Len(slots') = Len(slots) + 1)
           /\ \A n \in 1 .. Len(slots') :
                 slots'[n] = IF n = Pos(k) THEN [key |-> k, idx |-> full] ELSE slots[n]
           /\ keys' = [q \in DOMAIN keys \cup {k} |->
                          IF q = k THEN [pos |-> Pos(k), idx |-> full] ELSE keys[q]]
  <1> DEFINE m == IF Pos(k) > Len(slots) THEN Pos(k) ELSE Len(slots)
  <1>1. Len(slots) \in Nat /\ \A n \in 1 .. Len(slots) : slots[n] \in Entry
    BY LenProperties, ElementOfSeq DEF MoreTypes
  <1>2. Pos(k) \in Nat /\ Pos(k) \in 1 .. Len(slots) + 1
    BY <1>1 DEF Pos, Named, KeysTyped
  <1>3. m \in Nat /\ Pos(k) \in 1 .. m /\ Len(slots) <= m
        /\ (Pos(k) > Len(slots) => m = Len(slots) + 1)
    BY <1>1, <1>2
  <1>4. /\ slots' = [n \in 1 .. m |-> IF n = Pos(k) THEN [key |-> k, idx |-> full] ELSE slots[n]]
        /\ keys' = [q \in DOMAIN keys \cup {k} |->
                      IF q = k THEN [pos |-> Pos(k), idx |-> full] ELSE keys[q]]
    BY DEF PutKey, Pos
  <1>5. [key |-> k, idx |-> full] \in Entry
    BY DEF Entry
  <1>6. \A n \in 1 .. m : n # Pos(k) => n \in 1 .. Len(slots)
    BY <1>1, <1>2
  <1> HIDE DEF m
  <1>7. slots' \in [1 .. m -> Entry]
    BY <1>1, <1>4, <1>5, <1>6
  <1>8. slots' \in Seq(Entry) /\ Len(slots') = m
    BY <1>3, <1>7, IsSequence
  <1> QED  BY <1>1, <1>3, <1>4, <1>8 DEF m

LEMMA ZeroKeyFacts ==
    ASSUME KeysTyped, MoreTypes, NEW k \in DOMAIN keys, ZeroKey(k)
    PROVE  /\ keys[k].pos \in 1 .. Len(slots) /\ slots' \in Seq(Entry) /\ Len(slots') = Len(slots)
           /\ Len(slots) \in Nat
           /\ \A n \in 1 .. Len(slots) : slots'[n] = IF n = keys[k].pos THEN Zero ELSE slots[n]
           /\ keys' = [q \in DOMAIN keys \ {k} |-> keys[q]]
  <1>1. keys[k].pos \in 1 .. Len(slots) /\ slots' = [slots EXCEPT ![keys[k].pos] = Zero]
        /\ slots \in Seq(Entry) /\ Zero \in Entry
    BY DEF KeysTyped, MoreTypes, ZeroKey, Entry
  <1> QED  BY <1>1, ExceptSeq, LenProperties DEF ZeroKey

\* The keys stay typed.
LEMMA KeysStayTyped ==
    ASSUME KeysTyped, MoreTypes, NEW k \in Keys,
           \/ \E full \in Index : PutKey(k, full)
           \/ k \in DOMAIN keys /\ ZeroKey(k)
    PROVE  KeysTyped' /\ slots' \in Seq(Entry)
  <1>1. ASSUME NEW full \in Index, PutKey(k, full) PROVE KeysTyped' /\ slots' \in Seq(Entry)
    <2>1. /\ Pos(k) \in 1 .. Len(slots') /\ slots' \in Seq(Entry)
          /\ Len(slots) \in Nat /\ Len(slots') \in Nat /\ Len(slots) <= Len(slots')
          /\ keys' = [q \in DOMAIN keys \cup {k} |->
                          IF q = k THEN [pos |-> Pos(k), idx |-> full] ELSE keys[q]]
      BY <1>1, PutKeyFacts
    <2>2. ASSUME NEW q \in DOMAIN keys' PROVE keys'[q] \in [pos : 1 .. Len(slots'), idx : Index]
      <3>1. CASE q = k
        BY <2>1, <3>1
      <3>2. CASE q # k
        <4>1. q \in DOMAIN keys /\ keys'[q] = keys[q]
          BY <2>1, <3>2
        <4>2. 1 .. Len(slots) \subseteq 1 .. Len(slots')
          BY <2>1
        <4> QED  BY <4>1, <4>2 DEF KeysTyped
      <3> QED  BY <3>1, <3>2
    <2> QED  BY <2>1, <2>2 DEF KeysTyped
  <1>2. ASSUME k \in DOMAIN keys, ZeroKey(k) PROVE KeysTyped' /\ slots' \in Seq(Entry)
    <2>1. slots' \in Seq(Entry) /\ Len(slots') = Len(slots)
          /\ keys' = [q \in DOMAIN keys \ {k} |-> keys[q]]
      BY <1>2, ZeroKeyFacts
    <2> QED  BY <2>1 DEF KeysTyped
  <1> QED  BY <1>1, <1>2

\* An entry that is not zeros.
LEMMA HeldEntry ==
    ASSUME NEW s \in Seq(Entry), NEW n \in Held(s)
    PROVE  s[n] = [key |-> s[n].key, idx |-> s[n].idx] /\ s[n].key \in Keys /\ s[n].idx \in Index
  <1>1. s[n] \in [key : Keys, idx : Index]
    BY ElementOfSeq DEF Held, Entry
  <1> QED  BY <1>1

\* load_keys: every entry is the one of its key.
LEMMA LoadKeysFacts ==
    ASSUME NEW s \in Seq(Entry), Unique(s)
    PROVE  /\ DOMAIN LoadKeys(s) = {s[n].key : n \in Held(s)}
           /\ LoadKeys(s) = [k \in DOMAIN LoadKeys(s) |-> LoadKeys(s)[k]]
           /\ \A n \in Held(s) : LoadKeys(s)[s[n].key] = [pos |-> n, idx |-> s[n].idx]
  <1> DEFINE at(k) == Greatest({n \in Held(s) : s[n].key = k})
  <1>1. LoadKeys(s) = [k \in {s[n].key : n \in Held(s)} |-> [pos |-> at(k), idx |-> s[at(k)].idx]]
    BY DEF LoadKeys, Held
  <1>2. ASSUME NEW n \in Held(s) PROVE at(s[n].key) = n
    <2>1. {m \in Held(s) : s[m].key = s[n].key} = {n}
      BY DEF Unique
    <2>2. n \in Int
      BY LenProperties DEF Held
    <2>3. Greatest({n}) = n
      BY <2>2 DEF Greatest
    <2> QED  BY <2>1, <2>3
  <1> HIDE DEF at
  <1> QED  BY <1>1, <1>2

\* calculate_next_idx: the number after the last record.
LEMMA NextIdxFacts ==
    ASSUME FilesTyped, Numbered(path)
    PROVE  /\ CalculateNextIdx \in 0 .. MaxRecords
           /\ \A full \in Index : Stored(full) # Missing => full < CalculateNextIdx
           /\ Have # {} => Greatest(Have) \in Have
  <1>1. CASE Have = {}
    <2>1. \A full \in Index : Stored(full) = Missing
      BY <1>1, Numbers DEF Have, Stored
    <2> QED  BY <1>1, <2>1, Sizes DEF CalculateNextIdx
  <1>2. CASE Have # {}
    <2> DEFINE g == Greatest(Have)
               f == path[g]
               used == {i \in Idx : f[i] # Missing}
    <2>1. Have \subseteq 0 .. MaxRecords
      <3>1. ASSUME NEW c \in Chunk PROVE c \in 0 .. MaxRecords
        <4>1. PICK full \in Index : c = ChunkOf(full)
          BY DEF Chunk, ChunkOf
        <4>2. c \in Nat /\ c * ChunkRecords <= full /\ full <= MaxRecords /\ full \in Nat
          BY <4>1, Numbers, Sizes DEF Index
        <4>3. c <= c * ChunkRecords
          BY <4>2, Sizes
        <4> QED  BY <4>2, <4>3, Sizes
      <3> QED  BY <3>1 DEF Have
    <2>2. g \in Have /\ \A c \in Have : c <= g
      BY <1>2, <2>1, Sizes, GreatestIs
    <2>3. g \in Chunk /\ f \in Content /\ g \in Nat
      BY <2>2, FirstChunk DEF Have, FilesTyped
    <2>4. g * ChunkRecords \in Index /\ g * ChunkRecords \in Nat
      BY <2>3, NumbersBack, Sizes DEF Idx
    <2>5. CalculateNextIdx = g * ChunkRecords + FileLen(f)
      BY <1>2 DEF CalculateNextIdx
    <2>6. /\ FileLen(f) \in Nat /\ g * ChunkRecords + FileLen(f) <= MaxRecords
          /\ \A i \in used : i < FileLen(f)
      <3>1. CASE used = {}
        <4>1. f = Blank
          BY <2>3, <3>1 DEF Content, Blank
        <4> QED  BY <2>4, <3>1, <4>1, Sizes DEF FileLen, Index
      <3>2. CASE used # {}
        <4>1. f # Blank
          BY <3>2 DEF Blank
        <4>2. used \subseteq 0 .. ChunkRecords
          BY Sizes DEF Idx
        <4>3. Greatest(used) \in used /\ \A i \in used : i <= Greatest(used)
          BY <3>2, <4>2, Sizes, GreatestIs
        <4>4. Greatest(used) \in Idx /\ Greatest(used) \in Nat /\ used \subseteq Nat
          BY <4>3, Sizes
        <4>5. g * ChunkRecords + Greatest(used) \in Index
          BY <2>2, <2>3, <4>3, <4>4 DEF Numbered, Have
        <4>6. FileLen(f) = 1 + Greatest(used)
          BY <4>1 DEF FileLen
        <4> QED  BY <2>4, <4>3, <4>4, <4>5, <4>6, Sizes, SMTT(30) DEF Index
      <3> QED  BY <3>1, <3>2
    <2>7. ASSUME NEW full \in Index, Stored(full) # Missing PROVE full < CalculateNextIdx
      <3> DEFINE c == ChunkOf(full)
                 i == InChunk(full)
      <3>1. c \in Have /\ c \in Nat /\ i \in Idx /\ i \in Nat /\ full = c * ChunkRecords + i
            /\ i < ChunkRecords /\ c <= g
        <4>1. c \in Have /\ c \in Nat /\ i \in Idx /\ full = c * ChunkRecords + i
          BY <2>7, Numbers DEF Stored, Have
        <4> QED  BY <2>2, <4>1, Sizes DEF Idx
      <3>2. CASE c = g
        <4>1. i < FileLen(f)
          BY <2>2, <2>6, <2>7, <3>1, <3>2 DEF Stored, Have
        <4> HIDE DEF c, i, f, g
        <4> QED  BY <2>4, <2>5, <2>6, <3>1, <3>2, <4>1, Sizes
      <3>3. CASE c # g
        <4> HIDE DEF c, i, f, g
        <4>1. c + 1 <= g
          BY <2>3, <3>1, <3>3
        <4>2. (c + 1) * ChunkRecords <= g * ChunkRecords
              /\ (c + 1) * ChunkRecords = c * ChunkRecords + ChunkRecords
              /\ c * ChunkRecords \in Nat
          BY <2>3, <3>1, <4>1, Sizes
        <4> QED  BY <2>4, <2>5, <2>6, <3>1, <4>2, Sizes
      <3> QED  BY <3>2, <3>3
    <2>8. CalculateNextIdx \in 0 .. MaxRecords
      BY <2>4, <2>5, <2>6, Sizes
    <2> QED  BY <2>2, <2>7, <2>8
  <1> QED  BY <1>1, <1>2
-----------------------------------------------------------------------------
\* Who runs has the store open.
LEMMA RunningIsUp == ASSUME Types PROVE (comp.phase # "none" \/ op # Done) => up
  BY DEF Types, Idle, Quiet

\* Every step keeps the types: the requests, then the compaction, then the
\* ends and starts of the process.
LEMMA TypesRequest ==
    ASSUME Types,
           \/ \E v \in Values : Request(v)
           \/ \E full \in Index : Delete(full)
           \/ \E full \in Index, want \in BOOLEAN : Get(full, want)
           \/ Flush
    PROVE  Types'
  <1>t. /\ FilesTyped /\ MemoryTyped /\ KeysTyped /\ MoreTypes
        /\ op \in OpType /\ comp \in CompType /\ up \in BOOLEAN /\ Idle
    BY TypeParts
  <1>1. ASSUME NEW v \in Values, NEW full \in Index, Stores(full, v) PROVE Types'
    <2> DEFINE c == ChunkOf(full)
               i == InChunk(full)
    <2>0. PICK create \in BOOLEAN, todo \in SUBSET Keys, locked \in BOOLEAN :
            up /\ op = Done /\ Store(full, v, create, todo, locked)
      BY <1>1 DEF Stores
    <2>1. c \in Chunk /\ i \in Idx /\ full \in Nat /\ full < MaxRecords
      BY Numbers, Sizes DEF Index
    <2>2. /\ GetChunk(c, create)
          /\ cache' = Cached(<<i, Obj(c)>>, v, FALSE)
          /\ path' = [path EXCEPT ![c] =
                         [(IF path[c] = NoFile THEN Blank ELSE path[c]) EXCEPT ![i] = v]]
          /\ next_idx' = (IF full >= next_idx THEN full + 1 ELSE next_idx)
          /\ Doing("set", full, todo, locked)
          /\ truth' = [truth EXCEPT ![full] = v]
          /\ gone' = (IF Copied(full) THEN gone \cup {full} ELSE gone \ {full})
          /\ torn' = torn \ {full}
          /\ UNCHANGED <<tmp, old, slots, up, keys, comp>>
      BY <2>0 DEF Store
    <2>3. FilesTyped'
      <3>1. (IF path[c] = NoFile THEN Blank ELSE path[c]) \in Content
        BY <1>t, <2>1, FileFacts DEF FilesTyped
      <3>2. [(IF path[c] = NoFile THEN Blank ELSE path[c]) EXCEPT ![i] = v] \in Content
        BY <2>1, <3>1, FileFacts
      <3> QED  BY <1>t, <2>1, <2>2, <3>2 DEF FilesTyped
    <2>4. MemoryTyped'
      <3>1. chunks' \in [Chunk -> Objects \cup {NoObject}]
        BY <1>t, <2>1, <2>2, GetChunkFacts
      <3>2. DOMAIN cache' = DOMAIN cache
        BY <2>2 DEF Cached
      <3>3. next_idx' \in 0 .. MaxRecords
        BY <1>t, <2>1, <2>2, Sizes DEF MemoryTyped
      <3> QED  BY <1>t, <3>1, <3>2, <3>3 DEF MemoryTyped
    <2>5. MoreTypes'
      BY <1>t, <2>2 DEF MoreTypes
    <2>6. op' \in OpType
      BY <2>2, DoingTyped
    <2>7. KeysTyped' /\ comp' \in CompType /\ up' \in BOOLEAN /\ Idle'
      BY <1>t, <2>0, <2>2 DEF KeysTyped, Idle
    <2> QED  BY <2>3, <2>4, <2>5, <2>6, <2>7, TypesFromParts
  <1>2. ASSUME NEW full \in Index, Delete(full) PROVE Types'
    <2> DEFINE c == ChunkOf(full)
               i == InChunk(full)
    <2>1. c \in Chunk /\ i \in Idx
      BY Numbers
    <2>2. /\ up /\ GetChunk(c, FALSE)
          /\ cache' = [p \in DOMAIN cache \ {<<i, Obj(c)>>} |-> cache[p]]
          /\ path' = [path EXCEPT ![c][i] = Missing]
          /\ Doing("del", full, ToDelete(full), TRUE)
          /\ truth' = [truth EXCEPT ![full] = Missing]
          /\ gone' = gone \ {full} /\ torn' = torn \ {full}
          /\ UNCHANGED <<tmp, old, slots, up, keys, next_idx, comp>>
      BY <1>2 DEF Delete, Start
    <2>3. FilesTyped'
      <3>1. path[c] \in Content
        BY <1>t, <2>1, <2>2 DEF FilesTyped, GetChunk
      <3>2. [path[c] EXCEPT ![i] = Missing] \in Content
        BY <2>1, <3>1, FileFacts
      <3> QED  BY <1>t, <2>1, <2>2, <3>2 DEF FilesTyped
    <2>4. MemoryTyped'
      <3>1. chunks' \in [Chunk -> Objects \cup {NoObject}]
        BY <1>t, <2>1, <2>2, GetChunkFacts
      <3> QED  BY <1>t, <2>2, <3>1 DEF MemoryTyped
    <2>5. MoreTypes'
      BY <1>t, <2>2 DEF MoreTypes
    <2>6. op' \in OpType
      <3>1. ToDelete(full) \in SUBSET Keys
        BY <1>t DEF ToDelete, KeysTyped
      <3> QED  BY <2>2, <3>1, DoingTyped
    <2>7. KeysTyped' /\ comp' \in CompType /\ up' \in BOOLEAN /\ Idle'
      BY <1>t, <2>2 DEF KeysTyped, Idle
    <2> QED  BY <2>3, <2>4, <2>5, <2>6, <2>7, TypesFromParts
  <1>3. ASSUME NEW full \in Index, NEW want \in BOOLEAN, Get(full, want) PROVE Types'
    <2> DEFINE c == ChunkOf(full)
               i == InChunk(full)
    <2>1. c \in Chunk /\ i \in Idx
      BY Numbers
    <2>2. /\ up /\ GetChunk(c, FALSE)
          /\ UNCHANGED <<path, tmp, old, slots, up, keys, next_idx, op, comp, truth, torn, gone>>
          /\ cache' = (IF <<i, Obj(c)>> \notin DOMAIN cache /\ path[c][i] # Missing
                       THEN Cached(<<i, Obj(c)>>, path[c][i], want) ELSE cache)
      BY <1>3 DEF Get, Start, files, history
    <2>3. MemoryTyped'
      <3>1. chunks' \in [Chunk -> Objects \cup {NoObject}] /\ Obj(c) \in Objects
        BY <1>t, <2>1, <2>2, GetChunkFacts
      <3>2. DOMAIN cache' \subseteq DOMAIN cache \cup {<<i, Obj(c)>>}
        BY <2>2 DEF Cached
      <3> QED  BY <1>t, <2>1, <2>2, <3>1, <3>2 DEF MemoryTyped
    <2> QED  BY <1>t, <2>2, <2>3, TypesFromParts DEF FilesTyped, KeysTyped, MoreTypes, Idle
  <1>4. ASSUME Flush PROVE Types'
    <2>1. /\ chunks' = [c \in Chunk |-> NoObject] /\ cache' = << >> /\ up
          /\ UNCHANGED <<path, tmp, old, slots, up, keys, next_idx, op, comp, truth, torn, gone>>
      BY <1>4 DEF Flush, Start, files, history
    <2>2. MemoryTyped'
      BY <1>t, <2>1 DEF MemoryTyped
    <2> QED  BY <1>t, <2>1, <2>2, TypesFromParts DEF FilesTyped, KeysTyped, MoreTypes, Idle
  <1> QED  BY <1>1, <1>2, <1>3, <1>4, RequestStores

LEMMA TypesKeys ==
    ASSUME Types, OpOK, NEW k \in Keys,
           WriteKey(k) \/ DelKey(k) \/ \E full \in Index : SetKey(k, full)
    PROVE  Types'
  <1>t. /\ FilesTyped /\ MemoryTyped /\ KeysTyped /\ MoreTypes
        /\ op \in OpType /\ comp \in CompType /\ up \in BOOLEAN /\ Idle
    BY TypeParts
  <1>1. up /\ UNCHANGED <<path, tmp, old, up, chunks, cache, next_idx, comp, truth, torn, gone>>
    BY DEF WriteKey, DelKey, SetKey, Start, history
  <1>2. KeysTyped' /\ slots' \in Seq(Entry)
    <2>1. (\E full \in Index : PutKey(k, full)) \/ (k \in DOMAIN keys /\ ZeroKey(k))
      <3>1. CASE WriteKey(k)
        BY <1>t, <3>1 DEF WriteKey, OpOK, OpType
      <3>2. CASE ~WriteKey(k)
        BY <3>2 DEF DelKey, SetKey, Named
      <3> QED  BY <3>1, <3>2
    <2> QED  BY <1>t, <2>1, KeysStayTyped
  <1>3. op' \in OpType
    <2>1. CASE WriteKey(k)
      <3>1. op.kind \in {"set", "del"} /\ op.idx \in Index /\ op.todo \ {k} \in SUBSET Keys
            /\ op.locked \in BOOLEAN
        BY <1>t, <2>1 DEF WriteKey, OpOK, OpType
      <3> QED  BY <2>1, <3>1, DoingTyped DEF WriteKey
    <2>2. CASE ~WriteKey(k)
      BY <1>t, <2>2 DEF DelKey, SetKey
    <2> QED  BY <2>1, <2>2
  <1>4. FilesTyped' /\ MemoryTyped' /\ MoreTypes' /\ comp' \in CompType /\ up' \in BOOLEAN /\ Idle'
    BY <1>t, <1>1, <1>2 DEF FilesTyped, MemoryTyped, MoreTypes, Idle
  <1> QED  BY <1>2, <1>3, <1>4, TypesFromParts

LEMMA TypesCompact == ASSUME Types, Files, Compact PROVE Types'
  <1>t. /\ FilesTyped /\ MemoryTyped /\ KeysTyped /\ MoreTypes
        /\ op \in OpType /\ comp \in CompType /\ up \in BOOLEAN /\ Idle
    BY TypeParts
  <1>c. comp.chunk \in Chunk /\ comp.todo \subseteq Chunk /\ comp.i \in 0 .. ChunkRecords
    BY <1>t DEF CompType
  <1>1. /\ UNCHANGED <<slots, up, keys, cache, next_idx, op, truth, torn>> /\ up
        /\ gone' \subseteq Index
    <2>1. UNCHANGED <<slots, up, keys, cache, next_idx, op, truth, torn>> /\ up
      BY RunningIsUp DEF Compact, CompactStart, CompactOpen, CompactCopy, CompactRotate,
         CompactInstall, CompactClean, CompactDone, files, memory, history
    <2>2. gone' = gone \/ gone' = gone \cup {full \in torn : ChunkOf(full) = comp.chunk}
      BY DEF Compact, CompactStart, CompactOpen, CompactCopy, CompactRotate, CompactInstall,
         CompactClean, CompactDone, files, memory, history
    <2> QED  BY <1>t, <2>1, <2>2 DEF MoreTypes
  <1>2. KeysTyped' /\ MoreTypes' /\ op' \in OpType /\ up' \in BOOLEAN /\ Idle'
    BY <1>t, <1>1 DEF KeysTyped, MoreTypes, Idle
  <1>3. ASSUME NEW partial \in BOOLEAN, NEW which \in Chunk, CompactStart(partial, which)
        PROVE  FilesTyped' /\ MemoryTyped' /\ comp' \in CompType
    <2>1. UNCHANGED <<path, tmp, old, chunks, cache, next_idx>>
      BY <1>3 DEF CompactStart, files, memory
    <2>2. comp' \in CompType
      BY <1>3, QuietTyped DEF CompactStart, CompType
    <2> QED  BY <1>t, <2>1, <2>2 DEF FilesTyped, MemoryTyped
  <1>4. ASSUME CompactOpen PROVE FilesTyped' /\ MemoryTyped' /\ comp' \in CompType
    <2> DEFINE c == Least(comp.todo)
    <2>1. c \in comp.todo /\ c \in Chunk
      BY <1>4, <1>c, FirstChunk, LeastIs DEF CompactOpen
    <2>2. UNCHANGED <<path, old, cache, next_idx>>
      BY <1>4 DEF CompactOpen
    <2>3. CASE comp' = Quiet /\ UNCHANGED <<chunks, tmp>>
      BY <1>t, <2>2, <2>3, QuietTyped DEF FilesTyped, MemoryTyped
    <2>4. CASE /\ GetChunk(c, FALSE)
               /\ \/ /\ tmp' = [tmp EXCEPT ![c] = NoFile]
                     /\ comp' = [comp EXCEPT !.todo = @ \ {c}]
                  \/ /\ tmp' = [tmp EXCEPT ![c] = Blank]
                     /\ comp' = [comp EXCEPT !.phase = "copy", !.chunk = c]
      <3>1. chunks' \in [Chunk -> Objects \cup {NoObject}]
        BY <1>t, <2>1, <2>4, GetChunkFacts
      <3> HIDE DEF c
      <3>2. comp' \in CompType
        BY <1>t, <2>1, <2>4 DEF CompType
      <3>3. FilesTyped'
        BY <1>t, <2>1, <2>2, <2>4, FileFacts DEF FilesTyped
      <3> QED  BY <1>t, <2>2, <3>1, <3>2, <3>3 DEF MemoryTyped
    <2> QED  BY <1>4, <2>3, <2>4 DEF CompactOpen
  <1>5. ASSUME CompactCopy PROVE FilesTyped' /\ MemoryTyped' /\ comp' \in CompType
    <2> DEFINE c == comp.chunk
    <2>1. /\ comp.phase = "copy" /\ comp.i < ChunkRecords /\ comp.i \in Idx
          /\ tmp' = [tmp EXCEPT ![c][comp.i] = path[c][comp.i]]
          /\ comp' = [comp EXCEPT !.i = @ + 1]
          /\ UNCHANGED <<path, old, chunks, cache, next_idx>>
      BY <1>5, <1>c, Sizes DEF CompactCopy, memory, Idx
    <2>2. tmp[c] \in Content /\ path[c] \in Content
      BY <1>t, <1>c, <2>1 DEF FilesTyped, Files, PhaseOK
    <2>3. [tmp[c] EXCEPT ![comp.i] = path[c][comp.i]] \in Content
      BY <2>1, <2>2, FileFacts DEF Content
    <2>4. comp' \in CompType
      BY <1>t, <1>c, <2>1, Sizes DEF CompType
    <2> QED  BY <1>t, <1>c, <2>1, <2>3, <2>4 DEF FilesTyped, MemoryTyped
  <1>6. ASSUME CompactRotate \/ CompactInstall \/ CompactDone
        PROVE  FilesTyped' /\ MemoryTyped' /\ comp' \in CompType
    <2>1. UNCHANGED <<chunks, cache, next_idx>>
      BY <1>6 DEF CompactRotate, CompactInstall, CompactDone, memory
    <2>2. FilesTyped'
      BY <1>6, <1>t, <1>c DEF CompactRotate, CompactInstall, CompactDone, files, FilesTyped
    <2>3. comp' \in CompType
      BY <1>6, <1>t, QuietTyped DEF CompactRotate, CompactInstall, CompactDone, CompType
    <2> QED  BY <1>t, <2>1, <2>2, <2>3 DEF MemoryTyped
  <1>7. ASSUME CompactClean PROVE FilesTyped' /\ MemoryTyped' /\ comp' \in CompType
    <2>1. /\ old' = [old EXCEPT ![comp.chunk] = NoFile] /\ Free # {}
          /\ chunks' = [chunks EXCEPT ![comp.chunk] = NewObject]
          /\ comp' = [comp EXCEPT !.phase = "next", !.i = 0, !.todo = @ \ {comp.chunk}]
          /\ UNCHANGED <<path, tmp, cache, next_idx>>
      BY <1>7 DEF CompactClean, NextChunk
    <2>2. comp' \in CompType
      <3>1. 0 \in 0 .. ChunkRecords
        BY Sizes
      <3> QED  BY <1>t, <2>1, <3>1 DEF CompType
    <2> QED  BY <1>t, <1>c, <2>1, <2>2, NewObjectIsFree DEF FilesTyped, MemoryTyped
  <1>8. FilesTyped' /\ MemoryTyped' /\ comp' \in CompType
    BY <1>3, <1>4, <1>5, <1>6, <1>7 DEF Compact
  <1> QED  BY <1>2, <1>8, TypesFromParts

LEMMA TypesProcess == ASSUME Types, Files, Names, Kill \/ Open PROVE Types'
  <1>t. /\ FilesTyped /\ MemoryTyped /\ KeysTyped /\ MoreTypes
        /\ op \in OpType /\ comp \in CompType /\ up \in BOOLEAN /\ Idle
    BY TypeParts
  <1>1. UNCHANGED <<path, tmp, old, slots, truth, gone>>
    BY DEF Kill, Open, files, history
  <1>2. CASE Kill
    <2>1. /\ up' = FALSE /\ keys' = << >> /\ cache' = << >> /\ next_idx' = 0
          /\ chunks' = [c \in Chunk |-> NoObject] /\ op' = Done /\ comp' = Quiet
          /\ torn' = torn \cup {full \in Index : comp.phase = "install" /\ ChunkOf(full) = comp.chunk}
      BY <1>2 DEF Kill
    <2>2. FilesTyped' /\ MoreTypes' /\ Idle'
      BY <1>t, <1>1, <2>1 DEF FilesTyped, MoreTypes, Idle
    <2>3. MemoryTyped' /\ KeysTyped'
      BY <2>1, Sizes DEF MemoryTyped, KeysTyped
    <2> QED  BY <2>1, <2>2, <2>3, QuietTyped, TypesFromParts
  <1>3. CASE Open
    <2>1. /\ up' = TRUE /\ keys' = LoadKeys(slots) /\ next_idx' = CalculateNextIdx
          /\ UNCHANGED <<cache, op, comp, torn>>
          /\ IF Have = {} THEN UNCHANGED chunks ELSE GetChunk(Greatest(Have), FALSE)
      BY <1>3 DEF Open, history
    <2>2. KeysTyped'
      <3>1. slots \in Seq(Entry) /\ Unique(slots)
        BY <1>t DEF MoreTypes, Names
      <3>2. ASSUME NEW k \in DOMAIN keys'
            PROVE  k \in Keys /\ keys'[k] \in [pos : 1 .. Len(slots'), idx : Index]
        <4>0. k \in DOMAIN LoadKeys(slots) /\ DOMAIN LoadKeys(slots) = {slots[n].key : n \in Held(slots)}
          BY <2>1, <3>1, LoadKeysFacts
        <4>1. PICK n \in Held(slots) : k = slots[n].key
          BY <4>0
        <4>2. LoadKeys(slots)[slots[n].key] = [pos |-> n, idx |-> slots[n].idx]
          BY <3>1, LoadKeysFacts
        <4>3. slots[n].key \in Keys /\ slots[n].idx \in Index
          BY <3>1, HeldEntry
        <4>4. n \in 1 .. Len(slots)
          BY <4>1 DEF Held
        <4> QED  BY <1>1, <2>1, <4>1, <4>2, <4>3, <4>4
      <3> QED  BY <3>2 DEF KeysTyped
    <2>3. MemoryTyped'
      <3>1. next_idx' \in 0 .. MaxRecords /\ (Have # {} => Greatest(Have) \in Chunk)
        BY <1>t, <2>1, NextIdxFacts DEF Files, NumbersOK, Have
      <3>2. chunks' \in [Chunk -> Objects \cup {NoObject}]
        BY <1>t, <2>1, <3>1, GetChunkFacts DEF MemoryTyped
      <3> QED  BY <1>t, <2>1, <3>1, <3>2 DEF MemoryTyped
    <2>4. FilesTyped' /\ MoreTypes' /\ Idle' /\ op' \in OpType /\ comp' \in CompType /\ up' \in BOOLEAN
      BY <1>t, <1>1, <2>1 DEF FilesTyped, MoreTypes, Idle
    <2> QED  BY <2>2, <2>3, <2>4, TypesFromParts
  <1> QED  BY <1>2, <1>3

\* Every step keeps the types.
LEMMA TypesStep == ASSUME IInv, [Next]_vars PROVE Types'
  <1>1. CASE Next
    BY <1>1, TypesRequest, TypesKeys, TypesCompact, TypesProcess DEF IInv, Names, Next
  <1>2. CASE UNCHANGED vars
    BY <1>2 DEF vars, IInv, Types, TypeOK, MoreTypes, Idle
  <1> QED  BY <1>1, <1>2
-----------------------------------------------------------------------------
\* Writing one record, whatever the compaction does: set(), append(), delete.
LEMMA FilesWrite ==
    ASSUME Types, Files, NEW full \in Index, NEW w, NEW f \in Content,
           ~Closed(ChunkOf(full)), f[InChunk(full)] = w,
           \A j \in Idx \ {InChunk(full)} :
              f[j] = IF path[ChunkOf(full)] = NoFile THEN Missing ELSE path[ChunkOf(full)][j],
           path' = [path EXCEPT ![ChunkOf(full)] = f], truth' = [truth EXCEPT ![full] = w],
           gone' \in {gone \cup {full}, gone \ {full}}, Copied(full) => full \in gone',
           torn' = torn \ {full}, UNCHANGED <<tmp, old, comp>>
    PROVE  Files'
  <1> DEFINE c == ChunkOf(full)
             i == InChunk(full)
  <1>t. FilesTyped /\ comp \in CompType /\ truth \in [Index -> Values \cup {Missing}]
    BY TypeParts DEF MoreTypes
  <1>1. c \in Chunk /\ i \in Idx /\ c * ChunkRecords + i = full /\ f # NoFile
        /\ comp.chunk \in Chunk
    BY <1>t, Numbers, FileFacts DEF CompType
  <1>2. path'[c] = f /\ \A d \in Chunk : d # c => path'[d] = path[d]
    BY <1>t, <1>1 DEF FilesTyped
  <1>3. ASSUME NEW g \in Index, g # full
        PROVE  /\ Stored(g)' = Stored(g) /\ truth'[g] = truth[g]
               /\ (g \in torn' <=> g \in torn) /\ (g \in gone' <=> g \in gone)
    <2>1. ChunkOf(g) \in Chunk /\ InChunk(g) \in Idx
          /\ ChunkOf(g) * ChunkRecords + InChunk(g) = g
      BY Numbers
    <2>2. CASE ChunkOf(g) = c
      <3>1. InChunk(g) # i
        BY <1>1, <1>3, <2>1, <2>2
      <3> QED  BY <1>t, <1>1, <1>2, <1>3, <2>1, <2>2, <3>1 DEF Stored
    <2>3. CASE ChunkOf(g) # c
      BY <1>t, <1>2, <1>3, <2>1, <2>3 DEF Stored
    <2> QED  BY <2>2, <2>3
  <1>4. Stored(full)' = truth'[full]
    BY <1>t, <1>1, <1>2 DEF Stored
  <1>5. ~(comp.phase \in {"install", "clean"} /\ comp.chunk = c)
    BY DEF Closed
  <1>6. PhaseOK'
    BY <1>1, <1>2, <1>5 DEF Files, PhaseOK
  <1>7. NumbersOK'
    <2>1. ASSUME NEW d \in Chunk, NEW j \in Idx, d * ChunkRecords + j \notin Index
          PROVE  path'[d] = NoFile \/ path'[d][j] = Missing
      <3>1. path[d] = NoFile \/ path[d][j] = Missing
        BY <2>1 DEF Files, NumbersOK, Numbered
      <3>2. CASE d = c
        <4>1. j # i
          BY <1>1, <2>1, <3>2
        <4> QED  BY <1>2, <3>1, <3>2, <4>1
      <3> QED  BY <1>2, <3>1, <3>2
    <2> QED  BY <2>1 DEF Files, NumbersOK, Numbered
  <1>8. Kept'
    BY <1>3, <1>4 DEF Files, Kept, Sound, Away
  <1>9. CopyKept'
    <2>1. ASSUME comp.phase \in {"copy", "install"}, NEW g \in Index, Sound(g)',
                 ChunkOf(g) = comp.chunk, InChunk(g) < comp.i
          PROVE  tmp[comp.chunk][InChunk(g)] = truth'[g]
      <3>1. CASE g = full
        BY <1>5, <2>1, <3>1 DEF Copied, Sound
      <3>2. CASE g # full
        BY <1>3, <2>1, <3>2 DEF Files, CopyKept, Sound
      <3> QED  BY <3>1, <3>2
    <2> QED  BY <2>1 DEF CopyKept
  <1>10. MissingChunkIsInOld'
    <2>1. ASSUME NEW g \in Index \ gone', path'[ChunkOf(g)] = NoFile, truth'[g] # Missing
          PROVE  old[ChunkOf(g)] # NoFile /\ old[ChunkOf(g)][InChunk(g)] = truth'[g]
      <3>1. ChunkOf(g) \in Chunk /\ ChunkOf(g) # c
        BY <1>1, <1>2, <2>1, Numbers
      <3>2. g # full /\ path[ChunkOf(g)] = NoFile
        BY <1>2, <2>1, <3>1
      <3> QED  BY <1>3, <2>1, <3>2 DEF Files, MissingChunkIsInOld
    <2> QED  BY <2>1 DEF MissingChunkIsInOld
  <1> QED  BY <1>6, <1>7, <1>8, <1>9, <1>10 DEF Files

LEMMA FilesRequest ==
    ASSUME Types, Files,
           \/ \E v \in Values : Request(v)
           \/ \E full \in Index : Delete(full)
    PROVE  Files'
  <1>t. FilesTyped /\ comp \in CompType
    BY TypeParts
  <1>1. ASSUME NEW v \in Values, NEW full \in Index, Stores(full, v) PROVE Files'
    <2> DEFINE c == ChunkOf(full)
               i == InChunk(full)
               e == IF path[c] = NoFile THEN Blank ELSE path[c]
               f == [e EXCEPT ![i] = v]
    <2>1. c \in Chunk /\ i \in Idx
      BY Numbers
    <2>2. e \in Content
      BY <1>t, <2>1, FileFacts DEF FilesTyped
    <2>3. f \in Content /\ f[i] = v /\ \A j \in Idx \ {i} : f[j] = e[j]
      <3> HIDE DEF e
      <3> QED  BY <2>1, <2>2, FileFacts DEF Content
    <2>4. \A j \in Idx \ {i} : f[j] = IF path[c] = NoFile THEN Missing ELSE path[c][j]
      BY <2>3 DEF Blank
    <2>5. /\ ~Closed(c) /\ path' = [path EXCEPT ![c] = f] /\ truth' = [truth EXCEPT ![full] = v]
          /\ gone' \in {gone \cup {full}, gone \ {full}} /\ (Copied(full) => full \in gone')
          /\ torn' = torn \ {full} /\ UNCHANGED <<tmp, old, comp>>
      BY <1>1 DEF Stores, Store
    <2> HIDE DEF f, e
    <2> QED  BY <2>1, <2>3, <2>4, <2>5, FilesWrite
  <1>2. ASSUME NEW full \in Index, Delete(full) PROVE Files'
    <2> DEFINE c == ChunkOf(full)
               i == InChunk(full)
               f == [path[c] EXCEPT ![i] = Missing]
    <2>1. c \in Chunk /\ i \in Idx
      BY Numbers
    <2>2. path[c] # NoFile /\ path[c] \in Content
      BY <1>t, <1>2, <2>1 DEF FilesTyped, Delete, GetChunk
    <2>3. f \in Content /\ f[i] = Missing /\ \A j \in Idx \ {i} : f[j] = path[c][j]
      BY <2>1, <2>2, FileFacts DEF Content
    <2>4. /\ path' = [path EXCEPT ![c] = f] /\ truth' = [truth EXCEPT ![full] = Missing]
          /\ gone' = gone \ {full} /\ torn' = torn \ {full} /\ UNCHANGED <<tmp, old, comp>>
          /\ comp = Quiet
      BY <1>2 DEF Delete, Start
    <2>5. ~Closed(c) /\ ~Copied(full)
      BY <2>4 DEF Quiet, Closed, Copied
    <2> HIDE DEF f
    <2> QED  BY <2>1, <2>2, <2>3, <2>4, <2>5, FilesWrite
  <1> QED  BY <1>1, <1>2, RequestStores

\* The compaction, step by step.
LEMMA FilesCompact == ASSUME Types, Files, Compact PROVE Files'
  <1>t. FilesTyped /\ comp \in CompType /\ truth \in [Index -> Values \cup {Missing}]
    BY TypeParts DEF MoreTypes
  <1>c. comp.chunk \in Chunk /\ comp.todo \subseteq Chunk /\ comp.i \in Nat
        /\ comp.i <= ChunkRecords
    BY <1>t, Sizes DEF CompType
  <1>1. ASSUME (\E partial \in BOOLEAN, which \in Chunk : CompactStart(partial, which)) \/ CompactDone
        PROVE  Files'
    <2>1. /\ UNCHANGED <<path, tmp, old, truth, torn, gone>>
          /\ comp.phase \in {"none", "next"} /\ comp'.phase \in {"none", "next"} /\ comp'.i = 0
      <3>1. CASE CompactDone
        BY <3>1 DEF CompactDone, files, history, Quiet
      <3>2. ASSUME NEW partial \in BOOLEAN, NEW which \in Chunk, CompactStart(partial, which)
            PROVE  /\ UNCHANGED <<path, tmp, old, truth, torn, gone>>
                   /\ comp.phase = "none" /\ comp'.phase = "next" /\ comp'.i = 0
        BY <3>2 DEF CompactStart, files, history, Quiet
      <3> QED  BY <1>1, <3>1, <3>2
    <2> QED  BY <2>1 DEF Files, PhaseOK, NumbersOK, Numbered, Kept, CopyKept, Away, Sound, Stored,
                         MissingChunkIsInOld
  <1>2. ASSUME CompactOpen PROVE Files'
    <2> DEFINE c == Least(comp.todo)
    <2>1. c \in Chunk
      BY <1>2, <1>c, FirstChunk, LeastIs DEF CompactOpen
    <2>2. comp.phase = "next" /\ comp.i = 0 /\ UNCHANGED <<path, old, truth, torn, gone>>
      BY <1>2 DEF CompactOpen, history, Files, PhaseOK
    <2>3. /\ \A d \in Chunk, j \in Idx :
                tmp'[d] = tmp[d] \/ tmp'[d] = NoFile \/ tmp'[d][j] = Missing
          /\ \/ comp'.phase \in {"none", "next"} /\ comp'.i = 0
             \/ /\ comp' = [comp EXCEPT !.phase = "copy", !.chunk = c]
                /\ tmp'[c] = Blank /\ path[c] # NoFile
      <3>1. CASE comp' = Quiet /\ UNCHANGED tmp
        BY <3>1 DEF Quiet
      <3>2. CASE tmp' = [tmp EXCEPT ![c] = NoFile] /\ comp' = [comp EXCEPT !.todo = @ \ {c}]
        BY <1>t, <2>1, <2>2, <3>2 DEF FilesTyped, CompType
      <3>3. CASE /\ tmp' = [tmp EXCEPT ![c] = Blank] /\ GetChunk(c, FALSE)
                 /\ comp' = [comp EXCEPT !.phase = "copy", !.chunk = c]
        BY <1>t, <2>1, <3>3 DEF FilesTyped, Blank, GetChunk
      <3> QED  BY <1>2, <3>1, <3>2, <3>3 DEF CompactOpen
    <2> HIDE DEF c
    <2>4. NumbersOK'
      BY <2>2, <2>3 DEF Files, NumbersOK, Numbered
    <2>5. Kept' /\ MissingChunkIsInOld'
      <3>1. comp'.phase # "install"
        BY <1>t, <2>3 DEF CompType
      <3> QED  BY <2>2, <3>1 DEF Files, Kept, Away, Sound, Stored, MissingChunkIsInOld
    <2>6. PhaseOK' /\ CopyKept'
      <3>1. CASE comp'.phase \in {"none", "next"} /\ comp'.i = 0
        BY <3>1 DEF PhaseOK, CopyKept
      <3>2. CASE /\ comp' = [comp EXCEPT !.phase = "copy", !.chunk = c]
                 /\ tmp'[c] = Blank /\ path[c] # NoFile
        <4>1. comp'.phase = "copy" /\ comp'.chunk = c /\ comp'.i = 0
          BY <1>t, <2>2, <3>2 DEF CompType
        <4>2. PhaseOK'
          BY <2>2, <3>2, <4>1, FileFacts DEF PhaseOK
        <4>3. ASSUME NEW full \in Index PROVE ~(InChunk(full) < 0)
          <5>1. InChunk(full) \in Nat
            BY Numbers, Sizes
          <5> QED  BY <5>1
        <4> QED  BY <4>1, <4>2, <4>3 DEF CopyKept
      <3> QED  BY <2>3, <3>1, <3>2
    <2> QED  BY <2>4, <2>5, <2>6 DEF Files
  <1>3. ASSUME CompactCopy PROVE Files'
    <2> DEFINE c == comp.chunk
               n == comp.i
    <2>1. /\ comp.phase = "copy" /\ n \in Idx
          /\ tmp' = [tmp EXCEPT ![c][n] = path[c][n]]
          /\ UNCHANGED <<path, old, truth, torn, gone>>
      BY <1>3, <1>c, Sizes DEF CompactCopy, history, Idx
    <2>2. comp'.phase = "copy" /\ comp'.chunk = c /\ comp'.i = n + 1
      BY <1>3, <1>t DEF CompactCopy, CompType
    <2>3. path[c] \in Content /\ tmp[c] \in Content
      BY <1>t, <1>c, <2>1 DEF FilesTyped, Files, PhaseOK
    <2>4. /\ \A d \in Chunk : d # c => tmp'[d] = tmp[d]
          /\ tmp'[c] = [tmp[c] EXCEPT ![n] = path[c][n]]
          /\ tmp'[c] \in Content
          /\ \A j \in Idx : tmp'[c][j] = IF j = n THEN path[c][n] ELSE tmp[c][j]
      BY <1>t, <1>c, <2>1, <2>3, FileFacts DEF FilesTyped, Content
    <2>5. PhaseOK'
      BY <2>1, <2>2, <2>3, <2>4, FileFacts DEF PhaseOK
    <2>6. NumbersOK'
      BY <1>c, <2>1, <2>3, <2>4, FileFacts DEF Files, NumbersOK, Numbered
    <2>7. Kept' /\ MissingChunkIsInOld'
      BY <2>1, <2>2 DEF Files, Kept, Away, Sound, Stored, MissingChunkIsInOld
    <2>8. CopyKept'
      <3>1. ASSUME NEW full \in Index, Sound(full), ChunkOf(full) = c, InChunk(full) < n + 1
            PROVE  tmp'[c][InChunk(full)] = truth[full]
        <4>1. InChunk(full) \in Idx /\ InChunk(full) \in Nat /\ n \in Nat
          BY <1>c, Numbers, Sizes
        <4>2. CASE InChunk(full) = n
          <5>1. Stored(full) = truth[full]
            BY <2>1, <3>1 DEF Files, Kept, Away
          <5>2. Stored(full) = path[c][n]
            BY <2>3, <3>1, <4>2, FileFacts DEF Stored
          <5> QED  BY <2>1, <2>4, <4>2, <5>1, <5>2
        <4>3. CASE InChunk(full) # n
          <5>1. InChunk(full) < n
            BY <3>1, <4>1, <4>3
          <5>2. tmp[c][InChunk(full)] = truth[full]
            BY <2>1, <3>1, <5>1 DEF Files, CopyKept
          <5> QED  BY <2>4, <4>1, <4>3, <5>2
        <4> QED  BY <4>2, <4>3
      <3> QED  BY <2>1, <2>2, <3>1 DEF CopyKept, Sound
    <2> QED  BY <2>5, <2>6, <2>7, <2>8 DEF Files
  <1>4. ASSUME CompactRotate PROVE Files'
    <2> DEFINE c == comp.chunk
    <2>1. /\ comp.phase = "copy" /\ comp.i = ChunkRecords
          /\ old' = [old EXCEPT ![c] = path[c]] /\ path' = [path EXCEPT ![c] = NoFile]
          /\ gone' = gone \cup {full \in torn : ChunkOf(full) = c}
          /\ UNCHANGED <<tmp, truth, torn>>
      BY <1>4 DEF CompactRotate
    <2>2. comp'.phase = "install" /\ comp'.chunk = c /\ comp'.i = ChunkRecords
      BY <1>4, <1>t DEF CompactRotate, CompType
    <2>3. /\ path'[c] = NoFile /\ old'[c] = path[c] /\ path[c] # NoFile /\ tmp[c] # NoFile
          /\ \A d \in Chunk : d # c => path'[d] = path[d] /\ old'[d] = old[d]
      BY <1>t, <1>c, <2>1 DEF FilesTyped, Files, PhaseOK
    <2>4. PhaseOK' /\ NumbersOK'
      BY <2>1, <2>2, <2>3 DEF Files, PhaseOK, NumbersOK, Numbered
    <2>5. Kept'
      <3>1. ASSUME NEW full \in Index, Sound(full)', ChunkOf(full) # c
            PROVE  Stored(full)' = truth[full]
        <4>1. Stored(full)' = Stored(full)
          BY <2>3, <3>1, Numbers DEF Stored
        <4> QED  BY <2>1, <3>1, <4>1 DEF Files, Kept, Sound, Away
      <3> QED  BY <2>1, <2>2, <3>1 DEF Kept, Away
    <2>6. CopyKept'
      BY <2>1, <2>2 DEF Files, CopyKept, Sound
    <2>7. MissingChunkIsInOld'
      <3>1. ASSUME NEW full \in Index \ gone', path'[ChunkOf(full)] = NoFile, truth[full] # Missing
            PROVE  old'[ChunkOf(full)] # NoFile /\ old'[ChunkOf(full)][InChunk(full)] = truth[full]
        <4>1. ChunkOf(full) \in Chunk
          BY Numbers
        <4>2. CASE ChunkOf(full) = c
          <5>1. Sound(full) /\ ~Away(ChunkOf(full))
            BY <2>1, <3>1, <4>2 DEF Sound, Away
          <5>2. Stored(full) = truth[full]
            BY <5>1 DEF Files, Kept
          <5> QED  BY <2>3, <4>2, <5>2 DEF Stored
        <4>3. CASE ChunkOf(full) # c
          BY <2>1, <2>3, <3>1, <4>1, <4>3 DEF Files, MissingChunkIsInOld
        <4> QED  BY <4>2, <4>3
      <3> QED  BY <2>1, <3>1 DEF MissingChunkIsInOld
    <2> QED  BY <2>4, <2>5, <2>6, <2>7 DEF Files
  <1>5. ASSUME CompactInstall PROVE Files'
    <2> DEFINE c == comp.chunk
    <2>1. /\ comp.phase = "install" /\ comp.i = ChunkRecords
          /\ path' = [path EXCEPT ![c] = tmp[c]] /\ tmp' = [tmp EXCEPT ![c] = NoFile]
          /\ UNCHANGED <<old, truth, torn, gone>>
      BY <1>5 DEF CompactInstall, history, Files, PhaseOK
    <2>2. comp'.phase = "clean" /\ comp'.chunk = c
      BY <1>5, <1>t DEF CompactInstall, CompType
    <2>3. /\ path'[c] = tmp[c] /\ tmp[c] # NoFile /\ tmp'[c] = NoFile
          /\ \A d \in Chunk : d # c => path'[d] = path[d] /\ tmp'[d] = tmp[d]
      BY <1>t, <1>c, <2>1 DEF FilesTyped, Files, PhaseOK
    <2>4. PhaseOK' /\ NumbersOK' /\ CopyKept'
      BY <2>1, <2>2, <2>3 DEF Files, PhaseOK, NumbersOK, Numbered, CopyKept
    <2>5. Kept'
      <3>1. ASSUME NEW full \in Index, Sound(full) PROVE Stored(full)' = truth[full]
        <4>1. ChunkOf(full) \in Chunk /\ InChunk(full) \in Idx /\ InChunk(full) < ChunkRecords
          BY Numbers, Sizes DEF Idx
        <4>2. CASE ChunkOf(full) = c
          <5>1. tmp[c][InChunk(full)] = truth[full]
            BY <2>1, <3>1, <4>1, <4>2 DEF Files, CopyKept
          <5> QED  BY <2>3, <4>2, <5>1 DEF Stored
        <4>3. CASE ChunkOf(full) # c
          <5>1. Stored(full) = truth[full]
            BY <3>1, <4>3 DEF Files, Kept, Away
          <5> QED  BY <2>3, <4>1, <4>3, <5>1 DEF Stored
        <4> QED  BY <4>2, <4>3
      <3> QED  BY <2>1, <3>1 DEF Kept, Sound
    <2>6. MissingChunkIsInOld'
      <3>1. \A full \in Index : path'[ChunkOf(full)] = NoFile => path[ChunkOf(full)] = NoFile
        BY <2>3, Numbers
      <3> QED  BY <2>1, <3>1 DEF Files, MissingChunkIsInOld
    <2> QED  BY <2>4, <2>5, <2>6 DEF Files
  <1>6. ASSUME CompactClean PROVE Files'
    <2> DEFINE c == comp.chunk
    <2>1. comp.phase = "clean" /\ old' = [old EXCEPT ![c] = NoFile]
          /\ UNCHANGED <<path, tmp, truth, torn, gone>>
      BY <1>6 DEF CompactClean, history
    <2>2. comp'.phase = "next" /\ comp'.i = 0
      BY <1>6, <1>t DEF CompactClean, NextChunk, CompType
    <2>3. path[c] # NoFile /\ \A d \in Chunk : d # c => old'[d] = old[d]
      BY <1>t, <1>c, <2>1 DEF FilesTyped, Files, PhaseOK
    <2>4. PhaseOK' /\ NumbersOK' /\ CopyKept' /\ Kept'
      BY <2>1, <2>2 DEF Files, PhaseOK, NumbersOK, Numbered, CopyKept, Kept, Away, Sound, Stored
    <2>5. MissingChunkIsInOld'
      BY <2>1, <2>3, Numbers DEF Files, MissingChunkIsInOld
    <2> QED  BY <2>4, <2>5 DEF Files
  <1> QED  BY <1>1, <1>2, <1>3, <1>4, <1>5, <1>6 DEF Compact

\* Every step keeps what is known of the files.
LEMMA FilesStep == ASSUME IInv, [Next]_vars PROVE Files'
  <1> USE DEF IInv
  <1>1. ASSUME Kill PROVE Files'
    <2>1. /\ UNCHANGED <<path, tmp, old, truth, gone>> /\ comp'.phase = "none"
          /\ torn' = torn \cup {full \in Index : Away(ChunkOf(full))}
      BY <1>1 DEF Kill, files, Quiet, Away
    <2>2. PhaseOK' /\ NumbersOK' /\ CopyKept' /\ MissingChunkIsInOld'
      BY <2>1 DEF Files, PhaseOK, NumbersOK, Numbered, CopyKept, MissingChunkIsInOld
    <2>3. Kept'
      BY <2>1 DEF Files, Kept, Sound, Stored
    <2> QED  BY <2>2, <2>3 DEF Files
  <1>2. ASSUME UNCHANGED <<path, tmp, old, comp, truth, torn, gone>> PROVE Files'
    BY <1>2 DEF Files, PhaseOK, NumbersOK, Numbered, Kept, CopyKept, Away, Sound, Stored,
                MissingChunkIsInOld
  <1>3. ASSUME NEW k \in Keys, WriteKey(k) \/ DelKey(k) \/ \E full \in Index : SetKey(k, full)
        PROVE  Files'
    BY <1>2, <1>3 DEF WriteKey, DelKey, SetKey, history
  <1>4. ASSUME NEW full \in Index, NEW want \in BOOLEAN, Get(full, want) PROVE Files'
    BY <1>2, <1>4 DEF Get, files, history
  <1>5. ASSUME Flush \/ Open PROVE Files'
    BY <1>2, <1>5 DEF Flush, Open, files, history
  <1>6. CASE UNCHANGED vars
    BY <1>2, <1>6 DEF vars
  <1> QED  BY <1>1, <1>3, <1>4, <1>5, <1>6, FilesRequest, FilesCompact DEF Next
-----------------------------------------------------------------------------
\* A chunk keeps its object or gets one that nothing refers to.
Renewed(c) == \E o \in Objects : /\ o = chunks[c] \/ o \in Free
                                 /\ chunks' = [chunks EXCEPT ![c] = o]

LEMMA RenewedFacts ==
    ASSUME Types, Distinct, NEW c \in Chunk, Renewed(c)
    PROVE  /\ Distinct'
           /\ \A d \in Chunk : \A i : <<i, chunks'[d]>> \in DOMAIN cache => chunks'[d] = chunks[d]
  <1>1. PICK o \in Objects : /\ o = chunks[c] \/ o \in Free
                             /\ chunks' = [chunks EXCEPT ![c] = o]
    BY DEF Renewed
  <1>2. chunks \in [Chunk -> Objects \cup {NoObject}] /\ NoObject \notin Objects
    BY TypeParts, Sizes DEF MemoryTyped, NoObject, Objects
  <1>3. o \in Free => \A d \in Chunk : chunks[d] # o
    BY DEF Free
  <1>4. o \in Free => \A i : <<i, o>> \notin DOMAIN cache
    <2>1. ASSUME o \in Free, NEW i, <<i, o>> \in DOMAIN cache PROVE FALSE
      <3>1. <<i, o>>[2] # o
        BY <2>1 DEF Free
      <3> QED  BY <3>1
    <2> QED  BY <2>1
  <1>5. Distinct'
    BY <1>1, <1>2, <1>3 DEF Distinct
  <1>6. ASSUME NEW d \in Chunk, NEW i, <<i, chunks'[d]>> \in DOMAIN cache
        PROVE  chunks'[d] = chunks[d]
    BY <1>1, <1>2, <1>4, <1>6
  <1> QED  BY <1>5, <1>6

LEMMA GetChunkRenews ==
    ASSUME Types, NEW c \in Chunk, NEW create, GetChunk(c, create)
    PROVE  Renewed(c) /\ chunks'[c] = Obj(c) /\ Obj(c) \in Objects /\ Obj(c) # NoObject
  <1>1. MemoryTyped
    BY TypeParts
  <1>2. /\ chunks' = [chunks EXCEPT ![c] = Obj(c)] /\ Obj(c) \in Objects
        /\ (chunks[c] = NoObject => Obj(c) \in Free)
    BY <1>1, GetChunkFacts
  <1>3. Obj(c) = chunks[c] \/ Obj(c) \in Free
    BY <1>2 DEF Obj
  <1>4. 0 \notin Objects
    BY Sizes DEF Objects
  <1> QED  BY <1>1, <1>2, <1>3, <1>4 DEF Renewed, MemoryTyped, NoObject

\* A step of the compaction, or one that only opens chunks.
LEMMA CacheKept ==
    ASSUME Types, Memory, UNCHANGED <<cache, truth>>,
           \A full \in Index : Sound(full)' => Sound(full),
           UNCHANGED chunks \/ \E c \in Chunk : Renewed(c)
    PROVE  Memory'
  <1>1. CASE UNCHANGED chunks
    BY <1>1 DEF Memory, Distinct, FreshCache, Slot
  <1>2. ASSUME NEW c \in Chunk, Renewed(c) PROVE Memory'
    <2>1. Distinct'
      BY <1>2, RenewedFacts DEF Memory
    <2>2. ASSUME NEW full \in Index, Sound(full)', Slot(full)' \in DOMAIN cache
          PROVE  cache[Slot(full)'] = truth[full]
      <3>1. Slot(full)' = <<InChunk(full), chunks'[ChunkOf(full)]>> /\ ChunkOf(full) \in Chunk
        BY Numbers DEF Slot
      <3>2. chunks'[ChunkOf(full)] = chunks[ChunkOf(full)]
        BY <1>2, <2>2, <3>1, RenewedFacts DEF Memory
      <3>3. Slot(full)' = Slot(full)
        BY <3>1, <3>2 DEF Slot
      <3> QED  BY <2>2, <3>3 DEF Memory, FreshCache
    <2> QED  BY <2>1, <2>2 DEF Memory, FreshCache
  <1> QED  BY <1>1, <1>2

\* A request on one record, whose slot in the cache is its own.
LEMMA CacheOne ==
    ASSUME Types, Memory, NEW full \in Index, NEW create, GetChunk(ChunkOf(full), create),
           \A g \in Index : g # full => truth'[g] = truth[g] /\ (Sound(g)' => Sound(g)),
           \A p \in DOMAIN cache' :
              p # <<InChunk(full), Obj(ChunkOf(full))>> => p \in DOMAIN cache /\ cache'[p] = cache[p],
           <<InChunk(full), Obj(ChunkOf(full))>> \in DOMAIN cache' /\ Sound(full)' =>
              cache'[<<InChunk(full), Obj(ChunkOf(full))>>] = truth'[full]
    PROVE  Memory'
  <1> DEFINE c == ChunkOf(full)
             i == InChunk(full)
  <1>1. c \in Chunk /\ i \in Idx /\ c * ChunkRecords + i = full
    BY Numbers
  <1>2. Renewed(c) /\ chunks'[c] = Obj(c) /\ Obj(c) # NoObject
    BY <1>1, GetChunkRenews
  <1>3. Distinct'
    BY <1>1, <1>2, RenewedFacts DEF Memory
  <1>4. ASSUME NEW g \in Index, Sound(g)', Slot(g)' \in DOMAIN cache'
        PROVE  cache'[Slot(g)'] = truth'[g]
    <2>1. Slot(g)' = <<InChunk(g), chunks'[ChunkOf(g)]>> /\ ChunkOf(g) \in Chunk
          /\ ChunkOf(g) * ChunkRecords + InChunk(g) = g
      BY Numbers DEF Slot
    <2>2. CASE g = full
      BY <1>2, <1>4, <2>1, <2>2
    <2>3. CASE g # full
      <3>1. Slot(g)' # <<i, Obj(c)>>
        <4>1. SUFFICES ASSUME InChunk(g) = i, chunks'[ChunkOf(g)] = chunks'[c] PROVE FALSE
          BY <1>2, <2>1
        <4>2. ChunkOf(g) = c
          BY <1>1, <1>2, <1>3, <2>1, <4>1 DEF Distinct
        <4> QED  BY <1>1, <2>1, <2>3, <4>1, <4>2
      <3>2. Slot(g)' \in DOMAIN cache /\ cache'[Slot(g)'] = cache[Slot(g)']
        BY <1>4, <3>1
      <3>3. chunks'[ChunkOf(g)] = chunks[ChunkOf(g)]
        BY <1>1, <1>2, <2>1, <3>2, RenewedFacts DEF Memory
      <3>4. Slot(g)' = Slot(g)
        BY <2>1, <3>3 DEF Slot
      <3> QED  BY <1>4, <2>3, <3>2, <3>4 DEF Memory, FreshCache
    <2> QED  BY <2>2, <2>3
  <1> QED  BY <1>3, <1>4 DEF Memory, FreshCache

\* Every step keeps the cache fresh.
LEMMA MemoryStep == ASSUME IInv, [Next]_vars PROVE Memory'
  <1>i. Types /\ Memory /\ Kept /\ Distinct
    BY DEF IInv, Files, Memory
  <1>t. FilesTyped /\ MemoryTyped /\ comp \in CompType /\ truth \in [Index -> Values \cup {Missing}]
    BY <1>i, TypeParts DEF MoreTypes
  <1>1. ASSUME NEW v \in Values, NEW full \in Index, Stores(full, v) PROVE Memory'
    <2> DEFINE pair == <<InChunk(full), Obj(ChunkOf(full))>>
    <2>1. PICK create \in BOOLEAN : GetChunk(ChunkOf(full), create)
      BY <1>1 DEF Stores, Store
    <2>2. /\ cache' = Cached(pair, v, FALSE) /\ truth' = [truth EXCEPT ![full] = v]
          /\ gone' \in {gone \cup {full}, gone \ {full}} /\ torn' = torn \ {full}
      BY <1>1 DEF Stores, Store
    <2>3. \A g \in Index : g # full => truth'[g] = truth[g] /\ (Sound(g)' => Sound(g))
      BY <1>t, <2>2 DEF Sound
    <2>4. /\ \A p \in DOMAIN cache' : p # pair => p \in DOMAIN cache /\ cache'[p] = cache[p]
          /\ pair \in DOMAIN cache' => cache'[pair] = v
      <3> HIDE DEF pair
      <3> QED  BY <2>2 DEF Cached
    <2>5. truth'[full] = v
      BY <1>t, <2>2
    <2> QED  BY <1>i, <2>1, <2>3, <2>4, <2>5, CacheOne
  <1>2. ASSUME NEW full \in Index, Delete(full) PROVE Memory'
    <2> DEFINE pair == <<InChunk(full), Obj(ChunkOf(full))>>
    <2>1. GetChunk(ChunkOf(full), FALSE)
      BY <1>2 DEF Delete
    <2>2. /\ cache' = [p \in DOMAIN cache \ {pair} |-> cache[p]]
          /\ truth' = [truth EXCEPT ![full] = Missing]
          /\ gone' = gone \ {full} /\ torn' = torn \ {full}
      BY <1>2 DEF Delete
    <2>3. \A g \in Index : g # full => truth'[g] = truth[g] /\ (Sound(g)' => Sound(g))
      BY <1>t, <2>2 DEF Sound
    <2>4. /\ \A p \in DOMAIN cache' : p # pair => p \in DOMAIN cache /\ cache'[p] = cache[p]
          /\ pair \notin DOMAIN cache'
      <3> HIDE DEF pair
      <3> QED  BY <2>2
    <2> QED  BY <1>i, <2>1, <2>3, <2>4, CacheOne
  <1>3. ASSUME NEW full \in Index, NEW want \in BOOLEAN, Get(full, want) PROVE Memory'
    <2> DEFINE c == ChunkOf(full)
               i == InChunk(full)
               pair == <<i, Obj(c)>>
    <2>1. GetChunk(c, FALSE) /\ ~Closed(c) /\ path[c] # NoFile
      BY <1>3 DEF Get, GetChunk
    <2>2. /\ cache' = IF pair \notin DOMAIN cache /\ path[c][i] # Missing
                      THEN Cached(pair, path[c][i], want) ELSE cache
          /\ UNCHANGED <<truth, torn, gone>>
      BY <1>3 DEF Get, history
    <2>3. \A g \in Index : truth'[g] = truth[g] /\ (Sound(g)' => Sound(g))
      BY <2>2 DEF Sound
    <2>4. /\ \A p \in DOMAIN cache' : p # pair => p \in DOMAIN cache /\ cache'[p] = cache[p]
          /\ pair \in DOMAIN cache' /\ pair \notin DOMAIN cache => cache'[pair] = path[c][i]
          /\ pair \in DOMAIN cache => cache'[pair] = cache[pair]
      <3> HIDE DEF pair
      <3> QED  BY <2>2 DEF Cached
    <2>5. Sound(full) => path[c][i] = truth[full]
      BY <1>i, <2>1 DEF Kept, Away, Closed, Stored
    <2>6. ASSUME pair \in DOMAIN cache, Sound(full) PROVE cache[pair] = truth[full]
      <3>1. c \in Chunk
        BY Numbers
      <3>2. Renewed(c) /\ chunks'[c] = Obj(c)
        BY <1>i, <2>1, <3>1, GetChunkRenews
      <3>3. chunks[c] = Obj(c)
        BY <1>i, <2>6, <3>1, <3>2, RenewedFacts
      <3> QED  BY <1>i, <2>6, <3>3 DEF Memory, FreshCache, Slot
    <2>7. pair \in DOMAIN cache' /\ Sound(full)' => cache'[pair] = truth'[full]
      BY <2>2, <2>3, <2>4, <2>5, <2>6
    <2> HIDE DEF c, i
    <2> QED  BY <1>i, <2>1, <2>3, <2>4, <2>7, CacheOne DEF c, i
  <1>4. ASSUME Flush \/ Kill PROVE Memory'
    <2>1. cache' = << >> /\ chunks' = [c \in Chunk |-> NoObject]
      BY <1>4 DEF Flush, Kill
    <2> QED  BY <2>1 DEF Memory, Distinct, FreshCache
  <1>5. ASSUME Open PROVE Memory'
    <2>1. UNCHANGED <<cache, truth, torn, gone>>
          /\ (IF Have = {} THEN UNCHANGED chunks ELSE GetChunk(Greatest(Have), FALSE))
      BY <1>5 DEF Open, history
    <2>2. Have # {} => Greatest(Have) \in Chunk
      BY <1>t, NextIdxFacts DEF IInv, Files, NumbersOK, Have
    <2>3. UNCHANGED chunks \/ \E c \in Chunk : Renewed(c)
      BY <1>i, <2>1, <2>2, GetChunkRenews
    <2> QED  BY <1>i, <2>1, <2>3, CacheKept DEF Sound
  <1>6. ASSUME Compact PROVE Memory'
    <2>1. UNCHANGED <<cache, truth, torn>> /\ gone \subseteq gone'
      BY <1>6 DEF Compact, CompactStart, CompactOpen, CompactCopy, CompactRotate,
         CompactInstall, CompactClean, CompactDone, files, memory, history
    <2>2. UNCHANGED chunks \/ \E c \in Chunk : Renewed(c)
      <3>1. CASE CompactOpen
        <4>1. Least(comp.todo) \in Chunk
          BY <3>1, <1>t, FirstChunk, LeastIs DEF CompactOpen, CompType
        <4>2. UNCHANGED chunks \/ GetChunk(Least(comp.todo), FALSE)
          BY <3>1 DEF CompactOpen
        <4> QED  BY <1>i, <4>1, <4>2, GetChunkRenews
      <3>2. CASE CompactClean
        <4>1. Free # {} /\ chunks' = [chunks EXCEPT ![comp.chunk] = NewObject]
              /\ comp.chunk \in Chunk
          BY <1>t, <3>2 DEF CompactClean, CompType
        <4> QED  BY <4>1, NewObjectIsFree DEF Renewed
      <3>3. CASE ~CompactOpen /\ ~CompactClean
        BY <1>6, <3>3 DEF Compact, CompactStart, CompactCopy, CompactRotate, CompactInstall,
           CompactDone, memory
      <3> QED  BY <3>1, <3>2, <3>3
    <2> QED  BY <1>i, <2>1, <2>2, CacheKept DEF Sound
  <1>7. ASSUME UNCHANGED <<chunks, cache, truth, torn, gone>> PROVE Memory'
    BY <1>i, <1>7, CacheKept DEF Sound
  <1>8. ASSUME NEW k \in Keys, WriteKey(k) \/ DelKey(k) \/ \E full \in Index : SetKey(k, full)
        PROVE  Memory'
    BY <1>7, <1>8 DEF WriteKey, DelKey, SetKey, history
  <1>9. CASE UNCHANGED vars
    BY <1>7, <1>9 DEF vars
  <1> QED  BY <1>i, <1>1, <1>2, <1>3, <1>4, <1>5, <1>6, <1>8, <1>9, RequestStores DEF Next
-----------------------------------------------------------------------------
\* The table in memory and the entries of the file, one for one.
LEMMA KeysAndEntries ==
    ASSUME slots \in Seq(Entry), Unique(slots), keys = LoadKeys(slots)
    PROVE  /\ \A n \in Held(slots) : /\ slots[n].key \in DOMAIN keys
                                     /\ keys[slots[n].key].pos = n
                                     /\ keys[slots[n].key].idx = slots[n].idx
           /\ \A k \in DOMAIN keys : /\ keys[k].pos \in Held(slots)
                                     /\ slots[keys[k].pos].key = k
                                     /\ slots[keys[k].pos].idx = keys[k].idx
  <1>0. /\ DOMAIN LoadKeys(slots) = {slots[n].key : n \in Held(slots)}
        /\ \A n \in Held(slots) : LoadKeys(slots)[slots[n].key] = [pos |-> n, idx |-> slots[n].idx]
    BY LoadKeysFacts
  <1>1. /\ \A n \in Held(slots) : slots[n].key \in DOMAIN keys
        /\ \A k \in DOMAIN keys : \E n \in Held(slots) : k = slots[n].key
    BY <1>0
  <1>2. ASSUME NEW n \in Held(slots)
        PROVE  /\ slots[n].key \in DOMAIN keys /\ keys[slots[n].key].pos = n
               /\ keys[slots[n].key].idx = slots[n].idx
    <2>1. keys[slots[n].key] = [pos |-> n, idx |-> slots[n].idx]
      BY <1>0
    <2> QED  BY <1>1, <2>1
  <1>3. ASSUME NEW k \in DOMAIN keys
        PROVE  /\ keys[k].pos \in Held(slots) /\ slots[keys[k].pos].key = k
               /\ slots[keys[k].pos].idx = keys[k].idx
    <2>1. PICK n \in Held(slots) : k = slots[n].key
      BY <1>1
    <2> QED  BY <1>2, <2>1
  <1> QED  BY <1>2, <1>3

\* A table that has just the entries of a file is what load_keys() makes.
LEMMA TableOfEntries ==
    ASSUME NEW s \in Seq(Entry), Unique(s), NEW t,
           \A n \in Held(s) : s[n].key \in DOMAIN t /\ t[s[n].key] = [pos |-> n, idx |-> s[n].idx],
           \A k \in DOMAIN t : \E n \in Held(s) : s[n].key = k
    PROVE  DOMAIN t = DOMAIN LoadKeys(s) /\ \A k \in DOMAIN t : t[k] = LoadKeys(s)[k]
  <1>1. /\ DOMAIN LoadKeys(s) = {s[n].key : n \in Held(s)}
        /\ \A n \in Held(s) : LoadKeys(s)[s[n].key] = [pos |-> n, idx |-> s[n].idx]
    BY LoadKeysFacts
  <1>2. DOMAIN t = DOMAIN LoadKeys(s)
    <2>1. \A k \in DOMAIN t : k \in {s[n].key : n \in Held(s)}
      OBVIOUS
    <2>2. \A k \in {s[n].key : n \in Held(s)} : k \in DOMAIN t
      OBVIOUS
    <2> QED  BY <1>1, <2>1, <2>2
  <1>3. ASSUME NEW k \in DOMAIN t PROVE t[k] = LoadKeys(s)[k]
    <2>1. PICK n \in Held(s) : s[n].key = k
      OBVIOUS
    <2>2. t[k] = [pos |-> n, idx |-> s[n].idx]
      BY <2>1
    <2>3. LoadKeys(s)[k] = [pos |-> n, idx |-> s[n].idx]
      BY <1>1, <2>1
    <2> QED  BY <2>2, <2>3
  <1> QED  BY <1>2, <1>3

\* set_key() writes the file and the table alike.
LEMMA PutKeyAgrees ==
    ASSUME KeysTyped, MoreTypes, Unique(slots), keys = LoadKeys(slots),
           NEW k \in Keys, NEW full \in Index, PutKey(k, full)
    PROVE  /\ Unique(slots') /\ keys' = LoadKeys(slots')
           /\ Held(slots') = Held(slots) \cup {Pos(k)}
           /\ slots'[Pos(k)] = [key |-> k, idx |-> full]
           /\ \A n \in Held(slots) : n # Pos(k) => slots'[n] = slots[n] /\ slots[n].key # k
  <1>t. slots \in Seq(Entry)
    BY DEF MoreTypes
  <1>p. /\ Pos(k) \in 1 .. Len(slots') /\ slots' \in Seq(Entry)
        /\ Len(slots) \in Nat /\ Len(slots') \in Nat /\ Len(slots) <= Len(slots')
        /\ \A n \in 1 .. Len(slots') :
              slots'[n] = IF n = Pos(k) THEN [key |-> k, idx |-> full] ELSE slots[n]
        /\ keys' = [q \in DOMAIN keys \cup {k} |->
                       IF q = k THEN [pos |-> Pos(k), idx |-> full] ELSE keys[q]]
    BY PutKeyFacts
  <1>l. \A n \in 1 .. Len(slots') : n # Pos(k) => n \in 1 .. Len(slots)
    <2>1. Len(slots') = (IF Pos(k) > Len(slots) THEN Pos(k) ELSE Len(slots))
          /\ (Pos(k) > Len(slots) => Len(slots') = Len(slots) + 1)
      BY PutKeyFacts
    <2> QED  BY <1>p, <2>1
  <1>1. [key |-> k, idx |-> full] # Zero
    BY NoneAssumption DEF Zero
  <1>2. ASSUME NEW n \in Held(slots), n # Pos(k)
        PROVE  slots'[n] = slots[n] /\ slots[n].key # k /\ n \in Held(slots')
    <2>1. n \in 1 .. Len(slots') /\ slots'[n] = slots[n] /\ slots[n] # Zero
      BY <1>p, <1>2 DEF Held
    <2>2. slots[n].key # k
      BY <1>t, <1>2, KeysAndEntries DEF Pos, Named
    <2> QED  BY <2>1, <2>2 DEF Held
  <1>3. slots'[Pos(k)] = [key |-> k, idx |-> full] /\ Pos(k) \in Held(slots')
    BY <1>p, <1>1 DEF Held
  <1>4. \A n \in Held(slots') : n # Pos(k) => n \in Held(slots) /\ slots'[n] = slots[n]
    BY <1>p, <1>l DEF Held
  <1>5. Held(slots') = Held(slots) \cup {Pos(k)}
    <2>1. ASSUME NEW n \in Held(slots) PROVE n \in Held(slots')
      BY <1>2, <1>3
    <2> QED  BY <1>3, <1>4, <2>1
  <1>6. Unique(slots')
    <2>1. ASSUME NEW m \in Held(slots'), NEW n \in Held(slots'), slots'[m].key = slots'[n].key
          PROVE  m = n
      <3>1. CASE m = Pos(k) \/ n = Pos(k)
        BY <1>2, <1>3, <1>4, <2>1, <3>1
      <3>2. CASE m # Pos(k) /\ n # Pos(k)
        BY <1>4, <2>1, <3>2 DEF Unique
      <3> QED  BY <3>1, <3>2
    <2> QED  BY <2>1 DEF Unique
  <1>7. keys' = LoadKeys(slots')
    <2>1. ASSUME NEW n \in Held(slots')
          PROVE  slots'[n].key \in DOMAIN keys' /\ keys'[slots'[n].key] = [pos |-> n, idx |-> slots'[n].idx]
      <3>1. CASE n = Pos(k)
        BY <1>p, <1>3, <3>1
      <3>2. CASE n # Pos(k)
        <4>1. n \in Held(slots) /\ slots'[n] = slots[n] /\ slots[n].key # k
          BY <1>2, <1>4, <3>2
        <4>2. slots[n].key \in DOMAIN keys /\ keys[slots[n].key] = [pos |-> n, idx |-> slots[n].idx]
          <5>1. keys[slots[n].key] = [pos |-> n, idx |-> slots[n].idx]
            BY <1>t, <4>1, LoadKeysFacts
          <5> QED  BY <1>t, <4>1, <5>1, KeysAndEntries
        <4> QED  BY <1>p, <4>1, <4>2
      <3> QED  BY <3>1, <3>2
    <2>2. ASSUME NEW q \in DOMAIN keys' PROVE \E n \in Held(slots') : slots'[n].key = q
      <3>1. CASE q = k
        BY <1>3, <3>1
      <3>2. CASE q # k
        <4>1. q \in DOMAIN keys
          BY <1>p, <3>2
        <4>2. keys[q].pos \in Held(slots) /\ slots[keys[q].pos].key = q
          BY <1>t, <4>1, KeysAndEntries
        <4>3. keys[q].pos # Pos(k)
          <5>1. CASE Named(k)
            BY <1>t, <3>2, <4>2, <5>1, KeysAndEntries DEF Pos, Named
          <5>2. CASE ~Named(k)
            BY <1>p, <4>2, <5>2 DEF Pos, Held
          <5> QED  BY <5>1, <5>2
        <4> QED  BY <1>2, <4>2, <4>3
      <3> QED  BY <3>1, <3>2
    <2>3. DOMAIN keys' = DOMAIN LoadKeys(slots') /\ \A q \in DOMAIN keys' : keys'[q] = LoadKeys(slots')[q]
      <3>1. slots' \in Seq(Entry)
        BY <1>p
      <3> QED  BY <1>6, <2>1, <2>2, <3>1, TableOfEntries
    <2>4. LoadKeys(slots') = [q \in DOMAIN LoadKeys(slots') |-> LoadKeys(slots')[q]]
      BY <1>p, <1>6, LoadKeysFacts
    <2>5. keys' = [q \in DOMAIN keys' |-> keys'[q]]
      BY <1>p
    <2> QED  BY <2>3, <2>4, <2>5
  <1> QED  BY <1>2, <1>3, <1>5, <1>6, <1>7

\* So does del_key().
LEMMA ZeroKeyAgrees ==
    ASSUME KeysTyped, MoreTypes, Unique(slots), keys = LoadKeys(slots),
           NEW k \in DOMAIN keys, ZeroKey(k)
    PROVE  /\ Unique(slots') /\ keys' = LoadKeys(slots')
           /\ \A n \in Held(slots') : n \in Held(slots) /\ slots'[n] = slots[n] /\ slots[n].key # k
  <1>t. slots \in Seq(Entry)
    BY DEF MoreTypes
  <1>p. /\ keys[k].pos \in 1 .. Len(slots) /\ slots' \in Seq(Entry) /\ Len(slots') = Len(slots)
        /\ \A n \in 1 .. Len(slots) : slots'[n] = IF n = keys[k].pos THEN Zero ELSE slots[n]
        /\ keys' = [q \in DOMAIN keys \ {k} |-> keys[q]]
    BY ZeroKeyFacts
  <1>1. ASSUME NEW n \in Held(slots')
        PROVE  n \in Held(slots) /\ slots'[n] = slots[n] /\ slots[n].key # k
    <2>1. n \in Held(slots) /\ slots'[n] = slots[n] /\ n # keys[k].pos
      BY <1>p DEF Held
    <2> QED  BY <1>t, <2>1, KeysAndEntries
  <1>2. \A n \in Held(slots) : n # keys[k].pos => n \in Held(slots') /\ slots'[n] = slots[n]
    BY <1>p DEF Held
  <1>3. Unique(slots')
    BY <1>1 DEF Unique
  <1>4. keys' = LoadKeys(slots')
    <2>1. ASSUME NEW n \in Held(slots')
          PROVE  slots'[n].key \in DOMAIN keys' /\ keys'[slots'[n].key] = [pos |-> n, idx |-> slots'[n].idx]
      <3>1. n \in Held(slots) /\ slots'[n] = slots[n] /\ slots[n].key # k
        BY <1>1
      <3>2. slots[n].key \in DOMAIN keys /\ keys[slots[n].key] = [pos |-> n, idx |-> slots[n].idx]
        <4>1. keys[slots[n].key] = [pos |-> n, idx |-> slots[n].idx]
          BY <1>t, <3>1, LoadKeysFacts
        <4> QED  BY <1>t, <3>1, <4>1, KeysAndEntries
      <3> QED  BY <1>p, <3>1, <3>2
    <2>2. ASSUME NEW q \in DOMAIN keys' PROVE \E n \in Held(slots') : slots'[n].key = q
      <3>1. q \in DOMAIN keys /\ q # k
        BY <1>p
      <3>2. keys[q].pos \in Held(slots) /\ slots[keys[q].pos].key = q /\ keys[q].pos # keys[k].pos
        BY <1>t, <3>1, KeysAndEntries
      <3> QED  BY <1>2, <3>2
    <2>3. DOMAIN keys' = DOMAIN LoadKeys(slots') /\ \A q \in DOMAIN keys' : keys'[q] = LoadKeys(slots')[q]
      <3>1. slots' \in Seq(Entry)
        BY <1>p
      <3> QED  BY <1>3, <2>1, <2>2, <3>1, TableOfEntries
    <2>4. LoadKeys(slots') = [q \in DOMAIN LoadKeys(slots') |-> LoadKeys(slots')[q]]
      BY <1>p, <1>3, LoadKeysFacts
    <2>5. keys' = [q \in DOMAIN keys' |-> keys'[q]]
      BY <1>p
    <2> QED  BY <2>3, <2>4, <2>5
  <1> QED  BY <1>1, <1>3, <1>4

\* While nothing is lost, a record that is there has a number in use.
LEMMA NumberInUse ==
    ASSUME Names, up, ~loose, NEW full \in Index, truth[full] # Missing
    PROVE  full < next_idx
  BY DEF Names, LossIsLoose, NextIsFree, Sound

\* Steps that leave the keys and the records as they are.
LEMMA NamesKept ==
    ASSUME Names, UNCHANGED <<slots, up, keys, op, truth, torn, next_idx, loose>>,
           gone \subseteq gone', gone' # gone => torn # {}
    PROVE  Names'
  <1>1. LossIsLoose'
    BY DEF Names, LossIsLoose
  <1>2. NextIsFree'
    BY DEF Names, NextIsFree, Sound
  <1> QED  BY <1>1, <1>2 DEF Names, KeysAgree, Unique, Held, OpOK, EntriesNameRecords, KeysNameRecords

\* set() and append().
LEMMA NamesStore ==
    ASSUME Types, Names, NEW v \in Values, NEW full \in Index, Stores(full, v)
    PROVE  Names'
  <1>t. truth \in [Index -> Values \cup {Missing}] /\ next_idx \in Nat /\ KeysTyped
    BY TypeParts DEF MoreTypes, MemoryTyped
  <1>s. slots \in Seq(Entry)
    BY TypeParts DEF MoreTypes
  <1>0. PICK create \in BOOLEAN, todo \in SUBSET Keys, locked \in BOOLEAN :
          up /\ op = Done /\ Store(full, v, create, todo, locked)
    BY DEF Stores
  <1>1. /\ next_idx' = (IF full >= next_idx THEN full + 1 ELSE next_idx)
        /\ Doing("set", full, todo, locked)
        /\ truth' = [truth EXCEPT ![full] = v]
        /\ gone' = (IF Copied(full) THEN gone \cup {full} ELSE gone \ {full})
        /\ torn' = torn \ {full}
        /\ loose' = (loose \/ Copied(full))
        /\ UNCHANGED <<slots, up, keys>>
    BY <1>0 DEF Store
  <1>2. full \in Nat /\ full < next_idx' /\ next_idx <= next_idx' /\ next_idx' \in Nat
    BY <1>t, <1>1, Sizes
  <1>3. v # Missing /\ truth'[full] = v /\ \A g \in Index : g # full => truth'[g] = truth[g]
    BY <1>t, <1>1, NoneAssumption
  <1>4. KeysAgree' /\ Unique(slots)'
    BY <1>1 DEF Names, KeysAgree, Unique, Held
  <1>5. OpOK'
    BY <1>1, <1>3 DEF OpOK, Doing, Done
  <1>6. LossIsLoose'
    BY <1>1 DEF Names, LossIsLoose
  <1>7. EntriesNameRecords'
    <2>1. ASSUME ~loose', NEW n \in Held(slots) PROVE truth'[slots[n].idx] # Missing
      <3>1. slots[n].idx \in Index
        BY <1>s, HeldEntry
      <3>2. truth[slots[n].idx] # Missing
        BY <1>0, <1>1, <2>1 DEF Names, EntriesNameRecords, Done
      <3> QED  BY <1>3, <3>1, <3>2
    <2> QED  BY <1>1, <2>1 DEF EntriesNameRecords
  <1>8. NextIsFree'
    <2>1. ASSUME NEW g \in Index, Sound(g)', truth'[g] # Missing PROVE g < next_idx'
      <3>1. CASE g = full
        BY <1>2, <3>1
      <3>2. CASE g # full
        <4>1. Sound(g) /\ truth[g] # Missing /\ g \in Nat
          BY <1>1, <1>3, <2>1, <3>2, Sizes DEF Sound
        <4>2. g < next_idx
          BY <1>0, <4>1 DEF Names, NextIsFree
        <4> QED  BY <1>t, <1>2, <4>1, <4>2
      <3> QED  BY <3>1, <3>2
    <2> QED  BY <2>1 DEF NextIsFree
  <1>9. KeysNameRecords'
    <2>1. ASSUME ~loose', NEW k \in DOMAIN keys PROVE keys[k].idx < next_idx'
      <3>1. keys[k].idx \in Nat
        BY <1>t, Sizes DEF KeysTyped
      <3>2. keys[k].idx < next_idx
        BY <1>0, <1>1, <2>1 DEF Names, KeysNameRecords
      <3> QED  BY <1>t, <1>2, <3>1, <3>2
    <2> QED  BY <1>1, <2>1 DEF KeysNameRecords
  <1> QED  BY <1>4, <1>5, <1>6, <1>7, <1>8, <1>9 DEF Names

\* __delitem__: the keys it is about to forget are excepted, and so is a
\* store where another key names the record.
LEMMA NamesDelete == ASSUME Types, Names, NEW full \in Index, Delete(full) PROVE Names'
  <1>t. truth \in [Index -> Values \cup {Missing}] /\ slots \in Seq(Entry)
    BY TypeParts DEF MoreTypes
  <1>1. /\ up /\ op = Done
        /\ Doing("del", full, ToDelete(full), TRUE)
        /\ truth' = [truth EXCEPT ![full] = Missing]
        /\ gone' = gone \ {full} /\ torn' = torn \ {full}
        /\ loose' = (loose \/ \E k \in DOMAIN keys \ ToDelete(full) : keys[k].idx = full)
        /\ UNCHANGED <<slots, up, keys, next_idx>>
    BY DEF Delete, Start
  <1>2. truth'[full] = Missing /\ \A g \in Index : g # full => truth'[g] = truth[g]
    BY <1>t, <1>1
  <1>3. keys = LoadKeys(slots) /\ Unique(slots)
    BY <1>1 DEF Names, KeysAgree
  <1>4. KeysAgree' /\ Unique(slots)'
    BY <1>1, <1>3 DEF KeysAgree, Unique, Held
  <1>5. OpOK'
    BY <1>1 DEF OpOK, Doing, Done, ToDelete
  <1>6. LossIsLoose'
    BY <1>1 DEF Names, LossIsLoose
  <1>7. EntriesNameRecords'
    <2>1. ASSUME ~loose', NEW n \in Held(slots), ~(op'.kind = "del" /\ slots[n].key \in op'.todo)
          PROVE  truth'[slots[n].idx] # Missing
      <3>1. /\ slots[n].idx \in Index /\ slots[n].key \in DOMAIN keys
            /\ keys[slots[n].key].idx = slots[n].idx
        BY <1>t, <1>3, HeldEntry, KeysAndEntries
      <3>2. truth[slots[n].idx] # Missing
        BY <1>1, <2>1 DEF Names, EntriesNameRecords, Done
      <3>3. slots[n].key \notin ToDelete(full)
        BY <1>1, <2>1 DEF Doing
      <3>4. slots[n].idx # full
        BY <1>1, <2>1, <3>1, <3>3
      <3> QED  BY <1>2, <3>1, <3>2, <3>4
    <2> QED  BY <1>1, <2>1 DEF EntriesNameRecords
  <1>8. NextIsFree'
    BY <1>1, <1>2 DEF Names, NextIsFree, Sound
  <1>9. KeysNameRecords'
    BY <1>1 DEF Names, KeysNameRecords
  <1> QED  BY <1>4, <1>5, <1>6, <1>7, <1>8, <1>9 DEF Names

\* set_key(), of a request in progress or on its own, for a record that is there.
LEMMA NamesPut ==
    ASSUME Types, Names, NEW k \in Keys, NEW full \in Index, up, PutKey(k, full),
           ~loose' => ~loose /\ truth[full] # Missing, op.kind # "del", OpOK', op'.kind # "del",
           loose => loose', UNCHANGED <<up, next_idx, truth, torn, gone>>
    PROVE  Names'
  <1>t. KeysTyped /\ MoreTypes
    BY TypeParts
  <1>1. keys = LoadKeys(slots) /\ Unique(slots)
    BY DEF Names, KeysAgree
  <1>2. /\ Unique(slots') /\ keys' = LoadKeys(slots')
        /\ Held(slots') = Held(slots) \cup {Pos(k)}
        /\ slots'[Pos(k)] = [key |-> k, idx |-> full]
        /\ \A n \in Held(slots) : n # Pos(k) => slots'[n] = slots[n]
    BY <1>t, <1>1, PutKeyAgrees
  <1>3. KeysAgree' /\ Unique(slots)'
    BY <1>2 DEF KeysAgree, Unique, Held
  <1>4. EntriesNameRecords'
    <2>1. ASSUME ~loose', NEW n \in Held(slots') PROVE truth[slots'[n].idx] # Missing
      <3>1. CASE n = Pos(k)
        BY <1>2, <2>1, <3>1
      <3>2. CASE n # Pos(k)
        <4>1. n \in Held(slots) /\ slots'[n] = slots[n]
          BY <1>2, <2>1, <3>2
        <4> QED  BY <2>1, <4>1 DEF Names, EntriesNameRecords
      <3> QED  BY <3>1, <3>2
    <2> QED  BY <2>1 DEF EntriesNameRecords
  <1>5. KeysNameRecords'
    <2>1. ASSUME ~loose', NEW q \in DOMAIN keys' PROVE keys'[q].idx < next_idx
      <3>1. keys' = [r \in DOMAIN keys \cup {k} |->
                       IF r = k THEN [pos |-> Pos(k), idx |-> full] ELSE keys[r]]
        BY <1>t, PutKeyFacts
      <3>2. CASE q = k
        BY <2>1, <3>1, <3>2, NumberInUse
      <3>3. CASE q # k
        BY <2>1, <3>1, <3>3 DEF Names, KeysNameRecords
      <3> QED  BY <3>2, <3>3
    <2> QED  BY <2>1 DEF KeysNameRecords
  <1>6. LossIsLoose' /\ NextIsFree'
    BY DEF Names, LossIsLoose, NextIsFree, Sound
  <1> QED  BY <1>3, <1>4, <1>5, <1>6 DEF Names

\* del_key(), of a request in progress or on its own.
LEMMA NamesZero ==
    ASSUME Types, Names, NEW k \in DOMAIN keys, up, ZeroKey(k), OpOK',
           op.kind = "del" /\ op.todo # {k} => op'.kind = "del" /\ op'.todo = op.todo \ {k},
           UNCHANGED <<up, next_idx, truth, torn, gone, loose>>
    PROVE  Names'
  <1>t. KeysTyped /\ MoreTypes
    BY TypeParts
  <1>1. keys = LoadKeys(slots) /\ Unique(slots)
    BY DEF Names, KeysAgree
  <1>2. /\ Unique(slots') /\ keys' = LoadKeys(slots')
        /\ \A n \in Held(slots') : n \in Held(slots) /\ slots'[n] = slots[n] /\ slots[n].key # k
    BY <1>t, <1>1, ZeroKeyAgrees
  <1>3. KeysAgree' /\ Unique(slots)'
    BY <1>2 DEF KeysAgree, Unique, Held
  <1>4. EntriesNameRecords'
    <2>1. ASSUME ~loose, NEW n \in Held(slots'), ~(op'.kind = "del" /\ slots'[n].key \in op'.todo)
          PROVE  truth[slots'[n].idx] # Missing
      <3>1. n \in Held(slots) /\ slots'[n] = slots[n] /\ slots[n].key # k
        BY <1>2
      <3>2. ~(op.kind = "del" /\ slots[n].key \in op.todo)
        BY <2>1, <3>1
      <3> QED  BY <2>1, <3>1, <3>2 DEF Names, EntriesNameRecords
    <2> QED  BY <2>1 DEF EntriesNameRecords
  <1>5. KeysNameRecords'
    <2>1. keys' = [q \in DOMAIN keys \ {k} |-> keys[q]]
      BY DEF ZeroKey
    <2> QED  BY <2>1 DEF Names, KeysNameRecords
  <1>6. LossIsLoose' /\ NextIsFree'
    BY DEF Names, LossIsLoose, NextIsFree, Sound
  <1> QED  BY <1>3, <1>4, <1>5, <1>6 DEF Names

\* The process ends, or opens what is there.
LEMMA NamesProcess == ASSUME Types, Files, Names, Kill \/ Open PROVE Names'
  <1>t. FilesTyped /\ Idle /\ slots \in Seq(Entry)
    BY TypeParts DEF MoreTypes
  <1>1. CASE Kill
    <2>1. /\ up' = FALSE /\ op' = Done /\ UNCHANGED <<slots, truth, gone>>
          /\ torn' # torn => loose'
          /\ loose \/ op.kind = "del" => loose'
      BY <1>1 DEF Kill, files
    <2>2. KeysAgree' /\ Unique(slots)' /\ NextIsFree' /\ KeysNameRecords'
      BY <2>1 DEF Names, KeysAgree, Unique, Held, NextIsFree, KeysNameRecords
    <2>3. OpOK'
      BY <2>1 DEF OpOK, Done
    <2>4. LossIsLoose'
      BY <2>1 DEF Names, LossIsLoose
    <2>5. EntriesNameRecords'
      BY <2>1 DEF Names, EntriesNameRecords, Held, Done
    <2> QED  BY <2>2, <2>3, <2>4, <2>5 DEF Names
  <1>2. CASE Open
    <2>1. /\ ~up /\ up' = TRUE /\ keys' = LoadKeys(slots) /\ next_idx' = CalculateNextIdx
          /\ UNCHANGED <<slots, op, comp, truth, torn, gone, loose>>
      BY <1>2 DEF Open, files, history
    <2>2. op = Done /\ comp = Quiet
      BY <1>t, <2>1 DEF Idle
    <2>3. KeysAgree' /\ Unique(slots)' /\ LossIsLoose'
      BY <2>1 DEF Names, KeysAgree, Unique, Held, LossIsLoose
    <2>4. OpOK'
      BY <2>1, <2>2 DEF OpOK, Done
    <2>5. EntriesNameRecords'
      BY <2>1 DEF Names, EntriesNameRecords, Held
    <2>6. ASSUME NEW full \in Index, Sound(full), truth[full] # Missing
          PROVE  full < next_idx'
      <3>1. Stored(full) = truth[full]
        BY <2>2, <2>6 DEF Files, Kept, Away, Quiet
      <3>2. Numbered(path)
        BY DEF Files, NumbersOK
      <3> QED  BY <1>t, <2>1, <2>6, <3>1, <3>2, NextIdxFacts
    <2>7. NextIsFree'
      BY <2>1, <2>6 DEF NextIsFree, Sound
    <2>8. KeysNameRecords'
      <3>1. ASSUME ~loose, NEW k \in DOMAIN keys' PROVE keys'[k].idx < next_idx'
        <4>1. Unique(slots)
          BY DEF Names
        <4>2. DOMAIN LoadKeys(slots) = {slots[n].key : n \in Held(slots)}
          BY <1>t, <4>1, LoadKeysFacts
        <4>3. PICK n \in Held(slots) : k = slots[n].key
          BY <2>1, <3>1, <4>2
        <4>4. keys'[k] = [pos |-> n, idx |-> slots[n].idx]
          BY <1>t, <2>1, <4>1, <4>3, LoadKeysFacts
        <4>5. slots[n].idx \in Index
          BY <1>t, HeldEntry
        <4>6. truth[slots[n].idx] # Missing
          BY <2>2, <3>1 DEF Names, EntriesNameRecords, Done
        <4>7. Sound(slots[n].idx)
          BY <3>1 DEF Names, LossIsLoose, Sound
        <4>8. slots[n].idx < next_idx'
          BY <2>6, <4>5, <4>6, <4>7
        <4> QED  BY <4>4, <4>8
      <3> QED  BY <2>1, <3>1 DEF KeysNameRecords
    <2> QED  BY <2>3, <2>4, <2>5, <2>7, <2>8 DEF Names
  <1> QED  BY <1>1, <1>2

\* Every step keeps the keys true.
LEMMA NamesStep == ASSUME IInv, [Next]_vars PROVE Names'
  <1>i. Types /\ Files /\ Names /\ OpOK /\ Kept
    BY DEF IInv, Names, Files
  <1>t. KeysTyped /\ op \in OpType /\ DOMAIN keys \subseteq Keys
    BY <1>i, TypeParts DEF KeysTyped
  <1>1. ASSUME NEW k \in Keys, WriteKey(k) PROVE Names'
    <2>1. /\ up /\ k \in op.todo /\ Doing(op.kind, op.idx, op.todo \ {k}, op.locked)
          /\ UNCHANGED <<up, next_idx, truth, torn, gone, loose>>
      BY <1>1 DEF WriteKey, history
    <2>2. op.idx \in Index /\ op.kind \in {"set", "del"} /\ op.todo \subseteq Keys
      BY <1>i, <1>t, <2>1 DEF OpOK, OpType
    <2>3. op' = Done \/ (op'.kind = op.kind /\ op'.idx = op.idx /\ op'.todo = op.todo \ {k})
      BY <2>1 DEF Doing
    <2>4. CASE op.kind = "set"
      <3>1. PutKey(k, op.idx)
        BY <1>1, <2>4 DEF WriteKey
      <3>2. truth[op.idx] # Missing
        BY <1>i, <2>4 DEF OpOK
      <3>3. OpOK' /\ op'.kind # "del"
        BY <2>1, <2>3, <2>4, <3>2 DEF OpOK, Done
      <3> QED  BY <1>i, <2>1, <2>2, <2>4, <3>1, <3>2, <3>3, NamesPut
    <2>5. CASE op.kind = "del"
      <3>1. ZeroKey(k) /\ k \in DOMAIN keys
        BY <1>1, <1>i, <2>1, <2>5 DEF WriteKey, OpOK
      <3>2. keys' = [q \in DOMAIN keys \ {k} |-> keys[q]]
        BY <3>1 DEF ZeroKey
      <3>3. OpOK'
        BY <1>i, <2>3, <2>5, <3>2 DEF OpOK, Done
      <3>4. op.todo # {k} => op'.kind = "del" /\ op'.todo = op.todo \ {k}
        BY <2>1, <2>5 DEF Doing
      <3> QED  BY <1>i, <2>1, <2>5, <3>1, <3>3, <3>4, NamesZero
    <2> QED  BY <2>2, <2>4, <2>5
  <1>2. ASSUME NEW k \in Keys, NEW full \in Index, SetKey(k, full) PROVE Names'
    <2>1. /\ up /\ op = Done /\ comp = Quiet /\ PutKey(k, full)
          /\ loose' = (loose \/ Stored(full) = Missing)
          /\ UNCHANGED <<up, next_idx, op, truth, torn, gone>>
      BY <1>2 DEF SetKey, Start
    <2>2. ~loose => Stored(full) = truth[full]
      BY <1>i, <2>1 DEF Names, LossIsLoose, Kept, Sound, Away, Quiet
    <2>3. OpOK' /\ op.kind # "del"
      BY <2>1 DEF OpOK, Done
    <2>4. ~loose' => ~loose /\ truth[full] # Missing
      BY <2>1, <2>2
    <2>5. loose => loose'
      BY <2>1
    <2>6. op'.kind # "del"
      BY <2>1, <2>3
    <2> QED  BY <1>i, <2>1, <2>3, <2>4, <2>5, <2>6, NamesPut
  <1>3. ASSUME NEW k \in Keys, DelKey(k) PROVE Names'
    <2>1. /\ up /\ op = Done /\ ZeroKey(k) /\ k \in DOMAIN keys
          /\ UNCHANGED <<up, next_idx, op, truth, torn, gone, loose>>
      BY <1>3 DEF DelKey, Start, Named
    <2>2. OpOK' /\ op.kind # "del"
      BY <2>1 DEF OpOK, Done
    <2> QED  BY <1>i, <2>1, <2>2, NamesZero
  <1>4. ASSUME NEW full \in Index, NEW want \in BOOLEAN, Get(full, want) PROVE Names'
    BY <1>i, <1>4, NamesKept DEF Get, files, history
  <1>5. ASSUME Flush PROVE Names'
    BY <1>i, <1>5, NamesKept DEF Flush, files, history
  <1>6. ASSUME Compact PROVE Names'
    <2>1. UNCHANGED <<slots, up, keys, op, truth, torn, next_idx, loose>>
      BY <1>6 DEF Compact, CompactStart, CompactOpen, CompactCopy, CompactRotate,
         CompactInstall, CompactClean, CompactDone, files, memory, history
    <2>2. gone' = gone \/ gone' = gone \cup {full \in torn : ChunkOf(full) = comp.chunk}
      BY <1>6 DEF Compact, CompactStart, CompactOpen, CompactCopy, CompactRotate,
         CompactInstall, CompactClean, CompactDone, files, memory, history
    <2>3. gone \subseteq gone' /\ (gone' # gone => torn # {})
      BY <2>2
    <2> QED  BY <1>i, <2>1, <2>3, NamesKept
  <1>7. CASE UNCHANGED vars
    BY <1>i, <1>7, NamesKept DEF vars
  <1> QED  BY <1>i, <1>1, <1>2, <1>3, <1>4, <1>5, <1>6, <1>7, RequestStores, NamesStore, NamesDelete,
              NamesProcess DEF Next
-----------------------------------------------------------------------------
\* An empty directory satisfies the invariant.
LEMMA InitInv == ASSUME Init PROVE IInv
  <1>1. /\ path = [c \in Chunk |-> NoFile] /\ tmp = path /\ old = path
        /\ slots = << >> /\ up = FALSE /\ keys = << >> /\ cache = << >>
        /\ chunks = [c \in Chunk |-> NoObject]
        /\ next_idx = 0 /\ op = Done /\ comp = Quiet
        /\ truth = [full \in Index |-> Missing] /\ torn = {} /\ gone = {} /\ loose = FALSE
    BY DEF Init
  <1>2. slots \in Seq(Entry) /\ Len(slots) = 0
    BY <1>1
  <1>3. Held(slots) = {}
    BY <1>2 DEF Held
  <1>4. FilesTyped /\ KeysTyped /\ Idle
    BY <1>1 DEF FilesTyped, KeysTyped, Idle
  <1>5. MemoryTyped
    BY <1>1, Sizes DEF MemoryTyped
  <1>6. MoreTypes
    BY <1>1, <1>2 DEF MoreTypes
  <1>7. Types
    BY <1>1, <1>4, <1>5, <1>6, TypeParts, QuietTyped
  <1>8. Files
    <2>1. \A full \in Index : Stored(full) = Missing
      BY <1>1, Numbers DEF Stored
    <2> QED  BY <1>1, <2>1 DEF Files, PhaseOK, NumbersOK, Numbered, Kept, CopyKept, Quiet,
                               MissingChunkIsInOld
  <1>9. Memory
    BY <1>1 DEF Memory, Distinct, FreshCache
  <1>10. Names
    BY <1>1, <1>3 DEF Names, KeysAgree, Unique, OpOK, Done, LossIsLoose, EntriesNameRecords,
                      NextIsFree, KeysNameRecords
  <1> QED  BY <1>7, <1>8, <1>9, <1>10 DEF IInv

\* The invariant holds of every state of the store.
THEOREM Invariance == Spec => []IInv
  <1>1. Init => IInv
    BY InitInv
  <1>2. IInv /\ [Next]_vars => IInv'
    BY TypesStep, FilesStep, MemoryStep, NamesStep DEF IInv
  <1> QED  BY <1>1, <1>2, PTL DEF Spec

\* The variables keep their types: no request, compaction or restart writes
\* past the end of a chunk, of the keys file or of the store.
THEOREM TypeCorrect == Spec => []TypeOK
  <1>1. IInv => TypeOK
    BY DEF IInv, Types
  <1> QED  BY <1>1, Invariance, PTL

\* Whatever was set is in its chunk file, through compactions and kills, but
\* for the records that a kill between the renames of compact() or a write
\* behind its back has cost.
THEOREM RecordsAreKept == Spec => []NoLostRecord
  <1>1. IInv => NoLostRecord
    BY DEF IInv, Files, Kept, Sound, Away, NoLostRecord
  <1> QED  BY <1>1, Invariance, PTL

\* A chunk file that compact() took out of the way is whole in chunk-N.old.
THEOREM MissingChunksAreInOld == Spec => []MissingChunkIsInOld
  <1>1. IInv => MissingChunkIsInOld
    BY DEF IInv, Files
  <1> QED  BY <1>1, Invariance, PTL

\* get() never answers from the cache with a value that is not the last set.
THEOREM TheCacheIsFresh == Spec => []CacheIsFresh
  <1>1. ASSUME IInv PROVE CacheIsFresh
    <2>1. ASSUME NEW c \in Chunk, NEW i \in Idx, c * ChunkRecords + i \in Index \ (torn \cup gone),
                 <<i, chunks[c]>> \in DOMAIN cache
          PROVE  cache[<<i, chunks[c]>>] = truth[c * ChunkRecords + i]
      <3>1. Slot(c * ChunkRecords + i) = <<i, chunks[c]>>
        BY NumbersBack DEF Slot
      <3>2. Sound(c * ChunkRecords + i)
        BY <2>1 DEF Sound
      <3>3. FreshCache
        BY <1>1 DEF IInv, Memory
      <3> QED  BY <2>1, <3>1, <3>2, <3>3 DEF FreshCache
    <2> QED  BY <2>1 DEF CacheIsFresh
  <1> QED  BY <1>1, Invariance, PTL

\* self.keys is at all times what load_keys() would read from the keys file.
THEOREM KeysAreWhatTheFileSays == Spec => []KeysAgree
  <1>1. IInv => KeysAgree
    BY DEF IInv, Names
  <1> QED  BY <1>1, Invariance, PTL

\* append() never hands out a number that a key already names, but in stores
\* that lost records or where __delitem__ forgot other keys than its own.
THEOREM KeysNameOnlyRecords == Spec => []KeysNameRecords
  <1>1. IInv => KeysNameRecords
    BY DEF IInv, Names
  <1> QED  BY <1>1, Invariance, PTL
=============================================================================
