----------------------------- MODULE RecordStore -----------------------------
(***************************************************************************)
(* moggie/storage/records.py, class RecordStore: numbered records, spread  *)
(* over chunk files of ChunkRecords each, and a file of keys that name     *)
(* records.  A thread of the worker serves requests; a background job may  *)
(* compact the chunks.  Requests that change the store take the worker's   *)
(* change_lock, which the compaction holds from start to end; some of      *)
(* them (api_update_ptrs in workers/metadata.py) do not.                   *)
(*                                                                         *)
(* A chunk file is the function from its indexes to values that module     *)
(* RecordFile shows it to be, one write of it a step.  RecordFile objects  *)
(* are drawn from a pool: an object that the cache refers to stays in use. *)
(***************************************************************************)
EXTENDS Integers, Sequences, FiniteSets

CONSTANTS
    ChunkRecords,   \* records per chunk file
    MaxRecords,     \* bound: records of the store
    Keys,           \* keys, with their hashes
    Values,         \* record contents
    Missing,        \* no record
    NoFile,         \* no such file
    MaxObjects,     \* bound: RecordFile objects that something refers to
    Sparse,         \* self.sparse
    MaxCached,      \* bound: entries of the cache
    MaxSlots,       \* bound: entries of the keys file
    MaxRequests,    \* bound: requests that change the store
    MaxKills        \* bound: ends of the process

ASSUME SizeAssumption == /\ ChunkRecords \in Nat \ {0, 1}
                         /\ MaxRecords \in Nat \ {0}
                         /\ {MaxSlots, MaxCached, MaxObjects, MaxRequests, MaxKills} \subseteq Nat
                         /\ Sparse \in BOOLEAN
ASSUME NoneAssumption == /\ Missing \notin Values \cup Keys
                         /\ NoFile \notin [0 .. (ChunkRecords - 1) -> Values \cup {Missing}]

VARIABLES
    path, tmp, old, \* chunk -> the file chunk-N, chunk-N.tmp, chunk-N.old
    slots,          \* the keys file: entries [key, idx], or zeros
    up,             \* a process has the store open
    keys,           \* self.keys: key -> [pos, idx]
    chunks,         \* self.chunks: chunk -> its RecordFile object
    cache,          \* self.cache: <<index in the chunk, object>> -> value
    next_idx,       \* self.next_idx
    op,             \* what the request in progress still has to write
    comp,           \* the compaction job
    truth,          \* history: index -> the value last set
    torn,           \* history: records of a chunk killed between renames
    gone,           \* history: records that a compaction cost for good
    loose,          \* history: keys may name records that are not there
    count           \* history: the requests and the kills so far

files == <<path, tmp, old, slots>>
memory == <<keys, chunks, cache, next_idx>>
history == <<truth, torn, gone, loose, count>>
vars == <<path, tmp, old, slots, up, keys, chunks, cache, next_idx, op, comp,
          truth, torn, gone, loose, count>>

Idx == 0 .. (ChunkRecords - 1)
Index == 0 .. (MaxRecords - 1)
Chunk == {full \div ChunkRecords : full \in Index}
Objects == 1 .. MaxObjects
NoObject == 0
Blank == [i \in Idx |-> Missing]
Zero == [key |-> Missing, idx |-> 0]
Done == [todo |-> {}, idx |-> 0, kind |-> "none", locked |-> FALSE]
Quiet == [phase |-> "none", chunk |-> 0, i |-> 0, todo |-> {}]

ChunkOf(full) == full \div ChunkRecords
InChunk(full) == full % ChunkRecords
Named(k) == k \in DOMAIN keys
Least(S) == CHOOSE n \in S : \A m \in S : n <= m
Greatest(S) == CHOOSE n \in S : \A m \in S : m <= n
\* Mutant: len(chunk) counts the records.
FileLen_Count(f) == Cardinality({i \in Idx : f[i] # Missing})
\* len(chunk): sparse files count up to their last record.
FileLen(f) == IF f = Blank THEN 0 ELSE 1 + Greatest({i \in Idx : f[i] # Missing})
-----------------------------------------------------------------------------
\* load_keys: what the entries of a keys file say; a later entry wins.
LoadKeys(s) ==
    LET held == {n \in 1 .. Len(s) : s[n] # Zero}
        at(k) == Greatest({n \in held : s[n].key = k})
    IN [k \in {s[n].key : n \in held} |-> [pos |-> at(k), idx |-> s[at(k)].idx]]

\* calculate_next_idx: only the last chunk is looked at.
Have == {c \in Chunk : path[c] # NoFile}
\* Mutant: one too far.
CalculateNextIdx_OffByOne ==
    IF Have = {} THEN 0
    ELSE Greatest(Have) * ChunkRecords + FileLen(path[Greatest(Have)]) + 1
CalculateNextIdx ==
    IF Have = {} THEN 0
    ELSE Greatest(Have) * ChunkRecords + FileLen(path[Greatest(Have)])

\* The objects nothing refers to.
Free == {o \in Objects : /\ \A c \in Chunk : chunks[c] # o
                         /\ \A p \in DOMAIN cache : p[2] # o}

\* compact() has closed the chunk's file and not yet replaced the object.
Closed(c) == comp.chunk = c /\ comp.phase \in {"install", "clean"}

NewObject == Least(Free)
\* get_chunk(): the object that is there, or a new one for the file, which
\* is made if create says so.
Obj(c) == IF chunks[c] # NoObject THEN chunks[c] ELSE NewObject
GetChunk(c, create) ==
    /\ path[c] # NoFile \/ create
    /\ chunks[c] = NoObject => Free # {}
    /\ chunks' = [chunks EXCEPT ![c] = Obj(c)]

\* get_chunk() raises KeyError.
NoChunk(c, create) == chunks[c] = NoObject /\ path[c] = NoFile /\ ~create

\* A request begins; change_lock keeps it out of a compaction.
Start(locked) == up /\ op = Done /\ (locked => comp = Quiet)
Counted == /\ count.requests < MaxRequests
           /\ count' = [count EXCEPT !.requests = @ + 1]

\* Mutant: an entry that is there is left alone.
Cached_NotUpdated(pair, v, want) ==
    [p \in DOMAIN cache \cup (IF want THEN {pair} ELSE {}) |->
        IF p = pair /\ want THEN v ELSE cache[p]]
\* The cache after a write: it gets the value if asked to, or to replace one.
Cached(pair, v, want) ==
    [p \in DOMAIN cache \cup (IF want THEN {pair} ELSE {}) |->
        IF p = pair THEN v ELSE cache[p]]

Doing(kind, full, todo, locked) ==
    op' = IF todo = {} THEN Done
          ELSE [todo |-> todo, idx |-> full, kind |-> kind, locked |-> locked]

\* The compaction has already copied this record, and will drop the change.
Copied(full) ==
    comp.phase = "copy" /\ comp.chunk = ChunkOf(full) /\ InChunk(full) < comp.i

\* set() and append() up to the keys: the record, the cache, the length.
Store(full, v, create, todo, locked) ==
    LET c == ChunkOf(full)
        i == InChunk(full)
    IN /\ ~Closed(c) /\ Counted
       /\ GetChunk(c, create)
       /\ cache' = Cached(<<i, Obj(c)>>, v, FALSE)
       /\ path' = [path EXCEPT ![c] =
                      [(IF @ = NoFile THEN Blank ELSE @) EXCEPT ![i] = v]]
       /\ next_idx' = IF full >= next_idx THEN full + 1 ELSE next_idx
       /\ Doing("set", full, todo, locked)
       /\ truth' = [truth EXCEPT ![full] = v]
       /\ gone' = IF Copied(full) THEN gone \cup {full} ELSE gone \ {full}
       /\ torn' = torn \ {full}
       /\ loose' = (loose \/ Copied(full))
       /\ UNCHANGED <<tmp, old, slots, up, keys, comp>>

AppendRecord(ks, v) ==
    /\ Start(TRUE)
    /\ next_idx \in Index
    /\ Store(next_idx, v, TRUE, ks, TRUE)

\* set([full, ...]): the record with this number, and more keys for it.
SetByIndex(full, ks, v, locked) ==
    /\ Start(locked)
    /\ ~NoChunk(ChunkOf(full), Sparse)
    /\ Store(full, v, Sparse, ks, locked)

Found(k) == Named(k) /\ ~NoChunk(ChunkOf(keys[k].idx), Sparse)
\* set([k, ...]): a key that is not known, or whose chunk is gone, appends.
SetByKey(k, ks, v) ==
    \/ /\ Start(TRUE)
       /\ Found(k)
       /\ Store(keys[k].idx, v, Sparse, ks, TRUE)
    \/ /\ ~Found(k)
       /\ AppendRecord(ks \cup {k}, v)

\* set_key(): over the entry the key has, or at the end of the file.
PutKey(k, full) ==
    LET pos == IF Named(k) THEN keys[k].pos ELSE Len(slots) + 1 IN
    /\ pos <= MaxSlots
    /\ slots' = [n \in 1 .. (IF pos > Len(slots) THEN pos ELSE Len(slots)) |->
                    IF n = pos THEN [key |-> k, idx |-> full] ELSE slots[n]]
    /\ keys' = [q \in DOMAIN keys \cup {k} |->
                    IF q = k THEN [pos |-> pos, idx |-> full] ELSE keys[q]]

\* Mutant: the entry in the file stays.
ZeroKey_MemoryOnly(k) ==
    /\ slots' = slots
    /\ keys' = [q \in DOMAIN keys \ {k} |-> keys[q]]
\* del_key(): the entry becomes zeros, and is never used again.
ZeroKey(k) ==
    /\ slots' = [slots EXCEPT ![keys[k].pos] = Zero]
    /\ keys' = [q \in DOMAIN keys \ {k} |-> keys[q]]

\* The request in progress writes the next entry of the keys file.
WriteKey(k) ==
    /\ up /\ k \in op.todo
    /\ IF op.kind = "set" THEN PutKey(k, op.idx) ELSE ZeroKey(k)
    /\ Doing(op.kind, op.idx, op.todo \ {k}, op.locked)
    /\ UNCHANGED <<path, tmp, old, up, chunks, cache, next_idx, comp, history>>

Stored(full) == IF path[ChunkOf(full)] = NoFile THEN Missing
                ELSE path[ChunkOf(full)][InChunk(full)]
\* set_key() as a request of its own; the caller answers for the number.
SetKey(k, full) ==
    /\ Start(TRUE) /\ Counted
    /\ PutKey(k, full)
    /\ loose' = (loose \/ Stored(full) = Missing)
    /\ UNCHANGED <<path, tmp, old, up, chunks, cache, next_idx, op, comp, truth, torn, gone>>

DelKey(k) ==
    /\ Start(TRUE) /\ Named(k) /\ Counted
    /\ ZeroKey(k)
    /\ UNCHANGED <<path, tmp, old, up, chunks, cache, next_idx, op, comp,
                   truth, torn, gone, loose>>

\* The keys __delitem__ forgets: it compares the keys' numbers, which count
\* through the store, with the index inside the chunk.
ToDelete(full) == {k \in DOMAIN keys : keys[k].idx = InChunk(full)}

\* __delitem__, by number or by key, up to the keys.
Delete(full) ==
    LET c == ChunkOf(full)
        i == InChunk(full)
    IN /\ Start(TRUE) /\ ~NoChunk(c, FALSE) /\ Counted
       /\ GetChunk(c, FALSE)
       /\ cache' = [p \in DOMAIN cache \ {<<i, Obj(c)>>} |-> cache[p]]
       /\ path' = [path EXCEPT ![c][i] = Missing]
       /\ Doing("del", full, ToDelete(full), TRUE)
       /\ truth' = [truth EXCEPT ![full] = Missing]
       /\ gone' = gone \ {full} /\ torn' = torn \ {full}
       /\ loose' = (loose \/ \E k \in DOMAIN keys \ ToDelete(full) : keys[k].idx = full)
       /\ UNCHANGED <<tmp, old, slots, up, keys, next_idx, comp>>

\* get(), which takes no lock, and may fill the cache.
Get(full, want) ==
    LET c == ChunkOf(full)
        i == InChunk(full)
    IN /\ Start(FALSE) /\ ~NoChunk(c, FALSE) /\ ~Closed(c)
       /\ want => Cardinality(DOMAIN cache) < MaxCached
       /\ GetChunk(c, FALSE)
       /\ cache' = IF <<i, Obj(c)>> \notin DOMAIN cache /\ path[c][i] # Missing
                   THEN Cached(<<i, Obj(c)>>, path[c][i], want) ELSE cache
       /\ UNCHANGED <<files, up, keys, next_idx, op, comp, history>>

Flush ==
    /\ Start(TRUE)
    /\ chunks' = [c \in Chunk |-> NoObject]
    /\ cache' = << >>
    /\ UNCHANGED <<files, up, keys, next_idx, op, comp, history>>
-----------------------------------------------------------------------------
\* compact(): all chunks, or with partial the first and one more.
CompactStart(partial, which) ==
    LET all == {c \in Chunk : c * ChunkRecords < next_idx} IN
    /\ up /\ ~op.locked /\ comp = Quiet
    /\ comp' = [Quiet EXCEPT !.phase = "next",
                   !.todo = IF partial THEN all \cap {0, which} ELSE all]
    /\ UNCHANGED <<files, up, memory, op, history>>

NextChunk == comp' = [comp EXCEPT !.phase = "next", !.i = 0, !.todo = @ \ {comp.chunk}]

\* The next chunk: it raises if there is no file, does nothing if nothing
\* changed for a while, or starts to copy into a new file.
CompactOpen ==
    LET c == Least(comp.todo) IN
    /\ comp.phase = "next" /\ comp.todo # {}
    /\ \/ /\ NoChunk(c, FALSE)
          /\ comp' = Quiet
          /\ UNCHANGED <<chunks, tmp>>
       \/ /\ GetChunk(c, FALSE)
          /\ \/ /\ tmp' = [tmp EXCEPT ![c] = NoFile]
                /\ comp' = [comp EXCEPT !.todo = @ \ {c}]
             \/ /\ tmp' = [tmp EXCEPT ![c] = Blank]
                /\ comp' = [comp EXCEPT !.phase = "copy", !.chunk = c]
    /\ UNCHANGED <<path, old, slots, up, keys, cache, next_idx, op, history>>

CompactCopy ==
    LET c == comp.chunk IN
    /\ comp.phase = "copy" /\ comp.i < ChunkRecords
    /\ tmp' = [tmp EXCEPT ![c][comp.i] = path[c][comp.i]]
    /\ comp' = [comp EXCEPT !.i = @ + 1]
    /\ UNCHANGED <<path, old, slots, up, memory, op, history>>

\* Mutant: the last record is not copied.
CompactRotate_OneShort ==
    LET c == comp.chunk IN
    /\ comp.phase = "copy" /\ comp.i = ChunkRecords - 1
    /\ old' = [old EXCEPT ![c] = path[c]]
    /\ path' = [path EXCEPT ![c] = NoFile]
    /\ comp' = [comp EXCEPT !.phase = "install"]
    /\ gone' = gone \cup {full \in torn : ChunkOf(full) = c}
    /\ UNCHANGED <<tmp, slots, up, memory, op, truth, torn, loose, count>>
\* Mutant: the file is removed instead.
CompactRotate_NoBackup ==
    LET c == comp.chunk IN
    /\ comp.phase = "copy" /\ comp.i = ChunkRecords
    /\ old' = old
    /\ path' = [path EXCEPT ![c] = NoFile]
    /\ comp' = [comp EXCEPT !.phase = "install"]
    /\ gone' = gone \cup {full \in torn : ChunkOf(full) = c}
    /\ UNCHANGED <<tmp, slots, up, memory, op, truth, torn, loose, count>>
\* close(), and the file goes out of the way.
CompactRotate ==
    LET c == comp.chunk IN
    /\ comp.phase = "copy" /\ comp.i = ChunkRecords
    /\ old' = [old EXCEPT ![c] = path[c]]
    /\ path' = [path EXCEPT ![c] = NoFile]
    /\ comp' = [comp EXCEPT !.phase = "install"]
    /\ gone' = gone \cup {full \in torn : ChunkOf(full) = c}
    /\ UNCHANGED <<tmp, slots, up, memory, op, truth, torn, loose, count>>

CompactInstall ==
    LET c == comp.chunk IN
    /\ comp.phase = "install"
    /\ path' = [path EXCEPT ![c] = tmp[c]]
    /\ tmp' = [tmp EXCEPT ![c] = NoFile]
    /\ comp' = [comp EXCEPT !.phase = "clean"]
    /\ UNCHANGED <<old, slots, up, memory, op, history>>

\* The backup is removed and the new object takes the chunk's place.
CompactClean ==
    /\ comp.phase = "clean"
    /\ old' = [old EXCEPT ![comp.chunk] = NoFile]
    /\ Free # {}
    /\ chunks' = [chunks EXCEPT ![comp.chunk] = NewObject]
    /\ NextChunk
    /\ UNCHANGED <<path, tmp, slots, up, keys, cache, next_idx, op, history>>

CompactDone ==
    /\ comp.phase = "next" /\ comp.todo = {}
    /\ comp' = Quiet
    /\ UNCHANGED <<files, up, memory, op, history>>

\* The process ends: killed at any point, or closed when it is idle.
Kill ==
    LET cut == {full \in Index : comp.phase = "install" /\ ChunkOf(full) = comp.chunk} IN
    /\ up /\ count.kills < MaxKills
    /\ count' = [count EXCEPT !.kills = @ + 1]
    /\ up' = FALSE
    /\ keys' = << >> /\ cache' = << >> /\ next_idx' = 0
    /\ chunks' = [c \in Chunk |-> NoObject]
    /\ op' = Done /\ comp' = Quiet
    /\ torn' = torn \cup cut
    /\ loose' = (loose \/ cut # {} \/ op.kind = "del")
    /\ UNCHANGED <<files, truth, gone>>

\* __init__ on what is there; counting the records opens the last chunk.
Open ==
    /\ ~up
    /\ up' = TRUE
    /\ keys' = LoadKeys(slots)
    /\ next_idx' = CalculateNextIdx
    /\ IF Have = {} THEN UNCHANGED chunks
       ELSE GetChunk(Greatest(Have), FALSE)
    /\ UNCHANGED <<files, cache, op, comp, history>>

Init ==
    /\ path = [c \in Chunk |-> NoFile] /\ tmp = path /\ old = path
    /\ slots = << >> /\ up = FALSE /\ keys = << >> /\ cache = << >>
    /\ chunks = [c \in Chunk |-> NoObject]
    /\ next_idx = 0 /\ op = Done /\ comp = Quiet
    /\ truth = [full \in Index |-> Missing] /\ torn = {} /\ gone = {} /\ loose = FALSE
    /\ count = [requests |-> 0, kills |-> 0]

Request(v) ==
    \/ \E ks \in SUBSET Keys : AppendRecord(ks, v)
    \/ \E full \in Index, ks \in SUBSET Keys, locked \in BOOLEAN :
          SetByIndex(full, ks, v, locked)
    \/ \E k \in Keys : \E ks \in SUBSET (Keys \ {k}) : SetByKey(k, ks, v)

Compact ==
    \/ \E partial \in BOOLEAN, which \in Chunk : CompactStart(partial, which)
    \/ CompactOpen \/ CompactCopy \/ CompactRotate \/ CompactInstall
    \/ CompactClean \/ CompactDone

Next ==
    \/ \E v \in Values : Request(v)
    \/ \E k \in Keys : WriteKey(k) \/ DelKey(k)
    \/ \E k \in Keys, full \in Index : SetKey(k, full)
    \/ \E full \in Index : Delete(full)
    \/ \E full \in Index, want \in BOOLEAN : Get(full, want)
    \/ Flush \/ Compact \/ Kill \/ Open

Spec == Init /\ [][Next]_vars
-----------------------------------------------------------------------------
Content == [Idx -> Values \cup {Missing}]
\* The variables have their types.
TypeOK ==
    /\ \A f \in {path, tmp, old} : f \in [Chunk -> Content \cup {NoFile}]
    /\ \A n \in 1 .. Len(slots) : slots[n] = Zero \/ slots[n] \in [key : Keys, idx : Index]
    /\ up \in BOOLEAN /\ DOMAIN keys \subseteq Keys
    /\ \A k \in DOMAIN keys : keys[k] \in [pos : 1 .. Len(slots), idx : Index]
    /\ chunks \in [Chunk -> Objects \cup {NoObject}]
    /\ DOMAIN cache \subseteq Idx \X Objects
    /\ next_idx \in 0 .. MaxRecords
    /\ op \in [todo : SUBSET Keys, idx : Index, kind : {"none", "set", "del"},
               locked : BOOLEAN]
    /\ comp \in [phase : {"none", "next", "copy", "install", "clean"},
                 chunk : Chunk, i : 0 .. ChunkRecords, todo : SUBSET Chunk]

\* Whatever is set is in its chunk file, whoever compacts, and after a kill.
\* Two things cost a record: a write that does not take change_lock and that
\* the compaction has already copied (workers/metadata.py:341), and a kill
\* between the two renames of compact().
NoLostRecord ==
    comp.phase # "install" =>
        \A full \in Index \ (torn \cup gone) : Stored(full) = truth[full]

\* A chunk file that is missing, because compact() is or was killed between
\* its renames, is whole under its other name.
MissingChunkIsInOld ==
    \A full \in Index \ gone :
        (path[ChunkOf(full)] = NoFile /\ truth[full] # Missing) =>
            /\ old[ChunkOf(full)] # NoFile
            /\ old[ChunkOf(full)][InChunk(full)] = truth[full]

\* The cache never answers with another value than the one last set, though
\* it is keyed by objects that flush() and compact() replace.
CacheIsFresh ==
    \A c \in Chunk, i \in Idx :
        LET full == c * ChunkRecords + i IN
        (full \in Index \ (torn \cup gone) /\ <<i, chunks[c]>> \in DOMAIN cache) =>
            cache[<<i, chunks[c]>>] = truth[full]

\* The table in memory is what the keys file says, entry by entry, so that a
\* restart finds the same keys and no write lands on another key's entry.
KeysAgree == up => keys = LoadKeys(slots)

\* No key names a record that append() is yet to hand out: after a restart,
\* a key would come to name another message's record.  Excepted are stores
\* that lost records as above, that were killed while __delitem__ forgets
\* keys, or where __delitem__ forgot the wrong ones (records.py:577).
KeysNameRecords ==
    (up /\ ~loose) => \A k \in DOMAIN keys : keys[k].idx < next_idx
=============================================================================
