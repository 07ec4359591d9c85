---------------------------- MODULE MetadataStore ----------------------------
(***************************************************************************)
(* moggie/storage/metadata.py, class MetadataStore, and the requests of    *)
(* moggie/workers/metadata.py that change it.  A record describes a        *)
(* message; messages are threaded by their In-Reply-To headers.  A reply   *)
(* that arrives before the message it answers makes a ghost, marked        *)
(* missing, to hold that message's place.                                  *)
(*                                                                         *)
(* Of a message the model keeps its id and what it replies to; of its      *)
(* record the parent, the list more['thread'], the mark more['missing'],   *)
(* whether it has the message's headers (a ghost's has only the id) and    *)
(* the annotation =dsn.  The copies of a message have the same headers.    *)
(* The store below (record, then key) is module RecordStore's: here an     *)
(* append of both is one write.  The worker serves one request at a time   *)
(* and may be killed between any two writes.                               *)
(***************************************************************************)
EXTENDS Integers, FiniteSets

CONSTANTS
    Msgs,       \* message ids
    NoMsg,      \* no message id
    NoCache,    \* self.thread_cache is None
    MaxEvents   \* bound: kills of the worker, and requests that annotate

ASSUME MsgsAssumption == IsFiniteSet(Msgs) /\ NoMsg \notin Msgs
ASSUME BoundsAssumption == MaxEvents \in Nat

VARIABLES
    irt,            \* the In-Reply-To header of each message
    recs,           \* the records: index -> record
    names,          \* the keys: message id -> index
    thread_ids,     \* the column thread_ids: index -> thread
    thread_cache,   \* thread -> its members, or NoCache
    op,             \* the request in progress
    early,          \* history: messages that came after a reply to them
    arrived,        \* history: messages that were added
    reported,       \* history: messages the worker reported as added
    redo,           \* history: messages whose request was killed, and not made
                    \* again at once
    answered,       \* history: what each message was ever said to answer
    changed,        \* history: messages of which something else was said later,
                    \* or that what was said is not so
    kills,
    notes

store == <<recs, names, thread_ids>>
history == <<early, arrived, reported, redo, answered, changed, kills, notes>>
vars == <<irt, recs, names, thread_ids, thread_cache, op, history>>

Index == 1 .. Cardinality(Msgs)
Metadata == [msg : Msgs, parent : Index \cup {0}, thread : SUBSET Index,
             missing : BOOLEAN, headers : BOOLEAN, dsn : Msgs \cup {NoMsg}]
Ghost(m) == [msg |-> m, parent |-> 0, thread |-> {}, missing |-> TRUE,
             headers |-> FALSE, dsn |-> NoMsg]
Received(m) == [Ghost(m) EXCEPT !.missing = FALSE, !.headers = TRUE]
Idle == [stage |-> "idle"]

Known(m) == m \in DOMAIN names
Len_ == Cardinality(DOMAIN recs)
Put(f, x, y) == [z \in DOMAIN f \cup {x} |-> IF z = x THEN y ELSE f[z]]

\* metadata.parent_id: a record without a parent is its own.
Parent(i) == IF recs[i].parent = 0 THEN i ELSE recs[i].parent
\* metadata.thread_id as __getitem__ returns it.
ThreadId(i) == IF i \in DOMAIN thread_ids THEN thread_ids[i] ELSE i
-----------------------------------------------------------------------------
\* The walk of _add_to_thread from p to the root, through stored parents.
Walk(p) == LET up[n \in 0 .. Len_] == IF n = 0 THEN p ELSE Parent(up[n - 1]) IN up
Top(p) == Walk(p)[Len_]
\* The walk ends; otherwise it goes in circles, for ever.
Ends(p) == Parent(Top(p)) = Top(p)
OnTheWay(p) == {Walk(p)[n] : n \in 0 .. Len_}

\* What _get_parent_id looks for.
ReplyTo(md) == IF md.headers /\ irt[md.msg] # NoMsg THEN irt[md.msg] ELSE md.dsn

\* What the request says of the message, for the history.
Note(m, md) ==
    LET r == ReplyTo(md) IN
    /\ answered' = [answered EXCEPT ![m] = @ \cup ({r} \ {NoMsg})]
    /\ changed' = IF answered[m] \subseteq {r} THEN changed ELSE changed \cup {m}

Begin(m, md, tid, new) ==
    /\ op' = [stage |-> "parent", req |-> m, add |-> tid = 0, new |-> new,
              idx |-> IF new THEN Len_ + 1 ELSE names[m],
              md |-> md, tid |-> tid, kids |-> {}]
    /\ Note(m, md)

\* update_or_add() of a new message: append() writes the record first.
AddNew(m) ==
    /\ op = Idle /\ ~Known(m)
    /\ recs' = Put(recs, Len_ + 1, Received(m))
    /\ names' = Put(names, m, Len_ + 1)
    /\ Begin(m, Received(m), 0, TRUE)
    /\ arrived' = arrived \cup {m}
    /\ UNCHANGED <<irt, thread_ids, thread_cache, early, reported, redo, kills, notes>>

\* update_or_add() of a known message: old key/value pairs are preserved.
Merged(md, om) ==
    [md EXCEPT !.thread = om.thread, !.missing = om.missing, !.dsn = om.dsn]

AddAgain(m) ==
    /\ op = Idle /\ Known(m)
    /\ Begin(m, Merged(Received(m), recs[names[m]]), 0, FALSE)
    /\ arrived' = arrived \cup {m}
    /\ early' = IF m \in arrived THEN early ELSE early \cup {m}
    /\ UNCHANGED <<irt, store, thread_cache, reported, redo, kills, notes>>

\* api_annotate() reads a record and puts it back with an annotation, which
\* may be =dsn, in place of an earlier one, or take that one away;
\* api_update_ptrs() does the same with other pointers.
Annotate(m, dsn) ==
    /\ op = Idle /\ Known(m) /\ kills + notes < MaxEvents
    /\ notes' = notes + 1
    /\ Begin(m, [recs[names[m]] EXCEPT !.dsn = dsn], ThreadId(names[m]), FALSE)
    /\ UNCHANGED <<irt, store, thread_cache, early, arrived, reported, redo, kills>>

\* _rank(): a record that is its own parent looks for one, and appends a
\* ghost if it is not there, which is a thread of its own.
Orphan == op.md.parent \in {0, op.idx}
FindParent ==
    LET r == ReplyTo(op.md)
        parent == IF ~Orphan THEN op.md.parent
                  ELSE IF r = NoMsg THEN op.idx ELSE names[r]
    IN /\ op.stage = "parent"
       /\ Orphan => r = NoMsg \/ Known(r)
       /\ op' = [op EXCEPT !.stage = "root", !.md.parent = parent]
       /\ UNCHANGED <<irt, store, thread_cache, history>>
\* Mutant: the ghost has no key.
MakeGhost_NoKey ==
    /\ op.stage = "parent" /\ Orphan
    /\ ReplyTo(op.md) # NoMsg /\ ~Known(ReplyTo(op.md))
    /\ recs' = Put(recs, Len_ + 1, Ghost(ReplyTo(op.md)))
    /\ op' = [op EXCEPT !.stage = "ghost"]
    /\ UNCHANGED <<irt, names, thread_ids, thread_cache, history>>
MakeGhost ==
    LET r == ReplyTo(op.md) IN
    /\ op.stage = "parent" /\ Orphan
    /\ r # NoMsg /\ ~Known(r)
    /\ recs' = Put(recs, Len_ + 1, Ghost(r))
    /\ names' = Put(names, r, Len_ + 1)
    /\ op' = [op EXCEPT !.stage = "ghost"]
    /\ UNCHANGED <<irt, thread_ids, thread_cache, history>>
\* Mutant: the ghost is filed under the reply.
RankGhost_UnderReply ==
    /\ op.stage = "ghost"
    /\ recs' = [recs EXCEPT ![Len_].parent = op.idx]
    /\ thread_ids' = Put(thread_ids, Len_, Len_)
    /\ thread_cache' = NoCache
    /\ op' = [op EXCEPT !.stage = "parent"]
    /\ UNCHANGED <<irt, names, history>>
RankGhost ==
    /\ op.stage = "ghost"
    /\ recs' = [recs EXCEPT ![Len_].parent = Len_]
    /\ thread_ids' = Put(thread_ids, Len_, Len_)
    /\ thread_cache' = NoCache
    /\ op' = [op EXCEPT !.stage = "parent"]
    /\ UNCHANGED <<irt, names, history>>

\* A record that is read back from a thread stays there, and one that is its
\* own root has no more to do.
Settled(tid) ==
    /\ op' = [op EXCEPT !.stage = "column", !.tid = tid]
    /\ UNCHANGED <<irt, store, thread_cache, history>>
StayInThread == op.stage = "root" /\ op.tid \notin {0, op.idx} /\ Settled(op.tid)

\* _add_to_thread(): the root learns of the message and of its thread.
Walks == op.stage = "root" /\ op.tid \in {0, op.idx} /\ op.md.parent # op.idx
IsRoot ==
    /\ op.stage = "root" /\ op.tid \in {0, op.idx}
    /\ op.md.parent = op.idx \/ (Ends(op.md.parent) /\ Top(op.md.parent) = op.idx)
    /\ Settled(op.idx)
AfterKids(kids) == IF kids = {} THEN "column" ELSE "kids"
JoinThread ==
    LET tid == Top(op.md.parent)
        kids == (OnTheWay(op.md.parent) \ {tid, op.idx}) \cup op.md.thread
    IN /\ Walks /\ Ends(op.md.parent) /\ tid # op.idx
       /\ recs' = [recs EXCEPT ![tid].thread = @ \cup {op.idx} \cup kids]
       /\ op' = [op EXCEPT !.stage = AfterKids(kids), !.tid = tid, !.kids = kids]
       /\ UNCHANGED <<irt, names, thread_ids, thread_cache, history>>
\* The parents go in circles: the loop never ends.
Hang ==
    /\ Walks /\ ~Ends(op.md.parent)
    /\ op' = [op EXCEPT !.stage = "hung"]
    /\ UNCHANGED <<irt, store, thread_cache, history>>

\* Mutant: the kids keep their old thread in the column.
MoveKid_RecordOnly(k) ==
    /\ op.stage = "kids" /\ k \in op.kids
    /\ recs' = [recs EXCEPT ![k].thread = {}]
    /\ op' = [op EXCEPT !.stage = AfterKids(op.kids \ {k}), !.kids = @ \ {k}]
    /\ UNCHANGED <<irt, names, thread_ids, thread_cache, history>>
\* The members of the message's own thread move with it, one by one.
MoveKid(k) ==
    /\ op.stage = "kids" /\ k \in op.kids
    /\ recs' = [recs EXCEPT ![k].thread = {}]
    /\ thread_ids' = Put(thread_ids, k, op.tid)
    /\ op' = [op EXCEPT !.stage = AfterKids(op.kids \ {k}), !.kids = @ \ {k}]
    /\ UNCHANGED <<irt, names, thread_cache, history>>

\* Mutant: the cache of threads is kept.
SetColumn_KeepCache ==
    /\ op.stage = "column"
    /\ thread_ids' = Put(thread_ids, op.idx, op.tid)
    /\ op' = [op EXCEPT !.stage = "save"]
    /\ UNCHANGED <<irt, recs, names, thread_cache, history>>
\* The end of _rank().
SetColumn ==
    /\ op.stage = "column"
    /\ thread_ids' = Put(thread_ids, op.idx, op.tid)
    /\ thread_cache' = NoCache
    /\ op' = [op EXCEPT !.stage = "save"]
    /\ UNCHANGED <<irt, recs, names, history>>

\* What a kill cut short is in order if it is the next request made, and made
\* in full; one about another message that comes between stays in redo
\* beside it.
Redone == IF redo \subseteq {op.req} THEN {} ELSE redo \cup {op.req}
\* Mutant: every message is reported as updated.
Save_Updated ==
    /\ op.stage = "save"
    /\ recs' = [recs EXCEPT ![op.idx] = op.md]
    /\ op' = Idle
    /\ redo' = Redone
    /\ UNCHANGED <<irt, names, thread_ids, thread_cache, early, arrived, reported,
                   answered, changed, kills, notes>>
\* The record is written, with its parent, and the worker replies.
Save ==
    /\ op.stage = "save"
    /\ recs' = [recs EXCEPT ![op.idx] = op.md]
    /\ op' = Idle
    /\ reported' = IF op.new THEN reported \cup {op.req} ELSE reported
    /\ redo' = Redone
    /\ UNCHANGED <<irt, names, thread_ids, thread_cache, early, arrived,
                   answered, changed, kills, notes>>

\* _make_thread_cache(), when api_metadata() asks for a thread.
Threads ==
    LET used == {t \in Index : \E i \in DOMAIN thread_ids \ {t} : thread_ids[i] = t}
    IN [t \in used |-> {t} \cup {i \in DOMAIN thread_ids : thread_ids[i] = t}]
MakeThreadCache ==
    /\ op = Idle /\ thread_cache = NoCache
    /\ thread_cache' = Threads
    /\ UNCHANGED <<irt, store, op, history>>

Kill ==
    /\ kills + notes < MaxEvents
    /\ kills' = kills + 1
    /\ op' = Idle
    /\ thread_cache' = NoCache
    /\ redo' = IF op = Idle THEN redo ELSE redo \cup {op.req}
    /\ UNCHANGED <<irt, store, early, arrived, reported, answered, changed, notes>>

Init ==
    /\ irt \in [Msgs -> Msgs \cup {NoMsg}]
    /\ recs = << >> /\ names = << >> /\ thread_ids = << >>
    /\ thread_cache = NoCache
    /\ op = Idle
    /\ early = {} /\ arrived = {} /\ reported = {} /\ redo = {}
    /\ answered = [m \in Msgs |-> {}] /\ changed = {} /\ kills = 0 /\ notes = 0

Rank ==
    \/ FindParent \/ MakeGhost \/ RankGhost \/ StayInThread \/ IsRoot
    \/ JoinThread \/ Hang \/ SetColumn \/ Save
    \/ \E k \in Index : MoveKid(k)

Next ==
    \/ \E m \in Msgs : AddNew(m) \/ AddAgain(m)
    \/ \E m \in Msgs, dsn \in Msgs \cup {NoMsg} : Annotate(m, dsn)
    \/ Rank \/ MakeThreadCache \/ Kill

Spec == Init /\ [][Next]_vars
-----------------------------------------------------------------------------
\* Messages that answer each other: a set in which each answered another one
\* at some time, and so a circle of two or more.
Circular == \E S \in SUBSET Msgs : S # {} /\ \A m \in S : answered[m] \cap (S \ {m}) # {}

\* The variables have their types, and every message has one record,
\* whose parent is there.
TypeOK ==
    /\ irt \in [Msgs -> Msgs \cup {NoMsg}]
    /\ DOMAIN recs = 1 .. Len_ /\ DOMAIN recs \subseteq Index
    /\ \A i \in DOMAIN recs : recs[i] \in Metadata /\ Parent(i) \in DOMAIN recs
    /\ \A m \in DOMAIN names : recs[names[m]].msg = m
    /\ DOMAIN thread_ids \subseteq DOMAIN recs
    /\ \A i \in DOMAIN thread_ids : thread_ids[i] \in DOMAIN recs
    /\ op.stage \in {"idle", "parent", "ghost", "root", "kids", "column", "save", "hung"}
    /\ early \cup reported \subseteq arrived /\ arrived \subseteq DOMAIN names

\* Nobody changed what i, or a message on the way to its root, answers.
Unchanged(i) == \A j \in OnTheWay(i) : recs[j].msg \notin changed

\* Between requests, the column of threads agrees with the parents of the
\* records, and a root lists its thread, in whatever order the messages of
\* a thread arrived, and even after kills, if the next request is about the
\* message whose own was cut short.  Messages that answer each other are
\* excepted, and those that hang from one that was filed under one message
\* and then under another: _add_to_thread() does not move them along.
ThreadsConsistent ==
    (op = Idle /\ redo = {} /\ ~Circular) =>
        \A i \in DOMAIN recs : Unchanged(i) =>
            /\ ThreadId(i) = Top(i)
            /\ i = Top(i) \/ i \in recs[Top(i)].thread

\* The cached threads are those of the column.
ThreadCacheFresh == (op = Idle /\ thread_cache # NoCache) => thread_cache = Threads

\* A message that was received is reported as added, which has the importer
\* index it (importer.py:772), and loses the mark of a missing one, unless a
\* reply to it came first, or the worker was killed before it replied.
ReportedUnlessEarly ==
    op = Idle =>
        \A m \in arrived :
            /\ m \in reported \cup early \/ kills > 0
            /\ recs[names[m]].missing => m \in early

\* The loop of _add_to_thread ends, unless messages answer each other, or did
\* before their annotations were changed: then the worker is stuck with
\* change_lock held.
HangMeansCircular == op.stage = "hung" => Circular
=============================================================================
