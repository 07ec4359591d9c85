----------------------------- MODULE SearchEngine -----------------------------
(***************************************************************************)
(* moggie/search/engine.py, class SearchEngine, as the requests of         *)
(* moggie/workers/search.py change it: tags (the keywords in:x, in:x@ns    *)
(* and the mark in:@ns of everything in a namespace), the history of       *)
(* changes that undo and redo read, and the version keywords that let a    *)
(* client ask for what changed since a version.                            *)
(*                                                                         *)
(* A tag has a key and a slot of its own among the L1 records; words and   *)
(* version keywords live in L2 buckets, which are always there.  A slot's  *)
(* record holds the posting lists of the keywords whose keys lead to it,   *)
(* so posts is a function of the keyword.  The worker serves one request   *)
(* at a time and may be killed between any two writes.                     *)
(***************************************************************************)
EXTENDS Integers, FiniteSets, SequencesExt

CONSTANTS
    Msgs,       \* message numbers
    Tags,       \* names of tags
    Star,       \* the tag name of in:*
    All,        \* the empty tag name, of in: and in:@ns
    Spaces,     \* tag namespaces, with names that tag_quote() leaves alone
    None,       \* no namespace
    Batches,    \* the batches of tag operations clients send
    Imported,   \* the sets of messages that are added and deleted
    L1Keywords, \* config['l1_keywords']
    HistSlots,  \* IDX_HISTORY_END - IDX_HISTORY_START + 1
    K, M,       \* the multipliers of version keywords, 2^10 and 2^20
    MaxVersion, \* bound: versions, and requests that make none
    MaxStops    \* bound: requests cut short, by an error or by a kill

ASSUME NamesAssumption ==
    /\ IsFiniteSet(Msgs) /\ IsFiniteSet(Tags) /\ IsFiniteSet(Spaces)
    /\ Star \notin Tags /\ All \notin Tags \cup {Star} /\ None \notin Spaces
ASSUME SizesAssumption ==
    /\ L1Keywords \in Nat /\ HistSlots \in Nat \ {0}
    /\ K \in Nat \ {0, 1} /\ M \in Nat /\ M > K /\ M % K = 0
    /\ MaxVersion \in Nat \ {0} /\ MaxStops \in Nat
\* Clients name tags, and in:*; the marks of namespaces are the worker's.
\* in:*@ns is a tag like others, whose name has a star.
ASSUME RequestsAssumption ==
    /\ \A b \in Batches :
          b \in Seq([on : SUBSET Msgs,
                    ops : Seq([sign : {"+", "-"},
                               kw : [tag : Tags, ns : Spaces \cup {None}]
                                       \cup [tag : {Star}, ns : {None}]])])
    /\ \A ids \in Imported : ids \subseteq Msgs

VARIABLES
    posts,      \* keyword -> the messages in its posting list
    keys,       \* keyword -> L1 slot, for the keywords that have a key
    l1,         \* the L1 slots 1 .. l1 have records
    ver, pos,   \* self.history, as stored
    hist,       \* history slot -> the change recorded there
    touched,    \* version keywords: triples <<unit, number, message>>
    op,         \* the request in progress
    snap,       \* history: the postings before and after the last recorded
                \* change, if only undo and redo came after it
    since,      \* history: a version before the last change of each message,
                \* but for those that add_results() was told not to touch
    lost,       \* history: messages whose change was cut short
    loose,      \* history: namespace -> messages that add_results() tagged there
    undone,     \* history: a change was undone or redone
    stops,
    quiet       \* requests that made no version

index == <<posts, keys, l1, ver, pos, hist, touched>>
history == <<snap, since, lost, loose, undone, stops, quiet>>
vars == <<posts, keys, l1, ver, pos, hist, touched, op, snap, since, lost, loose, undone, stops, quiet>>

Keyword == [tag : Tags, ns : Spaces \cup {None}] \cup [tag : {All}, ns : Spaces]
Kw(tag, ns) == [tag |-> tag, ns |-> ns]
Slots == 1 .. HistSlots
NoChange == [id |-> 0, changes |-> << >>]
NoSnap == [slot |-> 0]
Idle == [stage |-> "idle"]
Put(f, x, y) == [z \in DOMAIN f \cup {x} |-> IF z = x THEN y ELSE f[z]]
-----------------------------------------------------------------------------
\* version_to_keywords()
VersionKeywords(v) == {<<1, v>>, <<K, v \div K>>, <<M, v \div M>>}

\* version_term_magic(): the keywords that cover the versions beg .. end, in
\* five loops.  The pairs are loop number and version reached.
Cover(beg, end) ==
    LET begK == K * (beg \div K + 1)
        begM == M * (beg \div M + 1)
        endK == K * (end \div K)
        goes(n, b) == CASE n = 1 -> b % K # 0 /\ b % M # 0 /\ b < begK /\ b < endK
                        [] n = 2 -> b % M # 0 /\ b + K <= begM /\ b + K <= endK
                        [] n = 3 -> b + M <= end + 1
                        [] n = 4 -> b + K <= end + 1
                        [] n = 5 -> b <= end
        unit == <<1, K, M, K, 1>>
        terms[at \in (1 .. 6) \X (0 .. end + M)] ==
            LET n == at[1]
                b == at[2]
            IN IF n = 6 THEN {}
               ELSE IF goes(n, b)
                    THEN {<<unit[n], b \div unit[n]>>} \cup terms[<<n, b + unit[n]>>]
               ELSE terms[<<n + 1, b>>]
    IN IF beg > end THEN {} ELSE terms[<<1, beg>>]

\* A search for version:beg.. in the current index.
VersionSearch(beg) ==
    {m \in Msgs : \E t \in Cover(beg, ver) : <<t[1], t[2], m>> \in touched}
-----------------------------------------------------------------------------
\* iter_tags(): the stored tags of a namespace lose its name; without a
\* namespace, the tags of all of them are listed.
Stored == {kw \in Keyword : kw.tag # All /\ posts[kw] # {}}
IterTags(ns) ==
    IF ns = None THEN Stored ELSE {Kw(kw.tag, None) : kw \in {k \in Stored : k.ns = ns}}

\* _ns(): a keyword that names a namespace is refused inside one.
Refused(kw, ns) == ns # None /\ kw.ns # None
InSpace(kw, ns) == IF ns = None THEN kw ELSE Kw(kw.tag, ns)

\* keyword_index(create=True): a key, then the record of an unused L1 slot.
NeedsSlot(kw) == kw \notin DOMAIN keys
HasSlot == l1 < L1Keywords

\* Mutant: a tag that names its namespace is not marked.
Marked_Inside(ops, ns) ==
    LET mark(o) == IF o.sign = "-" \/ ns = None THEN << >>
                   ELSE <<[sign |-> "+", kw |-> Kw(All, IF ns = None THEN o.kw.ns ELSE None)]>>
    IN FlattenSeq([i \in DOMAIN ops |-> <<ops[i]>> \o mark(ops[i])])
\* api_tag(): what is tagged into a namespace is marked as being there.
Marked(ops, ns) ==
    LET mark(o) == IF o.sign = "-" \/ (ns = None /\ o.kw.ns = None) THEN << >>
                   ELSE <<[sign |-> "+", kw |-> Kw(All, IF ns = None THEN o.kw.ns ELSE None)]>>
    IN FlattenSeq([i \in DOMAIN ops |-> <<ops[i]>> \o mark(ops[i])])

MayRequest == op = Idle /\ ver + quiet < MaxVersion /\ stops <= MaxStops

\* mutate() begins with a list of sets of messages and operations on them.
Mutate(todo, ns, rec) ==
    op' = [stage |-> "index", ns |-> ns, rec |-> rec, before |-> posts,
           todo |-> todo, acts |-> << >>, base |-> ver, star |-> FALSE,
           cset |-> {}, changes |-> << >>, real |-> {}]

Tag(b, ns, rec) ==
    /\ MayRequest
    /\ Mutate([i \in DOMAIN b |-> [on |-> b[i].on, ops |-> Marked(b[i].ops, ns)]],
              ns, rec)
    /\ snap' = NoSnap
    /\ UNCHANGED <<index, since, lost, loose, undone, stops, quiet>>

\* Mutant: the changes are undone in the order they were made.
Mutations_InOrder(changes, undo) ==
    LET todo(c) ==
            LET from == IF undo THEN c.oset ELSE c.iset
                to == IF undo THEN c.iset ELSE c.oset
                step(sign, on) == IF on = {} THEN << >>
                                  ELSE <<[on |-> on, ops |-> <<[sign |-> sign, kw |-> c.kw]>>]>>
            IN step("+", to \ from) \o step("-", from \ to)
    IN FlattenSeq([i \in DOMAIN changes |-> todo(changes[i])])
\* historic_mutations(): the bits that a recorded change set and cleared, in
\* reverse order for an undo.  A slot used again has another id.
Mutations(changes, undo) ==
    LET todo(c) ==
            LET from == IF undo THEN c.oset ELSE c.iset
                to == IF undo THEN c.iset ELSE c.oset
                step(sign, on) == IF on = {} THEN << >>
                                  ELSE <<[on |-> on, ops |-> <<[sign |-> sign, kw |-> c.kw]>>]>>
            IN step("+", to \ from) \o step("-", from \ to)
        order == IF undo THEN Reverse(changes) ELSE changes
    IN FlattenSeq([i \in DOMAIN order |-> todo(order[i])])

Undo(slot, id, undo, ns) ==
    /\ MayRequest
    /\ id # 0 /\ hist[slot].id = id
    /\ Mutate(Mutations(hist[slot].changes, undo), ns, FALSE)
    /\ snap' = IF slot = snap.slot /\ ns = None
               THEN [snap EXCEPT !.want = IF undo THEN "before" ELSE "after"] ELSE NoSnap
    /\ undone' = TRUE
    /\ UNCHANGED <<index, since, lost, loose, stops, quiet>>

\* The keywords of the next operation are looked up, and made.
NextOp == Head(Head(op.todo).ops)
Indexing == op.stage = "index" /\ op.todo # << >> /\ Head(op.todo).ops # << >>
Looked(acts, star) ==
    op' = [op EXCEPT !.todo[1].ops = Tail(@), !.acts = @ \o acts, !.star = @ \/ star]
IndexStar ==
    LET kws == IF NextOp.sign = "-" THEN IterTags(op.ns) ELSE {} IN
    /\ Indexing /\ NextOp.kw.tag = Star
    /\ Looked(SetToSeq([sign : {"-"}, kw : kws]), TRUE)
    /\ UNCHANGED <<index, history>>

\* Mutant: the namespace is not added.
IndexOp_NoSpace ==
    LET kw == NextOp.kw IN
    /\ Indexing /\ NextOp.kw.tag # Star /\ ~Refused(NextOp.kw, op.ns)
    /\ kw \in Keyword
    /\ NextOp.sign = "-" \/ ~NeedsSlot(kw)
    /\ Looked(<<[sign |-> NextOp.sign, kw |-> kw]>>, FALSE)
    /\ UNCHANGED <<index, history>>
IndexOp ==
    LET kw == InSpace(NextOp.kw, op.ns) IN
    /\ Indexing /\ NextOp.kw.tag # Star /\ ~Refused(NextOp.kw, op.ns)
    /\ NextOp.sign = "-" \/ ~NeedsSlot(kw)
    /\ Looked(<<[sign |-> NextOp.sign, kw |-> kw]>>, FALSE)
    /\ UNCHANGED <<index, history>>

\* Mutant: the new key leads to the last slot in use.
MakeKey_LastSlot(kw) ==
    /\ NeedsSlot(kw) /\ HasSlot
    /\ keys' = Put(keys, kw, IF l1 = 0 THEN 1 ELSE l1)
    /\ l1' = IF l1 = 0 THEN 1 ELSE l1
MakeKey(kw) ==
    /\ NeedsSlot(kw) /\ HasSlot
    /\ keys' = Put(keys, kw, l1 + 1)
    /\ l1' = l1 + 1
IndexNew ==
    LET kw == InSpace(NextOp.kw, op.ns) IN
    /\ Indexing /\ NextOp.kw.tag # Star /\ ~Refused(NextOp.kw, op.ns)
    /\ NextOp.sign = "+" /\ MakeKey(kw)
    /\ Looked(<<[sign |-> "+", kw |-> kw]>>, FALSE)
    /\ UNCHANGED <<posts, ver, pos, hist, touched, history>>

\* PermissionError, or no slot is left ("raise None", itself an error): what
\* was changed stays, with no history and no new version.
Fail ==
    /\ Indexing /\ NextOp.kw.tag # Star
    /\ \/ Refused(NextOp.kw, op.ns)
       \/ NextOp.sign = "+" /\ NeedsSlot(InSpace(NextOp.kw, op.ns)) /\ ~HasSlot
    /\ lost' = lost \cup op.real
    /\ op' = Idle
    /\ snap' = NoSnap
    /\ stops' = stops + 1
    /\ UNCHANGED <<index, since, loose, undone, quiet>>

\* A posting list is changed, if the operation changes it.  "XOR tells us
\* which bits changed", but IntSet's ^= of two sets is their union.
Applying ==
    /\ op.stage = "index" /\ op.todo # << >>
    /\ Head(op.todo).ops = << >> /\ op.acts # << >>
\* Nothing was looked up: in:* of no tags.
Applied ==
    /\ op.stage = "index" /\ op.todo # << >>
    /\ Head(op.todo).ops = << >> /\ op.acts = << >>
    /\ op' = [op EXCEPT !.todo = Tail(@)]
    /\ UNCHANGED <<index, history>>
AfterAct == IF Len(op.acts) = 1 THEN Tail(op.todo) ELSE op.todo
Apply ==
    LET act == Head(op.acts)
        mset == Head(op.todo).on
        iset == posts[act.kw]
        oset == IF act.sign = "+" THEN iset \cup mset ELSE iset \ mset
        diff == (iset \ oset) \cup (oset \ iset)
        change == [kw |-> act.kw, iset |-> iset \cap mset, oset |-> oset \cap mset]
    IN /\ Applying
       /\ posts' = [posts EXCEPT ![act.kw] = oset]
       /\ op' = [op EXCEPT !.acts = Tail(@), !.todo = AfterAct, !.real = @ \cup diff,
                           !.cset = IF diff = {} THEN @ ELSE @ \cup ((iset \cup oset) \cap mset),
                           !.changes = IF diff = {} THEN @ ELSE Append(@, change)]
       /\ since' = [m \in Msgs |-> IF m \in diff THEN op.base + 1 ELSE since[m]]
       /\ UNCHANGED <<keys, l1, ver, pos, hist, touched, snap, lost, loose, undone, stops, quiet>>
\* _allocate_history_slot(), or touch() without a version of its own.
NextSlot(p) == IF p + 1 > HistSlots THEN 1 ELSE p + 1
Finished == op.stage = "index" /\ op.todo = << >>
Allocate ==
    /\ Finished /\ op.rec
    /\ pos' = NextSlot(pos)
    /\ ver' = ver + 1
    /\ op' = [op EXCEPT !.stage = "record"]
    /\ UNCHANGED <<posts, keys, l1, hist, touched, history>>
NewVersion ==
    /\ Finished /\ ~op.rec
    /\ ver' = ver + 1
    /\ op' = [op EXCEPT !.stage = "touch"]
    /\ UNCHANGED <<posts, keys, l1, pos, hist, touched, history>>
RecordHistory ==
    /\ op.stage = "record"
    /\ hist' = [hist EXCEPT ![pos] = [id |-> ver, changes |-> op.changes]]
    /\ snap' = [slot |-> pos, before |-> op.before, after |-> posts, want |-> "after"]
    /\ op' = [op EXCEPT !.stage = "touch"]
    /\ UNCHANGED <<posts, keys, l1, ver, pos, touched, since, lost, loose, undone, stops, quiet>>

\* Mutant: version keywords stop at the first multiplier.
Touches_NoMillions(v, ms) ==
    {<<t[1], t[2], m>> : t \in VersionKeywords(v) \ {<<M, v \div M>>}, m \in ms}
\* The postings of version keywords that touch() adds.
Touches(v, ms) == {<<t[1], t[2], m>> : t \in VersionKeywords(v), m \in ms}
Touch ==
    /\ op.stage = "touch"
    /\ touched' = touched \cup Touches(ver, op.cset)
    /\ op' = Idle
    /\ UNCHANGED <<posts, keys, l1, ver, pos, hist, history>>
-----------------------------------------------------------------------------
\* add_results(): a new version first, then keys, then the posting lists of
\* tags, in L1, before those of versions, in L2.  The importer's passes over
\* keywords, which may find tags that came after its pass over tags, do not
\* touch: they make no version, and no version keywords.
AddResults(kws, ids, touch) ==
    /\ MayRequest
    /\ ver' = IF touch THEN ver + 1 ELSE ver
    /\ quiet' = IF touch THEN quiet ELSE quiet + 1
    /\ op' = [stage |-> "key", kws |-> kws, new |-> kws, ns |-> None, touch |-> touch,
              base |-> ver, cset |-> ids, real |-> {}]
    /\ snap' = NoSnap
    /\ UNCHANGED <<posts, keys, l1, pos, hist, touched, since, lost, loose, undone, stops>>
AddKey(kw) ==
    /\ op.stage = "key" /\ kw \in op.new
    /\ MakeKey(kw)
    /\ op' = [op EXCEPT !.new = @ \ {kw}]
    /\ UNCHANGED <<posts, ver, pos, hist, touched, history>>
AddKeyFails ==
    /\ op.stage = "key" /\ ~HasSlot
    /\ \E kw \in op.new : NeedsSlot(kw)
    /\ op' = Idle
    /\ stops' = stops + 1
    /\ UNCHANGED <<index, snap, since, lost, loose, undone, quiet>>
AddKeysDone ==
    /\ op.stage = "key" /\ \A kw \in op.new : ~NeedsSlot(kw)
    /\ op' = [op EXCEPT !.stage = "add", !.new = {}]
    /\ UNCHANGED <<index, history>>
AddPost(kw) ==
    LET new == op.cset \ posts[kw]
        seen == IF op.touch THEN new ELSE {}
        next == [op EXCEPT !.kws = @ \ {kw}, !.real = @ \cup seen]
    IN /\ op.stage = "add" /\ kw \in op.kws
       /\ \A k \in op.kws : keys[kw] <= keys[k]
       /\ posts' = [posts EXCEPT ![kw] = @ \cup op.cset]
       /\ since' = [m \in Msgs |-> IF m \in seen THEN op.base + 1 ELSE since[m]]
       /\ loose' = [ns \in Spaces |-> IF ns = kw.ns THEN loose[ns] \cup new ELSE loose[ns]]
       /\ op' = IF op.kws # {kw} THEN next
                ELSE IF op.touch THEN [next EXCEPT !.stage = "touch"] ELSE Idle
       /\ UNCHANGED <<keys, l1, ver, pos, hist, touched, snap, lost, undone, stops, quiet>>

\* Mutant: the key is dropped with the first message.
DelResults_DropKey(kw, ids) ==
    LET gone == posts[kw] \cap ids IN
    /\ MayRequest
    /\ posts' = [posts EXCEPT ![kw] = @ \ ids]
    /\ keys' = [k \in DOMAIN keys \ {kw} |-> keys[k]]
    /\ since' = [m \in Msgs |-> IF m \in gone THEN ver + 1 ELSE since[m]]
    /\ op' = [stage |-> "index", todo |-> << >>, rec |-> FALSE, ns |-> None,
              cset |-> ids, real |-> gone]
    /\ snap' = NoSnap
    /\ UNCHANGED <<l1, ver, pos, hist, touched, lost, loose, undone, stops, quiet>>
\* del_results(): the key of a tag whose slot is left empty is dropped, but
\* the slot keeps its empty record, and is not used again.
DelResults(kw, ids) ==
    LET gone == posts[kw] \cap ids
        empty == \A k \in DOMAIN keys :
                    keys[k] = keys[kw] => posts[k] \subseteq (IF k = kw THEN ids ELSE {})
    IN /\ MayRequest
       /\ posts' = [posts EXCEPT ![kw] = @ \ ids]
       /\ keys' = IF kw \in DOMAIN keys /\ empty
                  THEN [k \in DOMAIN keys \ {kw} |-> keys[k]] ELSE keys
       /\ since' = [m \in Msgs |-> IF m \in gone THEN ver + 1 ELSE since[m]]
       /\ op' = [stage |-> "index", todo |-> << >>, rec |-> FALSE, ns |-> None,
                 cset |-> ids, real |-> gone]
       /\ snap' = NoSnap
       /\ UNCHANGED <<l1, ver, pos, hist, touched, lost, loose, undone, stops, quiet>>
-----------------------------------------------------------------------------
\* The worker is killed: between the key and the record of a new tag, in the
\* middle of the version keywords, or between any two steps.
Making == IF Indexing /\ NextOp.sign = "+" /\ ~Refused(NextOp.kw, op.ns)
          THEN {InSpace(NextOp.kw, op.ns)} \cap Keyword
          ELSE IF op.stage = "key" THEN op.new ELSE {}
Kill ==
    /\ op # Idle /\ stops < MaxStops
    /\ \/ keys' = keys
       \/ \E kw \in Making : NeedsSlot(kw) /\ HasSlot /\ keys' = Put(keys, kw, l1 + 1)
    /\ \E ts \in IF op.stage = "touch" THEN SUBSET VersionKeywords(ver) ELSE {{}} :
          touched' = touched \cup {<<t[1], t[2], m>> : t \in ts, m \in op.cset}
    /\ lost' = lost \cup op.real
    /\ op' = Idle
    /\ stops' = stops + 1
    /\ snap' = NoSnap
    /\ UNCHANGED <<posts, l1, ver, pos, hist, since, loose, undone, quiet>>

Init ==
    /\ posts = [kw \in Keyword |-> {}]
    /\ keys = [kw \in {} |-> 0] /\ l1 = 0
    /\ ver = 1 /\ pos = HistSlots
    /\ hist = [s \in Slots |-> NoChange]
    /\ touched = {}
    /\ op = Idle
    /\ snap = NoSnap
    /\ since = [m \in Msgs |-> 0] /\ lost = {} /\ loose = [ns \in Spaces |-> {}]
    /\ undone = FALSE /\ stops = 0 /\ quiet = 0

\* The tags that are imported together.  Into a namespace they come without
\* its mark: _fix_tags_and_scope() adds the keyword @ns, which is no tag.
Imports == {{Kw(t, ns) : t \in ts} : ts \in SUBSET Tags \ {{}}, ns \in Spaces \cup {None}}
Requests ==
    \/ \E b \in Batches, ns \in Spaces \cup {None} : Tag(b, ns, TRUE)
    \/ \E slot \in Slots, id \in 1 .. MaxVersion, undo \in BOOLEAN,
          ns \in Spaces \cup {None} : Undo(slot, id, undo, ns)
    \/ \E kws \in Imports, ids \in Imported, touch \in BOOLEAN : AddResults(kws, ids, touch)
    \/ \E t \in Tags, ns \in Spaces \cup {None}, ids \in Imported : DelResults(Kw(t, ns), ids)

Next ==
    \/ Requests
    \/ IndexStar \/ IndexOp \/ IndexNew \/ Fail \/ Apply \/ Applied
    \/ Allocate \/ NewVersion \/ RecordHistory \/ Touch
    \/ \E kw \in Keyword : AddKey(kw) \/ AddPost(kw)
    \/ AddKeyFails \/ AddKeysDone \/ Kill

Spec == Init /\ [][Next]_vars
-----------------------------------------------------------------------------
\* The variables have their types, and what is found by a tag has a key.
TypeOK ==
    /\ posts \in [Keyword -> SUBSET Msgs]
    /\ DOMAIN keys \subseteq Keyword /\ l1 \in 0 .. L1Keywords
    /\ \A kw \in DOMAIN keys : keys[kw] \in 1 .. L1Keywords
    /\ \A kw \in Keyword : posts[kw] # {} => kw \in DOMAIN keys
    /\ ver \in 1 .. MaxVersion /\ pos \in Slots
    /\ \A s \in Slots : hist[s].id \in 0 .. MaxVersion
    /\ op.stage \in {"idle", "index", "record", "touch", "key", "add"}
    /\ since \in [Msgs -> 0 .. MaxVersion] /\ lost \subseteq Msgs /\ loose \in [Spaces -> SUBSET Msgs]

\* Undoing (redoing) a recorded batch, from the postings it left (found),
\* gives back all of the postings there were before (after) it, however its
\* operations overlapped.  Not in a namespace: see README.
UndoRestores ==
    (op = Idle /\ snap # NoSnap) => posts = snap[snap.want]

\* A client that has seen every change up to some version, and searches for
\* the versions after it, finds every message that changed since, unless the
\* request that changed it failed or was killed, or was the importer's, which
\* add keywords, and the tags among them, without a touch.
ChangesAreFound ==
    op = Idle => \A m \in Msgs \ lost :
        since[m] > 0 => \A v \in 0 .. since[m] : m \in VersionSearch(v)

\* A request in a namespace changes the tags of that namespace only, unless
\* it clears in:*.
NamespaceIsolation ==
    [][op # Idle /\ op.ns # None => \/ op.star
                                    \/ \A kw \in Keyword :
                                        posts'[kw] # posts[kw] => kw.ns = op.ns]_vars

\* A message that a client tags in a namespace is marked as being there, and
\* so is found, unless the change was cut short or some change was undone.  One
\* that was imported with a tag of the namespace need not be.
TaggedAreMarked ==
    op = Idle => \A t \in Tags, ns \in Spaces :
        posts[Kw(t, ns)] \subseteq posts[Kw(All, ns)] \cup lost \cup loose[ns] \/ undone

\* Two tags never have the same slot, unless a request was cut short.
SlotsAreExclusive ==
    \A k1, k2 \in DOMAIN keys : keys[k1] = keys[k2] => k1 = k2 \/ stops > 0
=============================================================================
