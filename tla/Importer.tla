------------------------------ MODULE Importer ------------------------------
(***************************************************************************)
(* moggie/workers/importer.py: how new mail gets into the search index.    *)
(*                                                                         *)
(* Importing tags messages as incoming and may queue a job for them.  The  *)
(* "full" queue runs one job at a time (see BackgroundJobs): a job reads   *)
(* the incoming messages in batches and puts their keywords in a shared    *)
(* table.  A second thread, the keyword loop, moves keywords from the      *)
(* table to the search worker, rare ones first, and takes the incoming tag *)
(* off the batches whose keywords it has moved.                            *)
(*                                                                         *)
(* The search and metadata workers are other processes: what they hold     *)
(* survives the death of this one.  A keyword is a number, in the order    *)
(* that sorted() gives; so is a message.                                   *)
(***************************************************************************)
EXTENDS Integers, Sequences, FiniteSets

CONSTANTS
    Msgs,           \* message indexes
    OldMsgs,        \* those that are tagged in:_mp_incoming_old
    AnnotatedMsgs,  \* those whose filters or parser make annotations
    MissingMsgs,    \* those whose metadata is marked missing: they came after
                    \* a reply to them, and keep the mark (MetadataStore)
    Words,          \* keywords
    TagWords,       \* the ones that start with in:
    WordsOf,        \* the keywords of each message, after filtering
    Rounds,         \* (tags, rare keywords) passes before the common one: 4
    RareLimit,      \* a rare keyword has fewer hits than this: 3
    MaxPairs,       \* keywords per upload: 150
    BatchSize,      \* BATCH_SIZE
    BatchSizeFull,  \* BATCH_SIZE_FULL
    MaxImports, MaxFaults   \* bounds: imports; failures and restarts

ASSUME MsgsAssumption == Msgs \subseteq Nat /\ Words \subseteq Nat
ASSUME SizesAssumption == Rounds \in Nat /\ MaxPairs \in Nat
ASSUME WordsOfAssumption == WordsOf \in [Msgs -> SUBSET Words]

VARIABLES
    imported, incoming,     \* messages tagged at any time; tagged as incoming
    indexed,                \* the search worker's hits for each keyword
    annotated,              \* messages whose annotations were stored
    keywords,               \* self.keywords: hits still to be uploaded
    annotations,            \* self.annotations: messages to be annotated
    keyword_batch_no,
    keyword_batches,        \* (a set: their order makes no difference)
    jobs,                   \* the queue of full-index jobs
    idle_running,
    progress,               \* self.progress is not None
    rpc, rjob, rold, rqueue, rtodo, radded,     \* the job that runs
    kpc, kpass, ktodo, kpairs, kdone,           \* the keyword loop
    imports, faults                             \* counters for the bounds

stored == <<imported, incoming, indexed, annotated>>
shared == <<keywords, annotations, keyword_batch_no, keyword_batches>>
queue == <<jobs, idle_running, progress>>
reader == <<rpc, rjob, rold, rqueue, rtodo, radded>>
loop == <<kpc, kpass, ktodo, kpairs, kdone>>
counters == <<imports, faults>>
vars == <<stored, shared, queue, reader, loop, counters>>

NoHits == [w \in Words |-> {}]
Job == [idle : BOOLEAN, idxs : SUBSET Msgs]
NoJob == [idle |-> FALSE, idxs |-> {}]
Batch == [no : Nat, idxs : SUBSET Msgs]
Passes == 2 * Rounds + 1

Pending(kws) == {w \in Words : kws[w] # {}}
Lowest(S, n) == {m \in S : Cardinality({k \in S : k < m}) < n}

Init ==
    /\ imported = {} /\ incoming = {} /\ indexed = NoHits /\ annotated = {}
    /\ keywords = NoHits /\ annotations = {}
    /\ keyword_batch_no = 0 /\ keyword_batches = {}
    /\ jobs = << >> /\ idle_running = FALSE /\ progress = FALSE
    /\ rpc = "none" /\ rjob = NoJob /\ rold = FALSE
    /\ rqueue = {} /\ rtodo = {} /\ radded = {}
    /\ kpc = "dead" /\ kpass = 1 /\ ktodo = {} /\ kpairs = NoHits /\ kdone = {}
    /\ imports = 0 /\ faults = 0

Fault == faults < MaxFaults /\ faults' = faults + 1 /\ UNCHANGED imports
-----------------------------------------------------------------------------
(* Importing and the job queue. *)

\* _import_search: tag a batch, new or (with force) known, and queue a job.
Import(S, full) ==
    /\ imports < MaxImports
    /\ imports' = imports + 1
    /\ imported' = imported \cup S
    /\ incoming' = incoming \cup S
    /\ jobs' = IF full THEN Append(jobs, [idle |-> FALSE, idxs |-> S]) ELSE jobs
    /\ progress' = (progress \/ ~full)
    /\ UNCHANGED <<indexed, annotated, shared, idle_running, reader, loop, faults>>

OnTick ==
    /\ ~idle_running /\ ~progress
    /\ progress' = TRUE
    /\ UNCHANGED <<stored, shared, jobs, idle_running, reader, loop, counters>>

OnIdle ==
    /\ ~idle_running /\ progress
    /\ idle_running' = TRUE
    /\ jobs' = Append(jobs, [idle |-> TRUE, idxs |-> {}])
    /\ UNCHANGED <<stored, shared, progress, reader, loop, counters>>

\* _start_keyword_loop, under the lock.
StartKeywordLoop ==
    /\ kpc' = IF kpc = "dead" THEN "top" ELSE kpc
    /\ UNCHANGED <<kpass, ktodo, kpairs, kdone>>

EndJob ==
    /\ rpc' = "none" /\ rjob' = NoJob /\ rold' = FALSE
    /\ rqueue' = {} /\ rtodo' = {} /\ radded' = {}
    /\ idle_running' = (idle_running /\ ~rjob.idle)
    /\ UNCHANGED progress

\* The background worker takes the next job.
StartJob ==
    /\ rpc = "none" /\ jobs # << >> /\ ~Head(jobs).idle
    /\ jobs' = Tail(jobs)
    /\ rpc' = "select" /\ rjob' = Head(jobs)
    /\ UNCHANGED <<stored, shared, idle_running, progress, rold, rqueue, rtodo, radded, loop, counters>>

\* on_idle's job gives up at once when batches are waiting.  It then leaves
\* idle_running set: the return comes before the try that would clear it.
StartIdleJob ==
    /\ rpc = "none" /\ jobs # << >> /\ Head(jobs).idle
    /\ jobs' = Tail(jobs)
    /\ StartKeywordLoop
    /\ IF keyword_batches # {}
       THEN UNCHANGED <<rpc, rjob>>
       ELSE rpc' = "select" /\ rjob' = Head(jobs)
    /\ UNCHANGED <<stored, shared, idle_running, progress, rold, rqueue, rtodo, radded, counters>>
-----------------------------------------------------------------------------
(* _index_full_messages: the incoming queue, then the old one. *)

NextPass ==
    IF rold THEN EndJob
    ELSE /\ rold' = TRUE /\ rpc' = "select"
         /\ UNCHANGED <<idle_running, progress, rjob, rqueue, rtodo, radded>>

Candidates ==
    {m \in incoming : (m \in OldMsgs) = rold /\ (rjob.idxs = {} \/ m \in rjob.idxs)}

Select ==
    /\ rpc = "select"
    /\ IF Candidates = {}
       THEN NextPass
       ELSE /\ rqueue' = Lowest(Candidates, BatchSizeFull)
            /\ rpc' = "batch"
            /\ UNCHANGED <<idle_running, progress, rjob, rold, rtodo, radded>>
    /\ UNCHANGED <<stored, shared, jobs, loop, counters>>

\* A batch goes without the messages that are marked as missing: they are not
\* read, and stay incoming.
StartBatch ==
    /\ rpc = "batch"
    /\ rtodo' = Lowest(rqueue, BatchSize) \ MissingMsgs
    /\ rqueue' = rqueue \ Lowest(rqueue, BatchSize)
    /\ radded' = {}
    /\ StartKeywordLoop
    /\ rpc' = "read"
    /\ UNCHANGED <<stored, shared, queue, rjob, rold, counters>>

\* process_email: messages load in any order; each adds its keywords under
\* the lock.
ReadEmail(m) ==
    /\ rpc = "read" /\ m \in rtodo
    /\ rtodo' = rtodo \ {m}
    /\ keywords' = [w \in Words |->
            IF w \in WordsOf[m] THEN keywords[w] \cup {m} ELSE keywords[w]]
    /\ annotations' = annotations \cup (AnnotatedMsgs \cap {m})
    /\ radded' = radded \cup {m}
    /\ UNCHANGED <<stored, keyword_batch_no, keyword_batches, queue,
                   rpc, rjob, rold, rqueue, loop, counters>>

\* The message cannot be loaded: it is skipped and stays incoming.
ReadFails(m) ==
    /\ rpc = "read" /\ m \in rtodo
    /\ Fault
    /\ rtodo' = rtodo \ {m}
    /\ UNCHANGED <<stored, shared, queue, rpc, rjob, rold, rqueue, radded, loop>>

RecordBatch ==
    /\ rpc = "read" /\ rtodo = {}
    /\ keyword_batches' = keyword_batches \cup {[no |-> keyword_batch_no, idxs |-> radded]}
    /\ radded' = {}
    /\ rpc' = IF rqueue = {} THEN "wait" ELSE "batch"
    /\ UNCHANGED <<stored, keywords, annotations, keyword_batch_no, queue,
                   rjob, rold, rqueue, rtodo, loop, counters>>

Poll_NoRestart ==
    /\ rpc = "wait" /\ keyword_batches # {}
    /\ UNCHANGED vars

\* The job waits for the keyword loop, and restarts it if need be.
Poll ==
    /\ rpc = "wait" /\ keyword_batches # {}
    /\ StartKeywordLoop
    /\ UNCHANGED <<stored, shared, queue, reader, counters>>

WaitOver ==
    /\ rpc = "wait" /\ keyword_batches = {}
    /\ NextPass
    /\ UNCHANGED <<stored, shared, jobs, loop, counters>>

\* It waits for five minutes at most, however long the uploads take.
WaitExpires ==
    /\ rpc = "wait" /\ keyword_batches # {} /\ kpc \notin {"dead", "exiting"}
    /\ Fault
    /\ NextPass
    /\ UNCHANGED <<stored, shared, jobs, loop>>

\* An exception (a message that cannot be parsed, a call to another worker
\* that fails) ends the job; the messages it was reading stay incoming.
JobFails ==
    /\ rpc \in {"select", "batch", "read"}
    /\ Fault
    /\ EndJob
    /\ UNCHANGED <<stored, shared, jobs, loop>>
-----------------------------------------------------------------------------
(* _keyword_loop. *)

Top_NoAnnotations ==
    /\ kpc = "top"
    /\ IF Pending(keywords) = {} /\ keyword_batches = {}
       THEN kpc' = "exiting" /\ UNCHANGED ktodo
       ELSE kpc' = "annotate" /\ ktodo' = annotations
    /\ UNCHANGED <<stored, shared, queue, reader, kpass, kpairs, kdone, counters>>

Top ==
    /\ kpc = "top"
    /\ IF Pending(keywords) = {} /\ keyword_batches = {} /\ annotations = {}
       THEN kpc' = "exiting" /\ UNCHANGED ktodo
       ELSE kpc' = "annotate" /\ ktodo' = annotations
    /\ UNCHANGED <<stored, shared, queue, reader, kpass, kpairs, kdone, counters>>

\* The thread has decided to end, but still counts as alive.
Exit ==
    /\ kpc = "exiting"
    /\ kpc' = "dead"
    /\ UNCHANGED <<stored, shared, queue, reader, kpass, ktodo, kpairs, kdone, counters>>

Annotate(m) ==
    /\ kpc = "annotate" /\ m \in ktodo
    /\ ktodo' = ktodo \ {m}
    /\ annotations' = annotations \ {m}
    /\ annotated' = annotated \cup {m}
    /\ UNCHANGED <<imported, incoming, indexed, keywords, keyword_batch_no, keyword_batches,
                   queue, reader, kpc, kpass, kpairs, kdone, counters>>

\* A failure to annotate is logged and forgotten.
AnnotateFails(m) ==
    /\ kpc = "annotate" /\ m \in ktodo
    /\ Fault
    /\ ktodo' = ktodo \ {m}
    /\ annotations' = annotations \ {m}
    /\ UNCHANGED <<stored, keywords, keyword_batch_no, keyword_batches,
                   queue, reader, kpc, kpass, kpairs, kdone>>

AnnotateDone ==
    /\ kpc = "annotate" /\ ktodo = {}
    /\ kpc' = "pass" /\ kpass' = 1
    /\ UNCHANGED <<stored, shared, queue, reader, ktodo, kpairs, kdone, counters>>

\* The keywords of a pass: tags and rare keywords take turns, then all.
PassWords ==
    IF kpass = Passes THEN Pending(keywords)
    ELSE IF kpass % 2 = 1 THEN Pending(keywords) \cap TagWords
    ELSE {w \in Pending(keywords) : Cardinality(keywords[w]) < RareLimit}

\* Under the lock: the pass's keywords, and a new number for the common pass.
StartPass ==
    /\ kpc = "pass"
    /\ ktodo' = PassWords
    /\ keyword_batch_no' = IF kpass = Passes THEN keyword_batch_no + 1 ELSE keyword_batch_no
    /\ kpc' = "pop"
    /\ UNCHANGED <<stored, keywords, annotations, keyword_batches, queue, reader,
                   kpass, kpairs, kdone, counters>>

\* Under the lock: take a keyword's hits out of the table.
Pop ==
    /\ kpc = "pop" /\ ktodo # {}
    /\ \E w \in ktodo :
          /\ \A x \in ktodo : w <= x
          /\ kpairs' = [kpairs EXCEPT ![w] = keywords[w]]
          /\ keywords' = [keywords EXCEPT ![w] = {}]
          /\ ktodo' = ktodo \ {w}
    /\ kpc' = IF ktodo' = {} \/ Cardinality(Pending(kpairs')) >= MaxPairs
              THEN "upload" ELSE "pop"
    /\ UNCHANGED <<stored, annotations, keyword_batch_no, keyword_batches, queue, reader,
                   kpass, kdone, counters>>

\* search.add_results.
Upload ==
    /\ kpc = "upload"
    /\ indexed' = [w \in Words |-> indexed[w] \cup kpairs[w]]
    /\ kpairs' = NoHits
    /\ kpc' = "pop"
    /\ UNCHANGED <<imported, incoming, annotated, shared, queue, reader,
                   kpass, ktodo, kdone, counters>>

PassDone_Overrun ==
    /\ kpc = "pop" /\ ktodo = {}
    /\ kpc' = "pass" /\ kpass' = kpass + 1
    /\ UNCHANGED <<stored, shared, queue, reader, ktodo, kpairs, kdone, counters>>

PassDone ==
    /\ kpc = "pop" /\ ktodo = {}
    /\ IF kpass = Passes
       THEN kpc' = "end" /\ UNCHANGED kpass
       ELSE kpc' = "pass" /\ kpass' = kpass + 1
    /\ UNCHANGED <<stored, shared, queue, reader, ktodo, kpairs, kdone, counters>>

Finished_Inclusive(b) == Pending(keywords) = {} \/ b.no <= keyword_batch_no

\* Under the lock: which batches are complete?  Only the order of the numbers
\* matters, so the model counts from 0 again when no batch is left.
Finished(b) == Pending(keywords) = {} \/ b.no < keyword_batch_no

CloseBatches ==
    /\ kpc = "end"
    /\ kdone' = {b \in keyword_batches : Finished(b)}
    /\ keyword_batches' = keyword_batches \ kdone'
    /\ keyword_batch_no' = IF keyword_batches' = {} THEN 0 ELSE keyword_batch_no
    /\ kpc' = "untag"
    /\ UNCHANGED <<stored, keywords, annotations, queue, reader,
                   kpass, ktodo, kpairs, counters>>

\* search.del_results.
Untag(b) ==
    /\ kpc = "untag" /\ b \in kdone
    /\ incoming' = incoming \ b.idxs
    /\ kdone' = kdone \ {b}
    /\ UNCHANGED <<imported, indexed, annotated, shared, queue, reader,
                   kpc, kpass, ktodo, kpairs, counters>>

UntagDone ==
    /\ kpc = "untag" /\ kdone = {}
    /\ kpc' = "top"
    /\ UNCHANGED <<stored, shared, queue, reader, kpass, ktodo, kpairs, kdone, counters>>

\* del_results fails: the thread ends, and starts again when someone asks.
UntagFails ==
    /\ kpc = "untag" /\ kdone # {}
    /\ Fault
    /\ kpc' = "dead" /\ kdone' = {}
    /\ UNCHANGED <<stored, shared, queue, reader, kpass, ktodo, kpairs>>

\* The worker quits or is killed, and is started again.
Crash ==
    /\ Fault
    /\ keywords' = NoHits /\ annotations' = {}
    /\ keyword_batch_no' = 0 /\ keyword_batches' = {}
    /\ jobs' = << >> /\ idle_running' = FALSE /\ progress' = FALSE
    /\ rpc' = "none" /\ rjob' = NoJob /\ rold' = FALSE
    /\ rqueue' = {} /\ rtodo' = {} /\ radded' = {}
    /\ kpc' = "dead" /\ kpass' = 1 /\ ktodo' = {} /\ kpairs' = NoHits /\ kdone' = {}
    /\ UNCHANGED stored
-----------------------------------------------------------------------------
KeywordLoop ==
    \/ Top \/ Exit \/ AnnotateDone \/ StartPass \/ Pop \/ Upload \/ PassDone
    \/ CloseBatches \/ UntagDone
    \/ \E m \in Msgs : Annotate(m)
    \/ \E b \in kdone : Untag(b)

Reader ==
    \/ StartJob \/ StartIdleJob \/ Select \/ StartBatch \/ RecordBatch \/ Poll \/ WaitOver
    \/ \E m \in Msgs : ReadEmail(m)

Faults ==
    \/ WaitExpires \/ JobFails \/ UntagFails
    \/ \E m \in Msgs : ReadFails(m) \/ AnnotateFails(m)

Next ==
    \/ \E S \in SUBSET Msgs \ {{}}, full \in BOOLEAN : Import(S, full)
    \/ OnTick \/ OnIdle
    \/ Reader \/ KeywordLoop \/ Faults \/ Crash

Spec == Init /\ [][Next]_vars

\* The threads run; the main loop calls on_tick every TICK_T seconds, and
\* on_idle whenever nobody calls it for IDLE_T seconds.
Fairness ==
    /\ WF_vars(Reader)
    /\ WF_vars(KeywordLoop)
    /\ WF_vars(OnTick)
    /\ WF_vars(OnIdle)

FairSpec == Spec /\ Fairness

\* The failure that Next leaves out: add_results fails while the keyword loop
\* holds keywords that it took out of the table.
UploadFails ==
    /\ kpc = "upload"
    /\ Fault
    /\ kpairs' = NoHits /\ ktodo' = {} /\ kpc' = "dead"
    /\ UNCHANGED <<stored, shared, queue, reader, kpass, kdone>>

SpecUploadFails == Init /\ [][Next \/ UploadFails]_vars
-----------------------------------------------------------------------------
\* The variables have their types.
TypeOK ==
    /\ imported \in SUBSET Msgs /\ incoming \in SUBSET imported
    /\ indexed \in [Words -> SUBSET Msgs] /\ annotated \in SUBSET Msgs
    /\ keywords \in [Words -> SUBSET Msgs] /\ annotations \in SUBSET Msgs
    /\ keyword_batch_no \in Nat /\ keyword_batches \in SUBSET Batch
    /\ jobs \in Seq(Job) /\ idle_running \in BOOLEAN /\ progress \in BOOLEAN
    /\ rpc \in {"none", "select", "batch", "read", "wait"} /\ rjob \in Job
    /\ rold \in BOOLEAN /\ rqueue \in SUBSET Msgs
    /\ rtodo \in SUBSET Msgs /\ radded \in SUBSET Msgs
    /\ kpc \in {"dead", "top", "exiting", "annotate", "pass", "pop", "upload", "end", "untag"}
    /\ kpass \in 1 .. Passes /\ ktodo \in SUBSET (Msgs \cup Words)
    /\ kpairs \in [Words -> SUBSET Msgs] /\ kdone \in SUBSET Batch

\* "a marker to tell this loop when to mark a set of messages as fully
\* processed": a message that is no longer incoming can be found by every one
\* of its keywords, whatever the job and the keyword loop were doing when.
UntaggedIsIndexed ==
    \A m \in imported \ incoming : \A w \in WordsOf[m] : m \in indexed[w]

\* idle_running is set, but the job that would clear it is gone: on_idle will
\* queue no other.
IdleStuck ==
    idle_running /\ ~rjob.idle /\ \A i \in 1 .. Len(jobs) : ~jobs[i].idle

\* Every incoming message is indexed in the end, failed jobs and restarts
\* notwithstanding: "Add to search index" is what importing is for, and on_idle
\* takes up what the jobs left.
IncomingIsProcessed ==
    \A m \in Msgs : m \in incoming ~> m \notin incoming

\* The messages that are marked as missing come first, and fill every
\* selection from m's queue.
Crowded(m) ==
    LET before == {k \in incoming \cap MissingMsgs : k < m /\ (k \in OldMsgs) = (m \in OldMsgs)}
    IN Cardinality(before) >= BatchSizeFull

\* Three things can stand in the way: an idle job that gave up, the mark of a
\* message that came late, and more such messages than a job selects.
IncomingIsProcessedUnlessStuck ==
    \A m \in Msgs \ MissingMsgs : m \in incoming ~> (m \notin incoming \/ IdleStuck \/ Crowded(m))

\* No annotation stays in the table for ever: whoever adds one sees to it that
\* a keyword loop runs afterwards, though the loop may be about to exit.
AnnotationsLeaveTheTable ==
    \A m \in Msgs : m \in annotations ~> (m \notin annotations \/ IdleStuck)
=============================================================================
