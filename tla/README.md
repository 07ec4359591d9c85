# A TLA+ model of moggie

This directory holds TLA+ modules for the parts of moggie where an ordinary
test tells little: the record files and record stores that everything is kept
in, the index of messages and their threads, the search engine with its tags
and its undo history, the importer that indexes new mail with two threads and
three other processes, the background jobs of a worker, the pool of storage
workers, and the scheduler. TLC checks them on small instances; TLAPS proves
every invariant and safety property that a passing run checks (one of them,
`ThreadsConsistent`, in part: see *Proofs*), and the refinement of the job
queue, for all values of the constants. `PROJECT.json`
maps every definition to the lines it models and lists runs, hazards, findings
and theorems.

To run: `tlc -config RecordFile.cfg RecordFile`, `tlapm RecordFileProofs.tla`
and so on; the table under *Runs* has all pairs.

## 1. The system

moggie is a mail client built from processes. The *app worker* serves the user
interfaces and the command line over HTTP and calls the other workers over
local HTTP RPC; each worker is a single-threaded server plus background
threads.

| component | state | operations | hard part |
|---|---|---|---|
| record file (`storage/records.py`, `RecordFile`) | a chunk file: header with an index and a length marker, slots; in memory a copy of the index, a free list, a mapping | open, get, set, delete, compact, close | kills between and inside writes; reuse of slots; mapping shorter than the file |
| record store (`RecordStore`) | chunk files, a keys file, a cache of values | get, set, append, delete, compact | crash between renames; a compaction beside requests; index arithmetic |
| search engine (`search/engine.py`) and worker (`workers/search.py`) | posting lists over a record store, keyword slots, undo history, versions | add, delete, mutate, search, undo | long histories, partial application, namespaces |
| metadata index (`storage/metadata.py`, `workers/metadata.py`) | records, message-id and pointer keys, threads, sort orders | add, update, search, annotate | any order of arrival; several records and a column kept in step |
| importer (`workers/importer.py`) | keyword table, batches, annotations, a "full" job queue | import, index full messages, keyword loop, on_idle | two threads and a main loop over shared tables; remote calls that fail; restarts |
| storage worker (`workers/storage.py`) and pool (`workers/base.py`, `WorkerPool`) | workers in the pool, counts by capability; a cache of parsed mailboxes | get, list, set, append, delete | check then act outside of the lock; dropped workers; retries |
| worker base (`workers/base.py`) | background job queues, their threads, RPC sockets, status file | add job, serve, connect, launch, quit | a thread that ends while a job is added; launch races |
| app worker, API, contexts | routes, secrets, access | requests | authorisation; mostly request/response |
| scheduler (`app/cron.py`) | a database of actions and times | load, run due, reschedule | crash between run and reschedule; calendar arithmetic |
| ranges (`util/`, `search/`) | none | cover a range of dates or ids by few keywords | boundaries |
| IntSet (`util/intset.py`) | a bit array | set algebra, encode | word boundaries |
| passphrases, OpenPGP, IMAP, SMTP, parsers, formats, UIs | configuration, connections, caches | I/O and data transformation | little control of their own |

How they interact: the app worker asks the storage pool for messages and
mailboxes, tells the importer to import them, and sends searches to the search
and metadata workers. The importer reads messages through the storage workers,
writes metadata annotations, and adds and deletes search results. Those are
calls to other processes: what a callee has done survives the death of the
caller. The metadata and search workers keep their data in record stores.

What makes each part correct:

- record file: records keep their values through any operations on other
  records, and through a kill; a set that returned is in effect.
- importer: mail that is no longer marked as incoming can be found by its
  keywords; incoming mail gets indexed in the end.
- background jobs: one thread per queue, each job once and in order, none
  stranded.
- worker pool: no worker serves two calls, there is one writer, the counts
  agree with the workers there are, every call ends, a failure is reported.
- record store: records, keys and cached values agree, through restarts and
  compaction.
- metadata: who answers whom decides the threads, not the order of arrival.
- search engine: a recorded batch can be undone and redone exactly, a change
  that makes a version is found by it, a namespace keeps to itself.
- scheduler: what is due runs, for each of its times if it may not be skipped,
  and not twice unless a tick failed or the clock was set back.

## 2. Plan

Done, in this order: `RecordFile`, `Importer`, `JobQueue`, `BackgroundJobs`,
`WorkerPool`, `RecordStore`, `MetadataStore`, `SearchEngine` (with the version
ranges), `Cron`, each with a module of proofs but for `JobQueue`, which is the
abstract one.

Next:

1. The storage worker's parse cache; the launch of a worker (connect, exit
   code, status file); the caller lock of `WorkerPool`.
2. Date ranges and `IntSet` as operators, checked against the plain range and
   set over bounded inputs.
3. More of `SearchEngine` and `MetadataStore` as refinements: of a map from
   tags to messages, and of a forest of messages by what they answer.

How the modules meet: `RecordStore` takes a chunk file to be a function from
indexes to values, each write a step, which is what `RecordFile` shows of one;
`MetadataStore` and `SearchEngine` take a write of a record, with its keys
where nothing depends on the order, as a step of theirs.
`BackgroundJobs` and `Importer` meet at the job queue: `Importer` assumes one
"full" job at a time, in order, each once, which is what `JobQueue` states and
`BackgroundJobs` is proved to implement.

## 3. Modules

### RecordFile

One chunk file and the process that writes it. `size`, `recs`, `index` and
`marker` are the file: its length, the slots with a valid head, the header's
offsets and the recorded length. `offsets`, `empties` and `mapped` are the
process's memory (`self.offsets`, `self.empties`, `len(self.mmap)`). `phase`
and `op` hold where `set()` is and its locals: choosing the place
(`SetInPlace`, `SetReuse`, `SetAppend`) is one step, then each write to the
file is a step of its own, since the process can be killed between them (`Kill`)
or within them (`KillInWriteSlot`, `KillInWriteEnd`). `Open` and `Refuse` are
the two ends of `load_offsets`. The choice of a slot and its padding are
arithmetic on real lengths: that is where an overlap would come from. A payload
is opaque, and the length of its encoding is any member of `EncLens`, as
compression and encryption decide it. `died` is a history variable.

Left out: `compact()` (it is in `RecordStore`), the keys of encryption, short
writes that do not raise.
`WriteEndFails` (no space left) is only in `SpecDiskFull`: with it the
properties fail, see *Findings*.

A kill leaves in the file what was written before it; a power failure that
reorders writes is not modelled (the code never syncs).

### Importer

`incoming`, `indexed` and `annotated` belong to the search and metadata workers
and survive `Crash`; `keywords`, `annotations`, `keyword_batch_no` and
`keyword_batches` are the attributes of that name; `rpc` with the other `r`
variables are the locals of the full-index job, `kpc` with the other `k`
variables those of the keyword loop. A step is one hold of the lock or one
remote call. Failures are a message that cannot be loaded, a job that raises,
the five-minute wait that expires, an annotation or an untagging that fails,
and the death of the worker; `faults` counts them. A message in `MissingMsgs`
has metadata that is marked missing, because it came after a reply to it (see
`MetadataStore`): when it is imported by force it is tagged, and every job
passes it by (`importer.py:675`). `on_idle` does nothing until `on_tick` or an
import has set `progress`.

Abstracted: `keyword_batches` is a set, since nothing depends on its order; a
message's queue (new or old) is given by `OldMsgs`; `WordsOf` stands for
parsing and filtering; the wait ends when no batch is left, not also when the
table is short; batch numbers start again at 0 when no batch is left, since
they are only compared with those of recorded batches; asyncio tasks that an
aborted batch leaves behind, autotagging, filter training, the contents of
progress reports and the compaction after a full index are left out. A failed upload is only in `SpecUploadFails`, see *Findings*.

### JobQueue, BackgroundJobs

`JobQueue` says what a queue promises. `BackgroundJobs` has the callers (any
thread), the registry `background_threads`, the queues, and for each queue a
set of thread identities, reused once dead. Adding a job and starting threads
are two holds of the lock, so that another caller, or a thread that is about
to end, can come between.

### WorkerPool

The pool as a sequence of worker kinds (workers of one kind are alike), the
counts by kind, and for each calling thread its place in `WorkerPool.call`.
`NoWorker` and `DecideToAdd` are separate steps because the count is read after
the lock is released. `entry` keeps its value from the first try to the second,
as the Python local does. Faults are a connection or call that fails, a launch
that fails, a process that ended, and a suitable worker that cannot be used, so
that a later one is taken. Returning a worker, and counting one out, is a step
each, although `base.py:1098` and `:1100` do it outside of the lock: two
decrements that cross, of which one is lost, are not modelled.
Housekeeping removes one worker in a step, and may be repeated. IMAP
capabilities (same code, another limit), `async_call` and the caller lock are
left out.

### RecordStore

`path`, `tmp` and `old` are the files `chunk-N`, `chunk-N.tmp` and
`chunk-N.old`, `slots` the entries of the keys file; `keys`, `chunks`, `cache`
and `next_idx` are the attributes of that name. `chunks` maps to identities of
`RecordFile` objects, because the cache is keyed by them: an identity is reused
only when neither `chunks` nor the cache refers to it, as Python reuses an
address. `op` is the request in progress, which writes the record first and
then one key after the other (`WriteKey`); `comp` is the compaction, which
copies record by record and renames twice. A request that takes `change_lock`
cannot run beside a compaction; `SetByIndex` with `locked = FALSE` is
`api_update_ptrs` of `workers/metadata.py`, which does not take it, and readers
do not take it either. While `compact()` has closed the chunk's file
(`Closed`), an access to it raises and changes nothing.

`truth` records what was last set. `torn`, `gone` and `loose` record which
records a kill between two renames left in `.old`, which are lost for good, and
that keys may name records that are not there; the properties except exactly
these cases, which are listed under *Observations*.

Left out: `delete_everything`, the change of encryption keys (then `compact`
has no other effect), the read-only class, which only the self-test uses, and
the arguments `encode` and `cache` of `set` and `append` (`records.py:623`,
`:647`), which no request modelled here gives. A
chunk always opens here: that one whose writer was killed while it appended is
refused is in `RecordFile`.

### MetadataStore

`irt` says for each message what its In-Reply-To names, any pattern, circles
included. `recs` are the records with their parent, the list that a root keeps
of its thread, the `missing` mark of a ghost, whether the record has the
message's headers (`headers`: a ghost's has only a Message-Id, so nothing is
known of what it answers) and the `=dsn` annotation, which `Annotate` sets,
replaces or removes;
`names` the keys; `thread_ids` the column; `thread_cache` the cached threads.
A request is a run of steps, one for each record or column entry it writes,
since the worker may be killed between any two: `AddNew` or `AddAgain` or
`Annotate`, then `_rank` (`FindParent`, `MakeGhost`, `RankGhost`,
`StayInThread`, `IsRoot`, `JoinThread`, `MoveKid`, `SetColumn`), then `Save`.
The record of a message and its key are one step: that they may be apart is
`RecordStore`'s subject. `'thread' in metadata` (`metadata.py:217`) tests the
fields and not `metadata.more`, so a message that joins another thread keeps
its own list; the model does so too. `early`, `arrived`, `reported`, `redo`,
`answered` and `changed` are history: `answered` has all that a message was
ever said to answer, by its header or by an annotation, and `changed` the
messages of which later requests said something else; `redo` has the request that a kill cut short, until it is made
again as the next one, and it keeps the requests that it was not followed by
at once. `ThreadsConsistent` speaks of the states in which `redo` is empty and
messages did not answer each other (`Circular`: a set of messages each of
which answered another one of the set at some time), and of records that do not
hang from a message in `changed`: those `_add_to_thread` does not move along.

Copies of a message have the same headers. Left out: the columns of dates,
pointers and the keys made from them, `add_if_new`, `__delitem__`, sorting, and
the key made up for a Message-Id of less than 20 characters
(`metadata.py:273`). Record 0 is
not a message.

### SearchEngine

`posts` are the posting lists of tags, `keys` and `l1` the slots of L1 given to
them, `hist` and `pos` the ring of undo records, `ver` the version, `touched`
the postings of the version keywords. `mutate()` looks up the keywords of one
pair of the batch (`IndexOp`, `IndexNew`, `IndexStar`), then applies its
operations one by one (`Apply`), then goes on to the next pair; then it takes a
slot and a version, records the changes, and touches the messages. Each of these
steps is a write that a kill can follow. `Fail` is the PermissionError of
`_ns()` or the end of L1 (`raise None`), which leave a batch half done.
`Cover` is `version_term_magic`, its five loops as a function; the code's
units 1024 and 1048576 are the constants `K` and `M`. `+=`, `|=` and the like
of `IntSet` are set operations, except that `^=` of two sets is a union, as the
code computes it. Undo and redo are not recorded themselves: the command line,
which the text interface uses too, asks for that (`notmuch.py:1882`).

`AddResults` and `DelResults` are the importer's requests. With `touch = FALSE`,
as the importer's passes over keywords have it (`importer.py:506-541`), an
addition makes no version and touches nothing; tags can be among what they add,
those that the reader put in the table after the pass over tags. `Imports` gives
tags of a namespace no mark: `importer.py:171` adds the keyword `@ns`, which
is not `in:@ns`. No caller gives `add_results` a namespace of its own.

`since` is the version at which a client has to look for a change, `lost` the
messages whose change a failure or a kill cut short, `loose` those that were
tagged in a namespace by an import, `snap` what an undo has to give back.
`quiet` counts the requests that made no version, for the bound.

A namespace has a name that `quote_tag` leaves as it is: the worker quotes the
tag of a mark and not its namespace (`workers/search.py:233`). `in:*` is the
star only by that name: `in:*@ns` is a tag like others (`engine.py:653`).

Left out: the bytes of posting lists and IntSets, L2 buckets (a version keyword
is its own), tag comments, the spaces of words and addresses, queries other
than by version, `rename_l1`.

### Cron

A job is a period and a phase in minutes of the local clock, for the fields of
its line. `CalculateNext` is `calculate_next` in its three parts: from a
timestamp to local time, to the first local minute after it that matches, and
back to a timestamp. The local clock is set back once, by `Shift` minutes at
`Back`: the times of the repeated hour are taken for those of its first pass
(`Local`, `Timestamp`), so that in the second one the result may lie before the
time it was computed from. `Matches` says that there is a minute within
`Horizon` (366 days in the code); otherwise `calculate_next` raises ValueError,
in `parse_crontab` as at a line that does not parse, and in a tick as `Raise`.
A tick may also raise because the job that was handed out cannot be started.
Either way it ends between the run and the UPDATE: the row stays due, no thread
is joined, nothing is saved. `raised` has the jobs at which that happened,
`twice` the runs that were made again. `tab` is the table in memory, with rows in the order they
were made; `file` is the saved copy, whole or cut: its contents do not matter,
since a start parses both sources again, which deletes the rows that were
loaded. `tick` is the start of the app or a tick in progress, `loader` the
thread in which the tick runs `app.load_crontab()`, `saving` who holds
`db_lock` in `save()`. SQLite's cursor has read one row ahead of the row it
hands out (`ahead`), so the tick may act on a row that the loader has just
deleted. `parse_crontab` is one step: rows it adds are due after the tick's
own time, so the tick cannot see them in between; in the repeated hour they may
be due earlier, and then the tick sees them at its next row. Jobs other than
the loader are instantaneous, and the loader ends before it is due again.

Left out: the calendar fields of a line, a clock that is set forward, contexts,
one-off actions (no caller schedules one), and a crontab that cannot be read:
`core.py:142` catches that, and the rows loaded from the saved table stay in
use.

## 4. Runs

| run | module, cfg | expected | shows |
|---|---|---|---|
| `record_file` | `RecordFile`, `RecordFile.cfg` | pass | slots stay apart, writes stay in the mapping, only the target changes, a set takes effect, a refused file was killed mid-append |
| `record_file_disk_full` | `RecordFile`, `RecordFileDiskFull.cfg` | violation of `OnlyTheTarget` | an append that raises leaves a live slot on the free list |
| `importer` | `MCImporter`, `Importer.cfg` | pass | what is untagged is indexed; incoming mail is processed unless the idle job is stuck, or it is marked missing or crowded out by such mail; annotations leave the table |
| `importer_upload_fails` | `MCImporter`, `ImporterUploadFails.cfg` | violation of `UntaggedIsIndexed` | a failed upload loses keywords of mail that is then untagged |
| `importer_idle_stuck` | `MCImporter`, `ImporterIdleStuck.cfg` | violation of `IncomingIsProcessed` | an idle job that returns early is the last one |
| `background_jobs` | `BackgroundJobs`, `BackgroundJobs.cfg` | pass | one thread per queue, the refinement of `JobQueue`, every job runs |
| `worker_pool` | `WorkerPool`, `WorkerPool.cfg` | pass | one writer, counts drift by the faults at most, calls end |
| `record_store` | `MCRecordStore`, `RecordStore.cfg` | pass | records survive requests, compaction, kill and reopening, but for two named cases; the cache is never stale; keys in memory, keys in the file and records agree |
| `metadata_store` | `MCMetadataStore`, `MetadataStore.cfg` | pass | threads do not depend on the order of arrival, and recover from a kill, but for what hangs from a message whose annotation was replaced; the thread cache is never stale; only messages that answered each other hang the worker |
| `search_engine` | `MCSearchEngine`, `SearchEngine.cfg` | pass | undo and redo restore the postings; touched changes are found by version; what clients tag in a namespace is marked there and stays in it; slots are not shared |
| `cron` | `MCCron`, `Cron.cfg` | pass | no time of a no-skip job is skipped; a job runs twice for a time only if a tick raised at it or the time came twice; what is due is served unless it waits behind a job that has no next date |
| `worker_pool_failure` | `WorkerPool`, `WorkerPoolFailure.cfg` | violation of `FailureIsRaised` | two failed tries give None |

Bounds, and why they are enough:

- `RecordFile`: two records, two values, a file of at most 13 bytes with
  one-byte heads and a padding of one, encodings of 2 or 4 bytes. Both records
  can be set, outgrow their slot, have it reused by the other, be deleted and
  be set again, with kills and openings anywhere; the size is the only bound,
  the number of operations has none.
- `Importer`: four messages that share a keyword, one of them in the old
  queue, one with annotations and one marked missing, batches of one out of
  selections of two, so that a job records two batches and both passes do work;
  one import (of any of the messages), any number of idle jobs, one fault
  (264,434 states). One pair of passes
  before the common one instead of four: the passes differ in what they pick,
  and each kind is there. Rare means one hit, so that the shared keyword is
  common or rare depending on the interleaving.
- `BackgroundJobs`: four jobs, two queues, two callers, two thread identities
  for each queue: enough for a thread that ends while two callers add.
- `WorkerPool`: three callers on one writer and one reader by the count, two
  attempts, two faults: more callers than workers, two that pass the count
  check at once, and both tries of a call failing.

- `RecordStore`: chunks of two records and three records, so that there are
  two chunks and one is not full; one key, two values (interchangeable), three
  requests that change the store, any number of reads, compactions and
  flushes, one kill. Three object identities and one cached value let the cache
  refer to an object that was replaced.
- `MetadataStore`: three messages (interchangeable) with every pattern of
  replies among them: chains, siblings, a message that answers itself, circles
  of two and three; two events, each a kill or an annotation with any message
  or none, so that an annotation can be replaced or removed; any number of
  additions (1,797,425 states).
- `SearchEngine`: two messages, two tags, one namespace, five batches chosen
  so that operations overlap, a tag is exchanged, all are cleared, and a second
  operation is refused; four versions, with units of two and four, so that all
  loops of `Cover` run, untouched additions counted with them; two undo slots,
  so that one is used again; four L1 slots for five keywords, so that they run
  out; one failure or kill (4,640,667 states).
- `Cron`: five minutes; a no-skip job due each minute, a rare one due every
  sixth with a horizon of three, so that it parses and runs but has no next
  time, the loader every second; a clock that is set back by two minutes after
  two; crontabs with the rare job before the other, or a bad line between them;
  a limit of one rerun, so that it is reached; one edit; one kill or job that
  cannot be started (569,878 states).

Deadlock is checked where the system always has something to do
(`RecordFile`, `WorkerPool`). In `BackgroundJobs` the jobs run out, in
`Importer` the idle job may be stuck with nothing else to do, in the others
the bounds on requests, versions or minutes run out; `MetadataStore` may also
hang and `Cron` may be unable to start, as the code may.

Fairness:

- `Importer`: weak fairness of the job's thread, of the keyword loop, and of
  `OnIdle`. Threads are scheduled, and the worker's main loop calls `on_idle`
  whenever no request comes for its timeout. Nothing is assumed about imports
  and faults.
- `BackgroundJobs`: weak fairness for each caller that still has to start the
  threads, and for each thread: a job returns or raises in the end.
- `Cron`: weak fairness of the steps of a tick, of the loader's thread, and of
  the clock: the app's main loop calls `tick` again and again, the thread is
  scheduled, saves and jobs return, and time passes (up to its bound; a row
  that is due is served without it, but for the repeated hour, where a job is
  rescheduled to a time that has passed until the hour is over). Nothing is
  assumed about starts, edits and kills.
- `WorkerPool`: weak fairness of each call's own steps: RPC calls have a
  timeout, and the search for a worker is counted. New calls are not fair.

`IncomingIsProcessedUnlessStuck` has the escape that its name says, because
`IncomingIsProcessed` does not hold (see below), and excepts the messages
marked missing and those that they crowd out of every selection; everything
else that could strand a message, such as a keyword loop that exits while work
arrives, is covered.

## 5. Proofs

Assumptions are the named `ASSUME`s of the modules: kinds of the constants,
positive sizes, model values that differ. Beyond that, `Cron` assumes that a
crontab does not name a job twice (`LinesAssumption`: a job stands for a line,
so that two equal lines are two jobs), and `SearchEngine` that clients
name tags and `in:*`, not the marks of namespaces (`RequestsAssumption`: those
are the worker's own), and that the larger unit of versions is a multiple of
the smaller; `Cron` also that the loader's own line has a time within the
horizon, and that the clock is not set back to before the start of time. No theorem bounds the number of records, messages, tags, jobs,
threads, callers, requests, failures or kills: the `Max` constants are any
natural numbers.

All theorems go the same way: an inductive invariant `IInv`, one lemma for each
part of it and each action, and the property from `IInv`. Where TLC can
evaluate an invariant (some quantify over all naturals or sequences) it is
worth running on the run's instance before a proof is changed; `Steady` and
`Threaded` of `MetadataStoreProofs` were, with three and with four messages.

- `RecordFileProofs`. `IInv` adds to `SlotsApart`: slots lie in the file and
  after the header (`SlotsInFile`); the process's index is the file's while it
  runs; the mapping ends at the end of a slot (`MapAtSlotEnd`), which is why a
  slot that starts in it lies in it; the free list names distinct, unindexed
  slots of the recorded length (`EmptiesOK`); what is known about the set in
  progress (`OpOK`); the marker is 0 or the length unless an append is under
  way or was cut short (`MarkerOK`). From it follow `TypeCorrect`,
  `SlotsStayApart`, `WritesAreMapped`, `RefusalIsJustified` and the action
  properties `OnlyTheTargetChanges` and `SetHasEffect`.
- `ImporterProofs`. `UntaggedIsIndexed` is not inductive: one has to say where
  the keywords of a message are on their way. `NothingLost` says that a message
  in a recorded batch, or read by the job, has each keyword in the table, in
  the hands of the keyword loop, or in the index; `DoneIsIndexed` that the
  batches about to be untagged are in the index; `EarlierScheduled` that during
  the common pass the keywords of batches with an earlier number are scheduled
  or gone; `HandsOK` that the loop's hands are empty outside of a pass.
  `UntaggedMessagesAreIndexed` is the theorem.
- `BackgroundJobsProofs`. `Registered`: a live thread is the registered one;
  `HoldsJob`: a thread has a job exactly when it runs one. `QueuesAreSingletons`
  and `PopNeverFails` follow, and so does `ImplementsJobQueue`: every step is a
  step of `JobQueue` or a stutter. A lemma on the way shows that the test for a
  registered but dead thread never decides anything.
- `WorkerPoolProofs`. The counts drift because a worker that failed is counted
  out at the first try, and again at the second, by the entry that the caller
  still remembers. `DriftOK` therefore charges each such caller (`Pending`) to
  a failure that has not made the count wrong yet; `EntryOK` says when a caller
  remembers a worker. `TheWriterIsUnique` and `CountsDriftByFailures` follow.
- `RecordStoreProofs`. Four groups: types; the files, with what exists in each
  phase of the compaction (`PhaseOK`) and what the copy already has
  (`CopyKept`); the cache (`FreshCache`), which needs that no two chunks have
  the same object (`Distinct`); and the keys, which need that the keys file has
  one entry for a key at most (`Unique`), what a delete has still to forget,
  and that numbers `append` hands out are free (`NextIsFree`). From these:
  `RecordsAreKept`, `MissingChunksAreInOld`, `TheCacheIsFresh`,
  `KeysAreWhatTheFileSays`, `KeysNameOnlyRecords`.
- `CronProofs`. The tick has a row in hand, and one read ahead, that the
  loader may delete and make anew under it: `AheadOK` and `RowOK` say that such
  a row is as it was, or gone with any other row for its job due later than the
  tick (`Others`, `Clear`), and `Distinct` that both are for one job only if the
  first is gone. `RanOK` and `CaughtUp` relate what ran to the next time of a
  row. None of this holds at a job at which a tick raised, nor of the times that
  come twice: `Settled` and `Clear` leave those out, and only those, since
  across the repeated hour `CalculateNext` still grows. `NoTimeIsSkipped` needs
  no such exception: a tick that raised leaves the row as it was.
- `SearchEngineProofs`. `SlotsInUse` and `Keyed` give `SlotsStayExclusive`;
  `Inside`, that the keywords looked up by a request in a namespace are that
  namespace's, gives the action property `Isolation`; `Marks` says of a request
  in progress that a mark comes with every tag that an import did not bring
  (`loose`), which gives `TagsAreMarked`. `Findable` has two halves: `Found`
  says that a message changed by a request that touches has the postings of a
  version no older than the change, or is about to get them, which an untouched
  addition leaves as they are; and the ranges of
  `Cover` reach every version from the client's to the last, shown for each of
  its five loops by following it down from the version in question.
  `UndoRestoresAll` rests on `Faithful`: for each tag and message the first
  recorded change that touches it starts from what was before the batch and the
  last one leaves what is after. That is enough to undo and redo without
  saying anything about the changes between, and each operation of the batch
  keeps it.
- `MetadataStoreProofs`. `Rows` (records and keys are a bijection), `Columns`,
  `Served` and `Filed` (a record's parent is the record of a message that it was
  said to answer) are the base. `OnlyCirclesHang`: a walk that passes as many
  records as there are without coming to a root has met one twice (cardinality),
  so the messages of the records on it answered each other, at the time of one
  annotation or another. `ThreadsStayConsistent` is proved while no message was
  said to answer something else than before (`changed = {}`); what hangs from
  other messages, once there are some, is left to TLC. It needs to say what a
  kill may leave behind. A request that was not completed is `Pending`; with
  two of them, a circle or a change of mind the threads are `Spoiled`, and
  `Steady` says that otherwise the request has the one parent there is for its
  message (`Dest`). `Threaded` says that, while one request is open, the thread of its record is on the way to that of its parent
  (`Half`): its records are in the one or the other by the column, all in the
  other once the record itself is, and stray list entries only name records on
  the way; all other threads are in order. The request in progress does what
  is left (`Heading`). The steps are first shown as facts about three functions
  (the roots, the column and the lists) and then carried over to the store;
  that a function which climbs like `Top` is `Top` (`TopIsUnique`) gives the
  roots after the parent is saved.

Where a proof needs what a recursive function computes (`Cover`, `Walk`, the
flattening of a batch), it states the fact as a set of natural numbers and
takes the least one that is not in it (`LeastOf`, `UpTo`), since the library's
induction theorems take an operator that the provers cannot instantiate.

Only model-checked: the liveness properties `IncomingIsProcessedUnlessStuck`,
`AnnotationsLeaveTheTable`, `JobsAreRun`, `CallsEnd` and `DueIsServed`; the prover
has no fairness reasoning and no `ENABLED`.

## 6. Findings

1. `RecordFile.set` releases the old slot before the append that replaces it
   (`records.py:234`, `:268`). When the append raises, a record that is still
   indexed is on the free list (`record_file_disk_full`).
2. The keyword loop takes keywords out of the table before it uploads them
   (`importer.py:541`). When the upload raises they are gone, and the messages
   are marked as done (`importer_upload_fails`).
3. `on_idle`'s job returns before the `try` that would clear `idle_running`
   (`importer.py:188`): no idle job runs again (`importer_idle_stuck`).
4. `WorkerPool.call` swallows every `OSError`, a refusal (`PermissionError`)
   included, and returns None after two tries (`base.py:1091`), where the
   self-test of the storage pool expects the exception
   (`worker_pool_failure`).

### Observations

What the newer models show of the code beside their properties. Each is a case
that a property excepts by name, or a step that the model has because the code
takes it; none has a run of its own.

Record store:

- A kill between the two renames of `compact()` (`records.py:343`, `:344`)
  leaves a chunk only as `chunk-N.old`, which nothing reads; the next write to
  the chunk starts an empty file, and the next compaction removes the `.old`.
- `api_update_ptrs` (`workers/metadata.py:347`) writes without `change_lock`: a
  record that the compaction has already copied loses the change.
- `__delitem__` compares keys with the index inside the chunk
  (`records.py:577`): from the second chunk on it forgets the keys of another
  record and keeps its own. A kill during it leaves keys without a record.
- `compact()` stops with a KeyError at the first chunk whose file is missing.
- The search worker passes `progress_callback=` to `RecordStore.compact`
  (`workers/search.py:259`), which has no such parameter, and is a generator
  that nobody iterates there: the search index is never compacted.

Importer:

- A message that keeps the mark `missing` (see below) and is imported by force
  stays tagged as incoming for ever, since every job passes it by
  (`importer.py:675`). `BATCH_SIZE_FULL` of them fill the selection of every
  job, and messages with higher numbers are not indexed either.

Metadata:

- A message that arrives after a reply to it keeps the ghost's `missing` mark
  (`metadata.py:334`), with which it is displayed as not received, and is
  reported as updated, not added, so the importer does not index it
  (`importer.py:772`). After a kill in `append()` the message is also only
  reported as updated when it is added again.
- Messages that answer each other hang the worker in `_add_to_thread`, with
  `change_lock` held. A second `=dsn` annotation of a message does not change
  the parent that the first one gave it (`metadata.py:260`), not until the
  message is added again; so a circle may also come from an annotation that is
  no longer there.
- When a message is added again and is filed under another parent than before,
  `_add_to_thread` moves what the message itself lists: the messages below it
  that the root of its former thread lists stay in that thread.
- What a kill cut short is put in order by making the same request again, but
  only if it is the next one. `_add_to_thread` (`metadata.py:224`) writes to
  the root, then to each member of the thread, then the column, and the record
  with its parent is saved last. Say a answers b and the worker is killed when
  b lists a, y then answers a and is listed by a, and b is annotated as an
  answer to t: b moves with what it lists, so a's own list is emptied. When a
  is added again, y is not in any list that moves, and stays in a's thread
  although its root is t. That takes four messages; an attempt to prove
  `ThreadsConsistent` for any later repetition of the request showed it.

Search engine:

- Undo inside a namespace is refused, since the recorded keywords have their
  `@ns` (`engine.py:535`). After `-in:*` in a namespace the recorded keywords
  do not, because `iter_tags` cuts it off (`engine.py:329`), and for the same
  reason `-in:*` clears the tags of that name outside of the namespace.
- The importer's `api_autotag` hands tags that end in `@ns` to a request with
  that namespace (`importer.py:273`), which `_ns()` refuses.
- Undoing an older batch, out of order, can remove the mark of a message in a
  namespace where it still has a tag; it is then not found there.
- A batch that fails half way stays half done, has no undo record, and its
  changes get no version.
- Neither do the keywords that the importer adds with `touch=False`, tags
  included, although `engine.py:8-9` speaks of every mutation of the engine.
- Messages that are imported with tags of a namespace are not marked: the
  importer adds the keyword `@ns` (`importer.py:171`), filters add tags alone,
  and a search in the namespace looks for `in:@ns` (`engine.py:853`).
- The slot of a tag that lost all its messages is never used again; when the
  slots run out, `raise None` is a TypeError.
- A kill between the key and the record of a new tag gives its slot to the next
  one too.

Scheduler:

- A restart, or an edit of the crontab, makes all rows anew, due after now:
  what was overdue is forgotten, for no-skip jobs too, although the comment at
  `cron.py:314` says that an event which was not handled stays scheduled.
- A job whose next time is more than 366 days away (29 February, say) runs on
  its day and cannot be rescheduled (`cron.py:189`, `:318`): its row stays due,
  it runs again in every tick, and every tick ends there, so that the due rows
  made after it are not served until the crontab is loaded again.
- In the second pass of an hour that comes twice `calculate_next` gives times of
  the first pass (`cron.py:181`): what ran then runs again, and a job may stay
  due, tick after tick, until the hour is over.
- A line that does not parse drops the lines after it until the next edit or
  start.
- A kill in `save()` leaves a cut file (`sqlite_zip.py:122`); `load()` then
  raises BadZipFile, which is not an OSError, and the app does not start.
- A one-off action would be stored with `flags` NULL, on which `flags.lower()`
  (`cron.py:306`) raises.

## 7. Not modelled

Planned parts are listed in section 2. Not planned: mailbox formats, message
parsing and composing, keyword extraction, serialisation (data without
control); IMAP, SMTP and OpenPGP (driven by servers and programs outside of the
repository); configuration files and secrets; command line and text user
interface; the `kittens`, which the app does not use yet. `PROJECT.json` lists
every component with its reason, and every hazard without a property with a
note.
