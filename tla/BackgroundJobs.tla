--------------------------- MODULE BackgroundJobs ---------------------------
(***************************************************************************)
(* moggie/workers/base.py: the background jobs of a worker.  Any thread of *)
(* the process (an RPC handler, on_idle, a job) adds a job to a queue, and *)
(* makes sure that a thread serves it.  Such a thread ends when it finds   *)
(* its queue empty.                                                        *)
(*                                                                         *)
(* A step is what happens in one hold of _background_job_lock, or the run  *)
(* of a job.                                                               *)
(***************************************************************************)
EXTENDS Sequences, Naturals

CONSTANTS
    Queues,         \* the names that callers give for which
    Jobs, NoJob,
    Callers,        \* the threads that add jobs
    Threads,        \* for each queue, the threads that may serve it
    NoThread

ASSUME JobsAssumption == NoJob \notin Jobs
ASSUME ThreadsAssumption == NoThread \notin Threads

VARIABLES
    background_jobs,       \* the jobs of each queue
    background_threads,    \* the registered thread of each queue, or NoThread
    pc, job,                \* of each thread of each queue
    callers,                \* what each caller is doing
    ended                   \* the jobs that were run

vars == <<background_jobs, background_threads, pc, job, callers, ended>>

Init ==
    /\ background_jobs = [q \in Queues |-> << >>]
    /\ background_threads = [q \in Queues |-> NoThread]
    /\ pc = [q \in Queues |-> [t \in Threads |-> "dead"]]
    /\ job = [q \in Queues |-> [t \in Threads |-> NoJob]]
    /\ callers = [c \in Callers |-> "idle"]
    /\ ended = {}
-----------------------------------------------------------------------------
\* A caller adds a job once.
New(j) ==
    /\ j \notin ended
    /\ \A q \in Queues :
          /\ \A t \in Threads : job[q][t] # j
          /\ \A i \in 1 .. Len(background_jobs[q]) : background_jobs[q][i] # j

\* add_background_job, until it releases the lock.
AddBackgroundJob(c, q, j) ==
    /\ callers[c] = "idle" /\ New(j)
    /\ \/ background_jobs' = [background_jobs EXCEPT ![q] = Append(@, j)]
       \/ background_jobs' = [background_jobs EXCEPT ![q] = <<j>> \o @]   \* first
    /\ callers' = [callers EXCEPT ![c] = "start"]
    /\ UNCHANGED <<background_threads, pc, job, ended>>

NeedsThread_NotRegistered(q) == background_jobs[q] # << >>

NeedsThread_Idle(q) ==
    \/ background_threads[q] = NoThread
    \/ pc[q][background_threads[q]] = "dead"

\* A queue that has jobs and no live thread.
NeedsThread(q) ==
    /\ background_jobs[q] # << >>
    /\ \/ background_threads[q] = NoThread
       \/ pc[q][background_threads[q]] = "dead"

\* _start_background_workers: a new thread for every queue that needs one.
StartBackgroundWorkers(c) ==
    /\ callers[c] = "start"
    /\ callers' = [callers EXCEPT ![c] = "idle"]
    /\ \E new \in [Queues -> Threads] :
          /\ \A q \in Queues : NeedsThread(q) => pc[q][new[q]] = "dead"
          /\ background_threads' = [q \in Queues |->
                IF NeedsThread(q) THEN new[q] ELSE background_threads[q]]
          /\ pc' = [q \in Queues |->
                IF NeedsThread(q) THEN [pc[q] EXCEPT ![new[q]] = "pop"] ELSE pc[q]]
    /\ UNCHANGED <<background_jobs, job, ended>>

(* _background_worker. *)

PopJob_Last(q, t) ==
    /\ pc[q][t] = "pop" /\ background_jobs[q] # << >>
    /\ LET n == Len(background_jobs[q]) IN
          /\ background_jobs' = [background_jobs EXCEPT ![q] = SubSeq(@, 1, n - 1)]
          /\ job' = [job EXCEPT ![q][t] = background_jobs[q][n]]
    /\ pc' = [pc EXCEPT ![q][t] = "run"]
    /\ UNCHANGED <<background_threads, callers, ended>>

\* Were the queue empty, pop would raise, and the thread would go on.
PopJob(q, t) ==
    /\ pc[q][t] = "pop"
    /\ IF background_jobs[q] = << >>
       THEN /\ pc' = [pc EXCEPT ![q][t] = "check"]
            /\ UNCHANGED <<background_jobs, job>>
       ELSE /\ background_jobs' = [background_jobs EXCEPT ![q] = Tail(@)]
            /\ job' = [job EXCEPT ![q][t] = Head(background_jobs[q])]
            /\ pc' = [pc EXCEPT ![q][t] = "run"]
    /\ UNCHANGED <<background_threads, callers, ended>>

\* The job returns, or raises an exception that is logged.
RunJob(q, t) ==
    /\ pc[q][t] = "run"
    /\ ended' = ended \cup {job[q][t]}
    /\ job' = [job EXCEPT ![q][t] = NoJob]
    /\ pc' = [pc EXCEPT ![q][t] = "check"]
    /\ UNCHANGED <<background_jobs, background_threads, callers>>

CheckQueue_NoPop(q, t) ==
    /\ pc[q][t] = "check" /\ background_jobs[q] # << >>
    /\ pc' = [pc EXCEPT ![q][t] = "run"]
    /\ UNCHANGED <<background_jobs, background_threads, job, callers, ended>>

CheckQueue_Exit(q, t) ==
    /\ pc[q][t] = "check"
    /\ background_threads' = [background_threads EXCEPT ![q] = NoThread]
    /\ pc' = [pc EXCEPT ![q][t] = "dead"]
    /\ UNCHANGED <<background_jobs, job, callers, ended>>

CheckQueue(q, t) ==
    /\ pc[q][t] = "check"
    /\ IF background_jobs[q] = << >>
       THEN /\ background_threads' = [background_threads EXCEPT ![q] = NoThread]
            /\ pc' = [pc EXCEPT ![q][t] = "dead"]
       ELSE /\ pc' = [pc EXCEPT ![q][t] = "pop"]
            /\ UNCHANGED background_threads
    /\ UNCHANGED <<background_jobs, job, callers, ended>>

BackgroundWorker(q, t) == PopJob(q, t) \/ RunJob(q, t) \/ CheckQueue(q, t)
-----------------------------------------------------------------------------
Next ==
    \/ \E c \in Callers : StartBackgroundWorkers(c)
    \/ \E c \in Callers, q \in Queues, j \in Jobs : AddBackgroundJob(c, q, j)
    \/ \E q \in Queues, t \in Threads : BackgroundWorker(q, t)

Spec == Init /\ [][Next]_vars

\* Threads get to run, and a job returns or raises in the end.
Fairness ==
    /\ \A c \in Callers : WF_vars(StartBackgroundWorkers(c))
    /\ \A q \in Queues, t \in Threads : WF_vars(BackgroundWorker(q, t))

FairSpec == Spec /\ Fairness
-----------------------------------------------------------------------------
\* The variables have their types.
TypeOK ==
    /\ background_jobs \in [Queues -> Seq(Jobs)]
    /\ background_threads \in [Queues -> Threads \cup {NoThread}]
    /\ pc \in [Queues -> [Threads -> {"dead", "pop", "run", "check"}]]
    /\ job \in [Queues -> [Threads -> Jobs \cup {NoJob}]]
    /\ callers \in [Callers -> {"idle", "start"}]
    /\ ended \in SUBSET Jobs

\* "the singleton background job queue": a queue never has two live threads,
\* whoever adds jobs and whenever a thread decides to end.  (The importer
\* shares progress, keywords and batches between jobs on the strength of it.)
Singleton ==
    \A q \in Queues : \A s, t \in Threads :
        pc[q][s] # "dead" /\ pc[q][t] # "dead" => s = t

\* A thread that is about to pop finds a job: no IndexError passes for a job
\* that failed.
PopFindsJob ==
    \A q \in Queues : \A t \in Threads :
        pc[q][t] = "pop" => background_jobs[q] # << >>

Q == INSTANCE JobQueue WITH
    waiting <- background_jobs,
    running <- [q \in Queues |->
        IF background_threads[q] = NoThread THEN NoJob ELSE job[q][background_threads[q]]]

\* The queues keep their promise: one job at a time, in order, each once.
IsJobQueue == Q!Spec

\* A job that was added is run, though the thread that serves the queue may be
\* about to end.
JobsAreRun ==
    \A q \in Queues, j \in Jobs :
        (\E i \in 1 .. Len(background_jobs[q]) : background_jobs[q][i] = j) ~> j \in ended
=============================================================================
