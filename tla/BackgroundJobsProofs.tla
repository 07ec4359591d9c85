------------------------ MODULE BackgroundJobsProofs ------------------------
(***************************************************************************)
(* Proofs that a background job queue is a singleton and implements        *)
(* JobQueue, for any number of queues, jobs, callers and threads.          *)
(***************************************************************************)
EXTENDS BackgroundJobs, TLAPS

\* A live thread is the one that is registered, and a registered one lives.
Registered ==
    /\ \A q \in Queues : \A t \in Threads : pc[q][t] # "dead" => background_threads[q] = t
    /\ \A q \in Queues :
          background_threads[q] # NoThread => pc[q][background_threads[q]] # "dead"

\* A thread holds a job exactly while it runs it.
HoldsJob == \A q \in Queues : \A t \in Threads : (pc[q][t] = "run") <=> (job[q][t] # NoJob)

\* The inductive invariant.
IInv == TypeOK /\ Registered /\ HoldsJob /\ PopFindsJob

\* The initial state satisfies the invariant.
LEMMA InitInv == Init => IInv
  BY ThreadsAssumption DEF Init, IInv, TypeOK, Registered, HoldsJob, PopFindsJob

\* A queue that needs a thread has none: the second test of NeedsThread, for a
\* registered thread that is dead, never decides.
LEMMA NeedsThreadMeansNone ==
    ASSUME IInv, NEW q \in Queues, NeedsThread(q)
    PROVE  background_threads[q] = NoThread /\ \A t \in Threads : pc[q][t] = "dead"
  BY ThreadsAssumption DEF IInv, TypeOK, Registered, NeedsThread

\* Every step keeps the invariant.
LEMMA StepInv == ASSUME IInv, [Next]_vars PROVE IInv'
  <1> USE DEF IInv
  <1>1. ASSUME NEW c \in Callers, NEW q \in Queues, NEW j \in Jobs, AddBackgroundJob(c, q, j)
        PROVE  IInv'
    <2>1. background_jobs' \in [Queues -> Seq(Jobs)]
      <3>1. background_jobs[q] \in Seq(Jobs) /\ <<j>> \in Seq(Jobs)
        BY DEF TypeOK
      <3>2. Append(background_jobs[q], j) \in Seq(Jobs) /\ <<j>> \o background_jobs[q] \in Seq(Jobs)
        BY <3>1
      <3> QED  BY <1>1, <3>2 DEF AddBackgroundJob, TypeOK
    <2>2. TypeOK'
      BY <1>1, <2>1 DEF AddBackgroundJob, TypeOK
    <2>3. \A r \in Queues : background_jobs[r] # << >> => background_jobs'[r] # << >>
      BY <1>1 DEF AddBackgroundJob, TypeOK
    <2>4. Registered' /\ HoldsJob' /\ PopFindsJob'
      BY <1>1, <2>3 DEF AddBackgroundJob, Registered, HoldsJob, PopFindsJob
    <2> QED  BY <2>2, <2>4
  <1>2. ASSUME NEW c \in Callers, StartBackgroundWorkers(c) PROVE IInv'
    <2>1. PICK new \in [Queues -> Threads] :
            /\ \A q \in Queues : NeedsThread(q) => pc[q][new[q]] = "dead"
            /\ background_threads' = [q \in Queues |->
                  IF NeedsThread(q) THEN new[q] ELSE background_threads[q]]
            /\ pc' = [q \in Queues |->
                  IF NeedsThread(q) THEN [pc[q] EXCEPT ![new[q]] = "pop"] ELSE pc[q]]
      BY <1>2 DEF StartBackgroundWorkers
    <2>2. UNCHANGED <<background_jobs, job, ended>> /\ callers' \in [Callers -> {"idle", "start"}]
      BY <1>2 DEF StartBackgroundWorkers, TypeOK
    <2>3. TypeOK'
      BY <2>1, <2>2 DEF TypeOK
    <2>4. ASSUME NEW q \in Queues
          PROVE  /\ \A t \in Threads : pc'[q][t] # "dead" => background_threads'[q] = t
                 /\ background_threads'[q] # NoThread => pc'[q][background_threads'[q]] # "dead"
                 /\ \A t \in Threads : (pc'[q][t] = "run") <=> (job'[q][t] # NoJob)
                 /\ \A t \in Threads : pc'[q][t] = "pop" => background_jobs'[q] # << >>
      <3>1. CASE NeedsThread(q)
        <4>1. background_threads'[q] = new[q] /\ pc'[q] = [pc[q] EXCEPT ![new[q]] = "pop"]
              /\ background_jobs[q] # << >>
          BY <2>1, <3>1 DEF NeedsThread
        <4>2. \A t \in Threads : pc'[q][t] = IF t = new[q] THEN "pop" ELSE "dead"
          BY <3>1, <4>1, NeedsThreadMeansNone DEF TypeOK
        <4> QED  BY <2>2, <3>1, <4>1, <4>2, NeedsThreadMeansNone DEF HoldsJob
      <3>2. CASE ~NeedsThread(q)
        <4>1. background_threads'[q] = background_threads[q] /\ pc'[q] = pc[q]
          BY <2>1, <3>2
        <4> QED  BY <2>2, <4>1 DEF Registered, HoldsJob, PopFindsJob
      <3> QED  BY <3>1, <3>2
    <2> QED  BY <2>3, <2>4 DEF Registered, HoldsJob, PopFindsJob
  <1>3. ASSUME NEW q \in Queues, NEW t \in Threads, PopJob(q, t) PROVE IInv'
    <2>1. background_jobs[q] # << >> /\ pc[q][t] = "pop"
      BY <1>3 DEF PopJob, PopFindsJob
    <2>2. Head(background_jobs[q]) \in Jobs /\ Tail(background_jobs[q]) \in Seq(Jobs)
      BY <2>1 DEF TypeOK
    <2>3. /\ background_jobs' = [background_jobs EXCEPT ![q] = Tail(background_jobs[q])]
          /\ job' = [job EXCEPT ![q][t] = Head(background_jobs[q])]
          /\ pc' = [pc EXCEPT ![q][t] = "run"]
          /\ UNCHANGED <<background_threads, callers, ended>>
      BY <1>3, <2>1 DEF PopJob
    <2>4. TypeOK'
      BY <2>2, <2>3 DEF TypeOK
    <2>5. Registered' /\ HoldsJob'
      BY <2>1, <2>2, <2>3, JobsAssumption DEF TypeOK, Registered, HoldsJob
    <2>6. PopFindsJob'
      BY <2>1, <2>3 DEF TypeOK, Registered, PopFindsJob
    <2> QED  BY <2>4, <2>5, <2>6
  <1>4. ASSUME NEW q \in Queues, NEW t \in Threads, RunJob(q, t) PROVE IInv'
    <2>1. TypeOK'
      BY <1>4 DEF RunJob, TypeOK, HoldsJob
    <2>2. Registered' /\ HoldsJob' /\ PopFindsJob'
      BY <1>4 DEF RunJob, TypeOK, Registered, HoldsJob, PopFindsJob
    <2> QED  BY <2>1, <2>2
  <1>5. ASSUME NEW q \in Queues, NEW t \in Threads, CheckQueue(q, t) PROVE IInv'
    <2>1. CASE background_jobs[q] = << >>
      <3>1. /\ background_threads' = [background_threads EXCEPT ![q] = NoThread]
            /\ pc' = [pc EXCEPT ![q][t] = "dead"] /\ pc[q][t] = "check"
            /\ UNCHANGED <<background_jobs, job, callers, ended>>
        BY <1>5, <2>1 DEF CheckQueue
      <3>2. TypeOK'
        BY <3>1 DEF TypeOK
      <3>3. Registered' /\ HoldsJob' /\ PopFindsJob'
        BY <3>1, ThreadsAssumption DEF TypeOK, Registered, HoldsJob, PopFindsJob
      <3> QED  BY <3>2, <3>3
    <2>2. CASE background_jobs[q] # << >>
      <3>1. /\ pc' = [pc EXCEPT ![q][t] = "pop"] /\ pc[q][t] = "check"
            /\ UNCHANGED <<background_threads, background_jobs, job, callers, ended>>
        BY <1>5, <2>2 DEF CheckQueue
      <3>2. TypeOK'
        BY <3>1 DEF TypeOK
      <3>3. Registered' /\ HoldsJob' /\ PopFindsJob'
        BY <2>2, <3>1, ThreadsAssumption DEF TypeOK, Registered, HoldsJob, PopFindsJob
      <3> QED  BY <3>2, <3>3
    <2> QED  BY <2>1, <2>2
  <1>6. CASE UNCHANGED vars
    BY <1>6 DEF vars, TypeOK, Registered, HoldsJob, PopFindsJob
  <1> QED
    BY <1>1, <1>2, <1>3, <1>4, <1>5, <1>6 DEF Next, BackgroundWorker

\* The invariant holds in every reachable state.
THEOREM Invariance == Spec => []IInv
  BY InitInv, StepInv, PTL DEF Spec

\* The queues, the registry and the threads have their types in every
\* reachable state.
THEOREM TypeCorrect == Spec => []TypeOK
  BY Invariance, PTL DEF IInv

\* A queue never has two live threads.
THEOREM QueuesAreSingletons == Spec => []Singleton
  <1>1. IInv => Singleton
    BY DEF IInv, Registered, Singleton
  <1> QED  BY Invariance, <1>1, PTL

\* The pop in _background_worker never meets an empty queue.
THEOREM PopNeverFails == Spec => []PopFindsJob
  BY Invariance, PTL DEF IInv
-----------------------------------------------------------------------------
Running(q) ==
    IF background_threads[q] = NoThread THEN NoJob ELSE job[q][background_threads[q]]

\* The initial states are initial states of JobQueue.
LEMMA InitRefines == Init => Q!Init
  BY DEF Init, Q!Init

\* Every step is a step of JobQueue or changes nothing that it sees.
LEMMA StepRefines == ASSUME IInv, IInv', [Next]_vars PROVE [Q!Next]_Q!vars
  <1> DEFINE run == [q \in Queues |->
        IF background_threads[q] = NoThread THEN NoJob ELSE job[q][background_threads[q]]]
  <1>1. ASSUME NEW c \in Callers, NEW q \in Queues, NEW j \in Jobs, AddBackgroundJob(c, q, j)
        PROVE  Q!Submit(q, j)
    <2>1. Q!New(j)
      BY <1>1, JobsAssumption DEF AddBackgroundJob, New, Q!New, IInv, TypeOK
    <2> QED  BY <1>1, <2>1 DEF AddBackgroundJob, Q!Submit
  <1>2. ASSUME NEW c \in Callers, StartBackgroundWorkers(c) PROVE UNCHANGED Q!vars
    <2>1. ASSUME NEW q \in Queues PROVE Running(q)' = Running(q)
      <3>1. CASE NeedsThread(q)
        <4>1. background_threads[q] = NoThread
          BY <3>1, NeedsThreadMeansNone
        <4>2. \A t \in Threads : job[q][t] = NoJob
          BY <3>1, NeedsThreadMeansNone DEF IInv, HoldsJob
        <4> QED  BY <1>2, <4>1, <4>2 DEF StartBackgroundWorkers, Running, IInv, TypeOK
      <3>2. CASE ~NeedsThread(q)
        BY <1>2, <3>2 DEF StartBackgroundWorkers, Running
      <3> QED  BY <3>1, <3>2
    <2> QED  BY <1>2, <2>1 DEF StartBackgroundWorkers, Q!vars, Running
  <1>3. ASSUME NEW q \in Queues, NEW t \in Threads, PopJob(q, t) PROVE Q!Begin(q)
    <2>1. background_jobs[q] # << >> /\ background_threads[q] = t /\ t # NoThread
      BY <1>3, ThreadsAssumption DEF PopJob, IInv, PopFindsJob, Registered
    <2>2. run[q] = NoJob
      BY <1>3, <2>1 DEF PopJob, IInv, HoldsJob
    <2>3. job' = [job EXCEPT ![q][t] = Head(background_jobs[q])]
          /\ background_jobs' = [background_jobs EXCEPT ![q] = Tail(@)]
          /\ UNCHANGED <<background_threads, ended>>
      BY <1>3, <2>1 DEF PopJob
    <2>4. run' = [run EXCEPT ![q] = Head(background_jobs[q])]
      BY <2>1, <2>3 DEF IInv, TypeOK
    <2> QED  BY <2>1, <2>2, <2>3, <2>4 DEF Q!Begin
  <1>4. ASSUME NEW q \in Queues, NEW t \in Threads, RunJob(q, t) PROVE Q!End(q)
    <2>1. background_threads[q] = t /\ t # NoThread
      BY <1>4, ThreadsAssumption DEF RunJob, IInv, Registered
    <2>2. run[q] = job[q][t] /\ job[q][t] # NoJob
      BY <1>4, <2>1 DEF RunJob, IInv, HoldsJob
    <2>3. run' = [run EXCEPT ![q] = NoJob]
      BY <1>4, <2>1 DEF RunJob, IInv, TypeOK
    <2> QED  BY <1>4, <2>2, <2>3 DEF RunJob, Q!End
  <1>5. ASSUME NEW q \in Queues, NEW t \in Threads, CheckQueue(q, t) PROVE UNCHANGED Q!vars
    <2>1. background_threads[q] = t /\ t # NoThread /\ job[q][t] = NoJob
      BY <1>5, ThreadsAssumption DEF CheckQueue, IInv, Registered, HoldsJob
    <2>2. run' = run
      BY <1>5, <2>1 DEF CheckQueue, IInv, TypeOK
    <2> QED  BY <1>5, <2>2 DEF CheckQueue, Q!vars
  <1>6. CASE UNCHANGED vars
    BY <1>6 DEF vars, Q!vars
  <1> QED
    BY <1>1, <1>2, <1>3, <1>4, <1>5, <1>6 DEF Next, BackgroundWorker, Q!Next

\* The code implements JobQueue: the jobs of a queue run one at a time, in
\* order, each once.
THEOREM ImplementsJobQueue == Spec => IsJobQueue
  BY InitRefines, StepRefines, Invariance, PTL DEF Spec, IsJobQueue, Q!Spec
=============================================================================
