CONSTANTS
    Queues = {full, default}
    Jobs = {j1, j2, j3, j4}
    NoJob = nojob
    Callers = {c1, c2}
    Threads = {t1, t2}
    NoThread = nothread
SPECIFICATION FairSpec
INVARIANTS
    TypeOK
    Singleton
    PopFindsJob
PROPERTIES
    IsJobQueue
    JobsAreRun
CHECK_DEADLOCK FALSE
