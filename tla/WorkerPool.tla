----------------------------- MODULE WorkerPool -----------------------------
(***************************************************************************)
(* moggie/workers/base.py, WorkerPool, as workers/storage.py uses it: the  *)
(* app's threads share a pool of storage workers.  A call takes a worker   *)
(* that can serve it out of the pool, or adds one, and puts it back        *)
(* afterwards; a worker whose call fails is dropped.                       *)
(*                                                                         *)
(* One worker reads and writes, the others only read.  Workers of a kind   *)
(* are alike, so the pool is a sequence of kinds.                          *)
(***************************************************************************)
EXTENDS Integers, FiniteSets, SequencesExt

CONSTANTS
    Callers,        \* threads that call the pool
    MaxWorkers,     \* MAX_WORKERS
    Attempts,       \* to find a worker: 50
    MaxFaults       \* bound on the connections, calls and processes that fail

ASSUME PoolAssumption == IsFiniteSet(Callers) /\ MaxWorkers \in Nat /\ Attempts \in Nat \ {0}

VARIABLES
    workers,        \* the kinds of the workers in the pool
    counts,         \* the workers that the pool thinks there are, by kind
    pc, need,       \* of each caller: what it does, the capability it needs
    tries, attempts,    \* how often it has tried, and sought a worker
    entry,          \* the worker that each caller took last, or "none"
    result,         \* what each caller got last: an answer or exception, or "nothing"
    faults

vars == <<workers, counts, pc, need, tries, attempts, entry, result, faults>>

\* The capabilities, as a string: "read,write" and "read".
Kinds == {"read_write", "read"}
Serves(kind, cap) == cap = "read" \/ kind = "read_write"

Init ==
    /\ workers = <<"read_write">>
    /\ counts = [k \in Kinds |-> IF k = "read_write" THEN 1 ELSE 0]
    /\ pc = [c \in Callers |-> "idle"] /\ need = [c \in Callers |-> "read"]
    /\ tries = [c \in Callers |-> 1] /\ attempts = [c \in Callers |-> 1]
    /\ entry = [c \in Callers |-> "none"] /\ result = [c \in Callers |-> "some"]
    /\ faults = 0

Fault == faults < MaxFaults /\ faults' = faults + 1
-----------------------------------------------------------------------------
\* call: get and list read; set, append and delete write.
Call(c, cap) ==
    /\ pc[c] = "idle"
    /\ pc' = [pc EXCEPT ![c] = "choose"]
    /\ need' = [need EXCEPT ![c] = cap]
    /\ result' = [result EXCEPT ![c] = "some"]
    /\ UNCHANGED <<workers, counts, tries, attempts, entry, faults>>

\* The caller has its answer; its local variables are gone.
Return(c, what) ==
    /\ pc' = [pc EXCEPT ![c] = "idle"]
    /\ need' = [need EXCEPT ![c] = "read"]
    /\ tries' = [tries EXCEPT ![c] = 1]
    /\ attempts' = [attempts EXCEPT ![c] = 1]
    /\ entry' = [entry EXCEPT ![c] = "none"]
    /\ result' = [result EXCEPT ![c] = what]

Suitable(c) == {i \in 1 .. Len(workers) : Serves(workers[i], need[c])}

PopWorker_Kept(c) ==
    /\ pc[c] = "choose"
    /\ \E i \in Suitable(c) : entry' = [entry EXCEPT ![c] = workers[i]]
    /\ pc' = [pc EXCEPT ![c] = "rpc"]
    /\ UNCHANGED <<workers, counts, need, tries, attempts, result, faults>>

\* with_worker_gen, under the lock: pop the first worker that can serve, or a
\* later one when those before it cannot be reached or relaunched.
PopWorker(c) ==
    /\ pc[c] = "choose"
    /\ \E i \in Suitable(c) :
          /\ IF \A j \in Suitable(c) : i <= j THEN UNCHANGED faults ELSE Fault
          /\ entry' = [entry EXCEPT ![c] = workers[i]]
          /\ workers' = RemoveAt(workers, i)
    /\ pc' = [pc EXCEPT ![c] = "rpc"]
    /\ UNCHANGED <<counts, need, tries, attempts, result>>

\* The count that is compared with the maximum is the one of the capability
\* asked for: nothing is ever counted as plain "write".
Count(cap) == IF cap = "read" THEN counts["read"] ELSE 0

\* Nobody can serve, or the ones that can cannot be reached or relaunched.
NoWorker(c) ==
    /\ pc[c] = "choose"
    /\ \/ Suitable(c) = {} /\ UNCHANGED faults
       \/ Suitable(c) # {} /\ Fault
    /\ pc' = [pc EXCEPT ![c] = "count"]
    /\ UNCHANGED <<workers, counts, need, tries, attempts, entry, result>>

\* The lock was released before the count is looked at.  auto_add_worker
\* never adds a writer.
MayAdd(c) == Count(need[c]) < MaxWorkers /\ need[c] = "read"

DecideToAdd(c) ==
    /\ pc[c] = "count" /\ MayAdd(c)
    /\ pc' = [pc EXCEPT ![c] = "add"]
    /\ UNCHANGED <<workers, counts, need, tries, attempts, entry, result, faults>>

AutoAddWorker_NotCounted(c) ==
    /\ pc[c] = "add"
    /\ entry' = [entry EXCEPT ![c] = "read"]
    /\ pc' = [pc EXCEPT ![c] = "rpc"]
    /\ UNCHANGED <<workers, counts, need, tries, attempts, result, faults>>

\* auto_add_worker, under the lock: the new worker goes to its caller at once.
AutoAddWorker(c) ==
    /\ pc[c] = "add"
    /\ counts' = [counts EXCEPT !["read"] = @ + 1]
    /\ entry' = [entry EXCEPT ![c] = "read"]
    /\ pc' = [pc EXCEPT ![c] = "rpc"]
    /\ UNCHANGED <<workers, need, tries, attempts, result, faults>>

\* The new worker cannot be launched: it is dropped, but stays counted.
LaunchFails(c) ==
    /\ pc[c] = "add"
    /\ Fault
    /\ counts' = [counts EXCEPT !["read"] = @ + 1]
    /\ pc' = [pc EXCEPT ![c] = "wait"]
    /\ UNCHANGED <<workers, need, tries, attempts, entry, result>>

TryAgain_Forever(c) ==
    /\ tries' = [tries EXCEPT ![c] = @ + 1]
    /\ attempts' = [attempts EXCEPT ![c] = 1]
    /\ pc' = [pc EXCEPT ![c] = "choose"]
    /\ UNCHANGED <<need, entry, result>>

\* A try has failed with a socket.error, which in Python 3 is any OSError: the
\* worker is forgotten, and after the second try so is the error.
TryAgain(c) ==
    \/ tries[c] = 1
       /\ tries' = [tries EXCEPT ![c] = 2]
       /\ attempts' = [attempts EXCEPT ![c] = 1]
       /\ pc' = [pc EXCEPT ![c] = "choose"]
       /\ UNCHANGED <<need, entry, result>>
    \/ tries[c] = 2
       /\ Return(c, "nothing")

\* The attempt to find a worker has failed; there are a limited number.
Failed(c) == pc[c] = "wait" \/ (pc[c] = "count" /\ ~MayAdd(c))

BusyWait_Endless(c) ==
    /\ Failed(c)
    /\ pc' = [pc EXCEPT ![c] = "choose"]
    /\ UNCHANGED <<workers, counts, need, tries, attempts, entry, result, faults>>

BusyWait(c) ==
    /\ Failed(c) /\ attempts[c] < Attempts
    /\ attempts' = [attempts EXCEPT ![c] = @ + 1]
    /\ pc' = [pc EXCEPT ![c] = "choose"]
    /\ UNCHANGED <<workers, counts, need, tries, entry, result, faults>>

\* housekeeping: a worker in the pool whose process has ended is let go, one
\* of them at a time.
Housekeeping(gone) ==
    /\ workers' = IF gone = 0 THEN workers ELSE RemoveAt(workers, gone)
    /\ IF gone = 0 THEN UNCHANGED faults ELSE Fault

\* choose_worker raises an OSError.  In the first try there is no entry to
\* drop: an AttributeError leaves the call.  In the second the entry of the
\* first is dropped, and counted out, again.
GiveUp(c) ==
    /\ Failed(c) /\ attempts[c] = Attempts
    /\ \E gone \in 0 .. Len(workers) :
          /\ Housekeeping(gone)
          /\ counts' = [k \in Kinds |->
                counts[k] - (IF gone > 0 /\ workers[gone] = k THEN 1 ELSE 0)
                          - (IF entry[c] = k THEN 1 ELSE 0)]
    /\ IF entry[c] = "none" THEN Return(c, "some") ELSE TryAgain(c)

\* The worker answers, perhaps with an exception that is no OSError.
Answer(c) ==
    /\ pc[c] = "rpc"
    /\ workers' = Append(workers, entry[c])
    /\ Return(c, "some")
    /\ UNCHANGED <<counts, faults>>

\* The connection fails or times out, before or after the call was carried
\* out; or the worker refuses it (PermissionError).
CallFails(c) ==
    /\ pc[c] = "rpc"
    /\ Fault
    /\ counts' = [counts EXCEPT ![entry[c]] = @ - 1]
    /\ TryAgain(c)
    /\ UNCHANGED workers
-----------------------------------------------------------------------------
Step(c) ==
    \/ PopWorker(c) \/ NoWorker(c) \/ DecideToAdd(c) \/ BusyWait(c) \/ GiveUp(c)
    \/ AutoAddWorker(c) \/ Answer(c)

Next ==
    \E c \in Callers :
        \/ Step(c)
        \/ \E cap \in {"read", "write"} : Call(c, cap)
        \/ LaunchFails(c) \/ CallFails(c)

Spec == Init /\ [][Next]_vars

\* A caller's thread runs, a worker answers in the end, and the attempts to
\* choose a worker are counted.
Fairness == \A c \in Callers : WF_vars(Step(c))

FairSpec == Spec /\ Fairness
-----------------------------------------------------------------------------
\* The variables have their types.
TypeOK ==
    /\ workers \in Seq(Kinds) /\ counts \in [Kinds -> Int]
    /\ pc \in [Callers -> {"idle", "choose", "count", "add", "wait", "rpc"}]
    /\ need \in [Callers -> {"read", "write"}] /\ tries \in [Callers -> {1, 2}]
    /\ attempts \in [Callers -> 1 .. Attempts]
    /\ entry \in [Callers -> Kinds \cup {"none"}]
    /\ \A c \in Callers : pc[c] = "rpc" => entry[c] # "none"
    /\ result \in [Callers -> {"some", "nothing"}]
    /\ faults \in Nat

Pooled(k) == {i \in 1 .. Len(workers) : workers[i] = k}
InUse(k) == {c \in Callers : pc[c] = "rpc" /\ entry[c] = k}
Existing(k) == Cardinality(Pooled(k)) + Cardinality(InUse(k))

\* "There can be only one!": calls never share the writer, and it goes missing
\* only when a call on it fails or its process ends.
OneWriter == Existing("read_write") = 1 \/ (Existing("read_write") = 0 /\ faults > 0)

\* A failure makes the pool's count wrong by one worker at most: a worker that
\* could not be launched stays counted (too many of those, and the pool adds no
\* more), and an entry may be counted out twice.
CountDrift == \A k \in Kinds : counts[k] - Existing(k) \in (0 - faults) .. faults

\* Nobody waits for a worker for ever.
CallsEnd == \A c \in Callers : pc[c] # "idle" ~> pc[c] = "idle"

\* "assert(not 'reached')": a call that got no answer from a worker raises an
\* exception.
FailureIsRaised == \A c \in Callers : result[c] # "nothing"
=============================================================================
