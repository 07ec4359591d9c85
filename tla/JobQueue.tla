------------------------------ MODULE JobQueue ------------------------------
(***************************************************************************)
(* What a worker's background job queues promise: the jobs of a queue run  *)
(* one at a time, each of them once, in the order in which they wait.      *)
(***************************************************************************)
EXTENDS Naturals, Sequences

CONSTANTS Queues, Jobs, NoJob

VARIABLES
    waiting,    \* the jobs of each queue that wait
    running,    \* the job of each queue that runs, or NoJob
    ended       \* the jobs that have run

vars == <<waiting, running, ended>>

Init ==
    /\ waiting = [q \in Queues |-> << >>]
    /\ running = [q \in Queues |-> NoJob]
    /\ ended = {}

\* A job is new: it neither waits nor runs nor has run.
New(j) ==
    /\ j \notin ended
    /\ \A q \in Queues : running[q] # j /\ \A i \in 1 .. Len(waiting[q]) : waiting[q][i] # j

Submit(q, j) ==
    /\ New(j)
    /\ \/ waiting' = [waiting EXCEPT ![q] = Append(@, j)]
       \/ waiting' = [waiting EXCEPT ![q] = <<j>> \o @]
    /\ UNCHANGED <<running, ended>>

Begin(q) ==
    /\ running[q] = NoJob /\ waiting[q] # << >>
    /\ running' = [running EXCEPT ![q] = Head(waiting[q])]
    /\ waiting' = [waiting EXCEPT ![q] = Tail(@)]
    /\ UNCHANGED ended

End(q) ==
    /\ running[q] # NoJob
    /\ ended' = ended \cup {running[q]}
    /\ running' = [running EXCEPT ![q] = NoJob]
    /\ UNCHANGED waiting

Next == \E q \in Queues : Begin(q) \/ End(q) \/ \E j \in Jobs : Submit(q, j)

Spec == Init /\ [][Next]_vars
=============================================================================
