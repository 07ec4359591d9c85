--------------------------- MODULE ImporterProofs ---------------------------
(***************************************************************************)
(* Proof that the importer takes the incoming tag off a message only when  *)
(* all of its keywords are in the search index, for any messages, keywords *)
(* and sizes, any number of imports, failures and restarts.                *)
(*                                                                         *)
(* The argument: a keyword of a message that was read is never out of      *)
(* sight; it is in the table, in the keyword loop's hands or in the index. *)
(* The common pass takes every keyword that is in the table when it        *)
(* starts, and a batch with a lower number was recorded before that.  So   *)
(* when the pass ends, such a batch has nothing left in the table.         *)
(***************************************************************************)
EXTENDS Importer, TLAPS

\* Where the hits of a keyword can be.
Carried(m) == \A w \in WordsOf[m] : m \in indexed[w] \/ m \in keywords[w] \/ m \in kpairs[w]
IsIndexed(m) == \A w \in WordsOf[m] : m \in indexed[w]

\* What the common pass still has to do for a message of an earlier batch.
Scheduled(m) == \A w \in WordsOf[m] :
    m \in indexed[w] \/ m \in kpairs[w] \/ (w \in ktodo /\ m \in keywords[w])

Passing == kpc \in {"pop", "upload"}
CommonPass == kpass = Passes /\ kpc \in {"pop", "upload", "end"}

\* Every message that was read is carried.
NothingLost ==
    /\ \A m \in radded : Carried(m)
    /\ \A b \in keyword_batches : \A m \in b.idxs : Carried(m)

\* The batches that are being untagged are in the index.
DoneIsIndexed == \A b \in kdone : \A m \in b.idxs : IsIndexed(m)

\* The batches recorded before the common pass are scheduled in it.
EarlierScheduled ==
    CommonPass => \A b \in keyword_batches :
        b.no < keyword_batch_no => \A m \in b.idxs : Scheduled(m)

\* The keyword loop's hands are empty between passes; in a pass they hold no
\* keyword that is still to be taken.
HandsOK ==
    /\ ~Passing => kpairs = NoHits
    /\ kpc = "pop" /\ ktodo = {} => kpairs = NoHits
    /\ kpc \in {"pop", "upload"} => ktodo \subseteq Words /\ \A w \in ktodo : kpairs[w] = {}
    /\ kpc = "end" => ktodo = {} /\ kpass = Passes
    /\ kpc = "annotate" => ktodo \subseteq Msgs

\* The inductive invariant.
IInv ==
    /\ TypeOK
    /\ NothingLost
    /\ DoneIsIndexed
    /\ EarlierScheduled
    /\ HandsOK
    /\ UntaggedIsIndexed
-----------------------------------------------------------------------------
\* The number of passes in an iteration of the keyword loop is positive.
LEMMA PassesPositive == Passes \in Nat /\ Passes >= 1
  BY SizesAssumption DEF Passes

\* The jobs that the importer makes are jobs.
LEMMA NoJobIsJob == NoJob \in Job
  BY Zenon DEF NoJob, Job

LEMMA ImportJobIsJob == ASSUME NEW S \in SUBSET Msgs PROVE [idle |-> FALSE, idxs |-> S] \in Job
  BY Zenon DEF Job

\* The initial state satisfies the invariant.
LEMMA InitInv == Init => IInv
  <1> SUFFICES ASSUME Init PROVE IInv  OBVIOUS
  <1> USE DEF Init
  <1>a. idle_running \in BOOLEAN /\ progress \in BOOLEAN /\ rold \in BOOLEAN /\ rjob \in Job
    BY NoJobIsJob, Zenon
  <1>1. TypeOK
    BY <1>a, PassesPositive DEF TypeOK, NoHits
  <1>2. NothingLost /\ DoneIsIndexed /\ EarlierScheduled /\ HandsOK /\ UntaggedIsIndexed
    BY DEF NothingLost, DoneIsIndexed, EarlierScheduled, CommonPass, HandsOK, Passing,
           UntaggedIsIndexed
  <1> QED  BY <1>1, <1>2 DEF IInv

\* The end of a job and the step to its second pass keep the types.
LEMMA NextPassTypes ==
    ASSUME TypeOK, EndJob \/ NextPass
    PROVE  /\ rpc' \in {"none", "select"} /\ rjob' \in Job /\ rold' \in BOOLEAN
           /\ rqueue' \in SUBSET Msgs /\ rtodo' \in SUBSET Msgs /\ radded' \in SUBSET Msgs
           /\ idle_running' \in BOOLEAN /\ progress' = progress /\ radded' \subseteq radded
  <1>1. CASE EndJob
    <2>1. idle_running' \in BOOLEAN /\ rold' \in BOOLEAN /\ rjob' \in Job
      BY <1>1, NoJobIsJob, Zenon DEF EndJob
    <2> QED  BY <1>1, <2>1 DEF EndJob
  <1>2. CASE ~rold /\ NextPass
    <2>1. rold' \in BOOLEAN
      BY <1>2, Zenon DEF NextPass
    <2> QED  BY <1>2, <2>1 DEF NextPass, TypeOK
  <1> QED  BY <1>1, <1>2 DEF NextPass

\* Every step keeps the types.
LEMMA TypeStep == ASSUME TypeOK, HandsOK, [Next]_vars PROVE TypeOK'
  <1> USE DEF stored, shared, queue, reader, loop, counters, Fault
  <1>1. ASSUME NEW S \in SUBSET Msgs \ {{}}, NEW full \in BOOLEAN, Import(S, full) PROVE TypeOK'
    <2>1. jobs' \in Seq(Job)
      BY <1>1, ImportJobIsJob DEF TypeOK, Import
    <2>2. progress' \in BOOLEAN
      BY <1>1, Zenon DEF TypeOK, Import
    <2> QED  BY <1>1, <2>1, <2>2 DEF TypeOK, Import
  <1>2. CASE OnIdle
    BY <1>2 DEF TypeOK, OnIdle, Job
  <1>21. CASE OnTick
    <2>1. progress' \in BOOLEAN
      BY <1>21, Zenon DEF OnTick
    <2> QED  BY <1>21, <2>1 DEF TypeOK, OnTick
  <1>3. CASE StartJob
    BY <1>3 DEF TypeOK, StartJob
  <1>4. CASE StartIdleJob
    BY <1>4 DEF TypeOK, StartIdleJob, StartKeywordLoop
  <1>5. CASE Select
    BY <1>5, NextPassTypes DEF TypeOK, Select, Lowest, Candidates
  <1>6. CASE StartBatch
    BY <1>6 DEF TypeOK, StartBatch, StartKeywordLoop, Lowest
  <1>7. ASSUME NEW m \in Msgs, ReadEmail(m) \/ ReadFails(m) PROVE TypeOK'
    BY <1>7 DEF TypeOK, ReadEmail, ReadFails
  <1>8. CASE RecordBatch
    BY <1>8 DEF TypeOK, RecordBatch, Batch
  <1>9. CASE Poll
    BY <1>9 DEF TypeOK, Poll, StartKeywordLoop
  <1>10. CASE WaitOver \/ WaitExpires \/ JobFails
    BY <1>10, NextPassTypes DEF TypeOK, WaitOver, WaitExpires, JobFails
  <1>11. CASE Top \/ Exit \/ AnnotateDone \/ UntagDone \/ UntagFails
    BY <1>11, PassesPositive DEF TypeOK, Top, Exit, AnnotateDone, UntagDone, UntagFails
  <1>12. ASSUME NEW m \in Msgs, Annotate(m) \/ AnnotateFails(m) PROVE TypeOK'
    BY <1>12 DEF TypeOK, Annotate, AnnotateFails
  <1>13. CASE StartPass
    BY <1>13 DEF TypeOK, StartPass, PassWords, Pending
  <1>14. CASE Pop
    BY <1>14 DEF TypeOK, Pop
  <1>15. CASE Upload
    BY <1>15 DEF TypeOK, Upload, NoHits
  <1>16. CASE PassDone
    BY <1>16, PassesPositive DEF TypeOK, PassDone
  <1>17. CASE CloseBatches
    BY <1>17 DEF TypeOK, CloseBatches
  <1>18. ASSUME NEW b \in kdone, Untag(b) PROVE TypeOK'
    BY <1>18 DEF TypeOK, Untag
  <1>19. CASE Crash
    <2>1. idle_running' \in BOOLEAN /\ progress' \in BOOLEAN /\ rold' \in BOOLEAN /\ rjob' \in Job
      BY <1>19, NoJobIsJob, Zenon DEF Crash
    <2> QED  BY <1>19, <2>1, PassesPositive DEF TypeOK, Crash, NoHits
  <1>20. CASE UNCHANGED vars
    BY <1>20 DEF TypeOK, vars
  <1> QED
    BY <1>1, <1>2, <1>3, <1>4, <1>5, <1>6, <1>7, <1>8, <1>9, <1>10, <1>11, <1>12, <1>13,
       <1>14, <1>15, <1>16, <1>17, <1>18, <1>19, <1>20, <1>21
    DEF Next, Reader, KeywordLoop, Faults

-----------------------------------------------------------------------------
Safe == NothingLost /\ DoneIsIndexed /\ EarlierScheduled /\ HandsOK /\ UntaggedIsIndexed

\* A step that leaves the table, the index and the keyword loop alone, and
\* records nothing, keeps the invariant.
LEMMA FrameStep ==
    ASSUME TypeOK, Safe,
           UNCHANGED <<imported, incoming, indexed, keywords, kpairs, kdone, kpass, ktodo,
                       keyword_batches, keyword_batch_no>>,
           radded' \subseteq radded,
           kpc' = kpc \/ (kpc \notin {"pop", "upload", "end"}
                           /\ kpc' \in {"top", "exiting", "dead"})
    PROVE  Safe'
  <1> USE DEF Safe
  <1>1. NothingLost'  BY DEF NothingLost, Carried
  <1>2. DoneIsIndexed'  BY DEF DoneIsIndexed, IsIndexed
  <1>3. EarlierScheduled'  BY DEF EarlierScheduled, CommonPass, Scheduled
  <1>4. HandsOK'  BY DEF HandsOK, Passing
  <1>5. UntaggedIsIndexed'  BY DEF UntaggedIsIndexed
  <1> QED  BY <1>1, <1>2, <1>3, <1>4, <1>5

\* Every step keeps the rest of the invariant.
LEMMA SafeStep == ASSUME TypeOK, TypeOK', Safe, [Next]_vars PROVE Safe'
  <1> USE DEF stored, shared, queue, reader, loop, counters, Fault
  <1>1. ASSUME NEW S \in SUBSET Msgs \ {{}}, NEW full \in BOOLEAN, Import(S, full) PROVE Safe'
    BY <1>1 DEF Import, Safe, NothingLost, Carried, DoneIsIndexed, IsIndexed, EarlierScheduled,
       CommonPass, Scheduled, HandsOK, Passing, UntaggedIsIndexed
  <1>2. CASE OnIdle \/ OnTick \/ StartJob
    BY <1>2, FrameStep DEF OnIdle, OnTick, StartJob
  <1>3. CASE StartIdleJob \/ Poll
    BY <1>3, FrameStep DEF StartIdleJob, Poll, StartKeywordLoop
  <1>4. CASE StartBatch
    BY <1>4, FrameStep DEF StartBatch, StartKeywordLoop
  <1>5. CASE Select \/ WaitOver \/ WaitExpires \/ JobFails
    <2>1. radded' \subseteq radded
      BY <1>5, NextPassTypes DEF Select, WaitOver, WaitExpires, JobFails
    <2> QED  BY <1>5, <2>1, FrameStep DEF Select, WaitOver, WaitExpires, JobFails
  <1>6. ASSUME NEW m \in Msgs, ReadFails(m) PROVE Safe'
    BY <1>6, FrameStep DEF ReadFails
  <1>7. ASSUME NEW m \in Msgs, ReadEmail(m) PROVE Safe'
    <2> USE <1>7 DEF ReadEmail, Safe, TypeOK
    <2>1. \A w \in Words : keywords[w] \subseteq keywords'[w]
      OBVIOUS
    <2>2. \A w \in WordsOf[m] : m \in keywords'[w]
      BY WordsOfAssumption
    <2>3. NothingLost'
      BY <2>1, <2>2, WordsOfAssumption DEF NothingLost, Carried, Batch
    <2>4. EarlierScheduled'
      BY <2>1, WordsOfAssumption DEF EarlierScheduled, CommonPass, Scheduled, Batch
    <2>5. DoneIsIndexed' /\ HandsOK' /\ UntaggedIsIndexed'
      BY DEF DoneIsIndexed, IsIndexed, HandsOK, Passing, UntaggedIsIndexed
    <2> QED  BY <2>3, <2>4, <2>5
  <1>8. CASE RecordBatch
    <2> USE <1>8 DEF RecordBatch, Safe
    <2>1. NothingLost'
      BY DEF NothingLost, Carried
    <2>2. EarlierScheduled'
      BY DEF EarlierScheduled, CommonPass, Scheduled, TypeOK
    <2>3. DoneIsIndexed' /\ HandsOK' /\ UntaggedIsIndexed'
      BY DEF DoneIsIndexed, IsIndexed, HandsOK, Passing, UntaggedIsIndexed
    <2> QED  BY <2>1, <2>2, <2>3
  <1>9. CASE Top \/ Exit \/ AnnotateDone \/ UntagDone \/ UntagFails
    BY <1>9 DEF Top, Exit, AnnotateDone, UntagDone, UntagFails, Safe, NothingLost, Carried,
       DoneIsIndexed, IsIndexed, EarlierScheduled, CommonPass, HandsOK, Passing,
       UntaggedIsIndexed, TypeOK
  <1>10. ASSUME NEW m \in Msgs, Annotate(m) \/ AnnotateFails(m) PROVE Safe'
    BY <1>10 DEF Annotate, AnnotateFails, Safe, NothingLost, Carried,
       DoneIsIndexed, IsIndexed, EarlierScheduled, CommonPass, HandsOK, Passing,
       UntaggedIsIndexed, TypeOK
  <1>11. CASE StartPass
    <2> USE <1>11 DEF StartPass, Safe
    <2>1. EarlierScheduled'
      <3> SUFFICES ASSUME kpass = Passes, NEW b \in keyword_batches, NEW m \in b.idxs,
                          NEW w \in WordsOf[m]
                   PROVE  m \in indexed[w] \/ (w \in ktodo' /\ m \in keywords[w])
        BY DEF EarlierScheduled, CommonPass, Scheduled
      <3>1. w \in Words
        BY WordsOfAssumption DEF TypeOK, Batch
      <3>2. m \in indexed[w] \/ m \in keywords[w]
        BY <3>1 DEF NothingLost, Carried, HandsOK, Passing, NoHits
      <3> QED  BY <3>1, <3>2 DEF PassWords, Pending
    <2>2. HandsOK'
      BY DEF HandsOK, Passing, PassWords, Pending, NoHits
    <2>3. NothingLost' /\ DoneIsIndexed' /\ UntaggedIsIndexed'
      BY DEF NothingLost, Carried, DoneIsIndexed, IsIndexed, UntaggedIsIndexed
    <2> QED  BY <2>1, <2>2, <2>3
  <1>12. CASE Pop
    <2> USE <1>12 DEF Safe
    <2>1. PICK v \in ktodo :
             /\ kpairs' = [kpairs EXCEPT ![v] = keywords[v]]
             /\ keywords' = [keywords EXCEPT ![v] = {}]
             /\ ktodo' = ktodo \ {v}
      BY DEF Pop
    <2>2. v \in Words /\ kpairs[v] = {} /\ kpc = "pop"
      BY DEF Pop, HandsOK
    <2>3. \A w \in Words : kpairs'[w] = (IF w = v THEN keywords[w] ELSE kpairs[w])
                        /\ keywords'[w] = (IF w = v THEN {} ELSE keywords[w])
      BY <2>1 DEF TypeOK
    <2>4. NothingLost'
      BY <2>2, <2>3, WordsOfAssumption DEF Pop, NothingLost, Carried, TypeOK, Batch
    <2>5. EarlierScheduled'
      BY <2>1, <2>2, <2>3, WordsOfAssumption
      DEF Pop, EarlierScheduled, CommonPass, Scheduled, TypeOK, Batch
    <2>6. HandsOK'
      BY <2>1, <2>2, <2>3 DEF Pop, HandsOK, Passing
    <2>7. DoneIsIndexed' /\ UntaggedIsIndexed'
      BY DEF Pop, DoneIsIndexed, IsIndexed, UntaggedIsIndexed
    <2> QED  BY <2>4, <2>5, <2>6, <2>7
  <1>13. CASE Upload
    <2> USE <1>13 DEF Upload, Safe
    <2>1. \A w \in Words : indexed'[w] = indexed[w] \cup kpairs[w] /\ kpairs'[w] = {}
      BY DEF NoHits
    <2>2. NothingLost'
      BY <2>1, WordsOfAssumption DEF NothingLost, Carried, TypeOK, Batch
    <2>3. EarlierScheduled'
      BY <2>1, WordsOfAssumption DEF EarlierScheduled, CommonPass, Scheduled, TypeOK, Batch
    <2>4. DoneIsIndexed'
      BY <2>1, WordsOfAssumption DEF DoneIsIndexed, IsIndexed, TypeOK, Batch
    <2>5. UntaggedIsIndexed'
      BY <2>1, WordsOfAssumption DEF UntaggedIsIndexed, TypeOK
    <2>6. HandsOK'
      BY <2>1 DEF HandsOK, Passing
    <2> QED  BY <2>2, <2>3, <2>4, <2>5, <2>6
  <1>14. CASE PassDone
    BY <1>14 DEF PassDone, Safe, NothingLost, Carried, DoneIsIndexed, IsIndexed,
       EarlierScheduled, CommonPass, Scheduled, HandsOK, Passing, UntaggedIsIndexed
  <1>15. CASE CloseBatches
    <2> USE <1>15 DEF CloseBatches, Safe
    <2>1. DoneIsIndexed'
      <3> SUFFICES ASSUME NEW b \in keyword_batches, Finished(b), NEW m \in b.idxs,
                          NEW w \in WordsOf[m]
                   PROVE  m \in indexed[w]
        BY DEF DoneIsIndexed, IsIndexed
      <3>1. w \in Words /\ kpairs[w] = {} /\ ktodo = {} /\ CommonPass
        BY WordsOfAssumption DEF TypeOK, Batch, HandsOK, Passing, NoHits, CommonPass
      <3>2. CASE Pending(keywords) = {}
        BY <3>1, <3>2 DEF NothingLost, Carried, Pending
      <3>3. CASE b.no < keyword_batch_no
        BY <3>1, <3>3 DEF EarlierScheduled, Scheduled
      <3> QED  BY <3>2, <3>3 DEF Finished
    <2>2. NothingLost' /\ EarlierScheduled' /\ HandsOK' /\ UntaggedIsIndexed'
      BY DEF NothingLost, Carried, EarlierScheduled, CommonPass, HandsOK, Passing,
         UntaggedIsIndexed
    <2> QED  BY <2>1, <2>2
  <1>16. ASSUME NEW b \in kdone, Untag(b) PROVE Safe'
    <2> USE <1>16 DEF Untag, Safe
    <2>1. UntaggedIsIndexed'
      BY DEF UntaggedIsIndexed, DoneIsIndexed, IsIndexed
    <2>2. NothingLost' /\ EarlierScheduled' /\ HandsOK' /\ DoneIsIndexed'
      BY DEF NothingLost, Carried, EarlierScheduled, CommonPass, HandsOK, Passing,
         DoneIsIndexed, IsIndexed
    <2> QED  BY <2>1, <2>2
  <1>17. CASE Crash
    BY <1>17 DEF Crash, Safe, NothingLost, DoneIsIndexed, EarlierScheduled, CommonPass,
       HandsOK, Passing, UntaggedIsIndexed
  <1>18. CASE UNCHANGED vars
    BY <1>18, FrameStep DEF vars
  <1> QED
    BY <1>1, <1>2, <1>3, <1>4, <1>5, <1>6, <1>7, <1>8, <1>9, <1>10, <1>11, <1>12, <1>13,
       <1>14, <1>15, <1>16, <1>17, <1>18
    DEF Next, Reader, KeywordLoop, Faults
-----------------------------------------------------------------------------
\* The invariant holds in every reachable state.
THEOREM Invariance == Spec => []IInv
  <1>1. IInv /\ [Next]_vars => IInv'
    BY TypeStep, SafeStep DEF IInv, Safe
  <1> QED  BY InitInv, <1>1, PTL DEF Spec

\* The variables of the importer have their types in every reachable state.
THEOREM TypeCorrect == Spec => []TypeOK
  BY Invariance, PTL DEF IInv

\* _keyword_loop takes the incoming tag off a message only when the search
\* worker has all of its keywords (provided that no upload fails half way).
THEOREM UntaggedMessagesAreIndexed == Spec => []UntaggedIsIndexed
  BY Invariance, PTL DEF IInv
=============================================================================
