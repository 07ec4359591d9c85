-------------------------- MODULE WorkerPoolProofs --------------------------
(***************************************************************************)
(* Proofs about the pool of workers, for any number of callers, workers,   *)
(* attempts and failures: calls never share the writer, and the counts of  *)
(* the pool are off by at most the number of failures.                     *)
(***************************************************************************)
EXTENDS WorkerPool, FiniteSetTheorems, SequenceTheorems, TLAPS

\* A caller remembers a worker while it uses it, and through its second try.
EntryOK ==
    \A c \in Callers :
        /\ pc[c] = "idle" => tries[c] = 1
        /\ tries[c] = 1 /\ pc[c] # "rpc" => entry[c] = "none"
        /\ tries[c] = 2 => entry[c] # "none"

\* The callers whose first try has failed and that still remember its worker:
\* it has been counted out, and may be once more.
Pending(k) == {c \in Callers : tries[c] = 2 /\ pc[c] # "rpc" /\ entry[c] = k}

\* Each of them stands for a failure that has not made the count wrong yet.
DriftOK ==
    \A k \in Kinds :
        /\ counts[k] - Existing(k) <= faults
        /\ counts[k] - Existing(k) >= Cardinality(Pending(k)) - faults

\* The inductive invariant.
IInv == TypeOK /\ EntryOK /\ OneWriter /\ DriftOK

One(b) == IF b THEN 1 ELSE 0
PlacesOf(s, k) == {i \in 1 .. Len(s) : s[i] = k}
-----------------------------------------------------------------------------
\* A set that differs from a finite one in one element at most.
LEMMA OneElement ==
    ASSUME NEW S, NEW T, NEW x, IsFiniteSet(S), T \ {x} = S \ {x}
    PROVE  /\ IsFiniteSet(T) /\ Cardinality(S) \in Nat /\ Cardinality(T) \in Nat
           /\ Cardinality(T) = Cardinality(S) + One(x \in T) - One(x \in S)
  <1>1. IsFiniteSet(S \ {x}) /\ Cardinality(S) \in Nat
        /\ Cardinality(S \ {x}) = Cardinality(S) - One(x \in S)
    BY FS_RemoveElement, FS_CardinalityType DEF One
  <1>2. CASE x \in T
    <2>1. T = (S \ {x}) \cup {x}
      BY <1>2
    <2> QED  BY <1>1, <1>2, <2>1, FS_AddElement, FS_CardinalityType DEF One
  <1>3. CASE x \notin T
    <2>1. T = S \ {x}
      BY <1>3
    <2> QED  BY <1>1, <1>3, <2>1, FS_CardinalityType DEF One
  <1> QED  BY <1>2, <1>3

\* The places of a sequence are finite.
LEMMA PlacesFinite ==
    ASSUME NEW s \in Seq(Kinds), NEW k
    PROVE  IsFiniteSet(PlacesOf(s, k)) /\ Cardinality(PlacesOf(s, k)) \in Nat
  <1>1. IsFiniteSet(1 .. Len(s)) /\ PlacesOf(s, k) \subseteq 1 .. Len(s)
    BY FS_Interval, LenProperties DEF PlacesOf
  <1> QED  BY <1>1, FS_Subset, FS_CardinalityType

\* What RemoveAt returns.
LEMMA RemoveAtProperties ==
    ASSUME NEW s \in Seq(Kinds), NEW i \in 1 .. Len(s)
    PROVE  /\ RemoveAt(s, i) \in Seq(Kinds)
           /\ Len(RemoveAt(s, i)) = Len(s) - 1
           /\ \A j \in 1 .. Len(s) - 1 : RemoveAt(s, i)[j] = IF j < i THEN s[j] ELSE s[j + 1]
  <1> DEFINE a == SubSeq(s, 1, i - 1)
             b == SubSeq(s, i + 1, Len(s))
  <1>0. Len(s) \in Nat /\ i \in Int /\ \A j \in 1 .. Len(s) : s[j] \in Kinds
    BY LenProperties, ElementOfSeq
  <1>1. a \in Seq(Kinds) /\ Len(a) = i - 1 /\ \A j \in 1 .. i - 1 : a[j] = s[j]
    <2>1. \A j \in 1 .. i - 1 : s[j] \in Kinds
      BY <1>0
    <2>2. i - 1 \in Int /\ 1 \in Int
      BY <1>0
    <2>3. /\ a \in Seq(Kinds)
          /\ Len(a) = (IF 1 <= i - 1 THEN (i - 1) - 1 + 1 ELSE 0)
          /\ \A j \in 1 .. (i - 1) - 1 + 1 : a[j] = s[1 + j - 1]
      BY <2>1, <2>2, SubSeqProperties
    <2> QED  BY <1>0, <2>3
  <1>2. b \in Seq(Kinds) /\ Len(b) = Len(s) - i /\ \A j \in 1 .. Len(s) - i : b[j] = s[i + j]
    <2>1. \A j \in i + 1 .. Len(s) : s[j] \in Kinds
      BY <1>0
    <2>2. i + 1 \in Int /\ Len(s) \in Int
      BY <1>0
    <2>3. /\ b \in Seq(Kinds)
          /\ Len(b) = (IF i + 1 <= Len(s) THEN Len(s) - (i + 1) + 1 ELSE 0)
          /\ \A j \in 1 .. Len(s) - (i + 1) + 1 : b[j] = s[(i + 1) + j - 1]
      BY <2>1, <2>2, SubSeqProperties
    <2> QED  BY <1>0, <2>3
  <1>3. /\ a \o b \in Seq(Kinds) /\ Len(a \o b) = Len(a) + Len(b)
        /\ \A j \in 1 .. Len(a) + Len(b) :
              (a \o b)[j] = IF j <= Len(a) THEN a[j] ELSE b[j - Len(a)]
    BY <1>1, <1>2, ConcatProperties
  <1>4. RemoveAt(s, i) = a \o b
    BY DEF RemoveAt
  <1> HIDE DEF a, b
  <1> QED  BY <1>0, <1>1, <1>2, <1>3, <1>4, SMTT(30)

\* Taking a worker out of the pool takes it out of the number of its kind.
LEMMA PlacesAfterRemoveAt ==
    ASSUME NEW s \in Seq(Kinds), NEW i \in 1 .. Len(s), NEW k
    PROVE  Cardinality(PlacesOf(RemoveAt(s, i), k))
             = Cardinality(PlacesOf(s, k)) - One(s[i] = k)
  <1> DEFINE r == RemoveAt(s, i)
             S == PlacesOf(s, k) \ {i}
             T == PlacesOf(r, k)
             f == [j \in S |-> IF j < i THEN j ELSE j - 1]
  <1>0. /\ Len(s) \in Nat /\ Len(r) = Len(s) - 1
        /\ \A j \in 1 .. Len(s) - 1 : r[j] = IF j < i THEN s[j] ELSE s[j + 1]
    BY LenProperties, RemoveAtProperties
  <1> HIDE DEF r
  <1>1. f \in [S -> T]
    <2>1. ASSUME NEW j \in S PROVE f[j] \in T
      BY <1>0 DEF PlacesOf
    <2> QED  BY <2>1
  <1>2. \A x, y \in S : f[x] = f[y] => x = y
    BY <1>0 DEF PlacesOf
  <1>3. ASSUME NEW t \in T PROVE \E j \in S : f[j] = t
    <2>1. t \in 1 .. Len(s) - 1 /\ r[t] = k
      BY <1>0 DEF PlacesOf
    <2>2. CASE t < i
      <3>1. t \in S /\ f[t] = t
        BY <1>0, <2>1, <2>2 DEF PlacesOf
      <3> QED  BY <3>1
    <2>3. CASE t >= i
      <3>1. t + 1 \in S /\ f[t + 1] = t
        BY <1>0, <2>1, <2>3 DEF PlacesOf
      <3> QED  BY <3>1
    <2> QED  BY <1>0, <2>1, <2>2, <2>3
  <1>4. ExistsBijection(S, T)
    <2> HIDE DEF f, S, T
    <2> QED  BY <1>1, <1>2, <1>3 DEF ExistsBijection, Bijection, Injection, Surjection, IsInjective
  <1>5. IsFiniteSet(S) /\ Cardinality(S) = Cardinality(PlacesOf(s, k)) - One(s[i] = k)
    <2>1. i \in PlacesOf(s, k) <=> s[i] = k
      BY DEF PlacesOf
    <2> QED  BY <2>1, PlacesFinite, FS_RemoveElement DEF One
  <1>6. Cardinality(T) = Cardinality(S)
    BY <1>4, <1>5, FS_Bijection
  <1> QED  BY <1>5, <1>6 DEF r

\* Putting one back adds it.
LEMMA PlacesAfterAppend ==
    ASSUME NEW s \in Seq(Kinds), NEW e \in Kinds, NEW k
    PROVE  /\ Append(s, e) \in Seq(Kinds)
           /\ Cardinality(PlacesOf(Append(s, e), k)) = Cardinality(PlacesOf(s, k)) + One(e = k)
  <1> DEFINE T == PlacesOf(Append(s, e), k)
             n == Len(s) + 1
  <1>1. Len(s) \in Nat /\ Append(s, e) \in Seq(Kinds) /\ Len(Append(s, e)) = n
        /\ \A i \in 1 .. Len(s) : Append(s, e)[i] = s[i]
        /\ Append(s, e)[n] = e
    BY AppendProperties, LenProperties
  <1>2. T \ {n} = PlacesOf(s, k) \ {n} /\ n \notin PlacesOf(s, k) /\ (n \in T <=> e = k)
    BY <1>1 DEF PlacesOf
  <1> HIDE DEF T, n
  <1>3. Cardinality(T) = Cardinality(PlacesOf(s, k)) + One(n \in T) - One(n \in PlacesOf(s, k))
    BY <1>2, PlacesFinite, OneElement
  <1> QED  BY <1>1, <1>2, <1>3, PlacesFinite DEF T, One
-----------------------------------------------------------------------------
\* The numbers that the invariant relates are natural numbers.
LEMMA NumbersAreNat ==
    ASSUME TypeOK, NEW k \in Kinds
    PROVE  /\ IsFiniteSet(InUse(k)) /\ IsFiniteSet(Pending(k))
           /\ Cardinality(InUse(k)) \in Nat /\ Cardinality(Pending(k)) \in Nat
           /\ Cardinality(Pooled(k)) \in Nat /\ Pooled(k) = PlacesOf(workers, k)
           /\ counts[k] \in Int /\ faults \in Nat
  <1>1. IsFiniteSet(InUse(k)) /\ IsFiniteSet(Pending(k))
    BY FS_Subset, PoolAssumption DEF InUse, Pending
  <1>2. Pooled(k) = PlacesOf(workers, k) /\ workers \in Seq(Kinds)
    BY DEF Pooled, PlacesOf, TypeOK
  <1> QED  BY <1>1, <1>2, PlacesFinite, FS_CardinalityType DEF TypeOK

\* Only c moves.
Alone(c) == \A d \in Callers \ {c} : pc'[d] = pc[d] /\ entry'[d] = entry[d] /\ tries'[d] = tries[d]

\* A step of one caller changes its own place in the sets of callers.
LEMMA CallerStep ==
    ASSUME TypeOK, NEW c \in Callers, NEW k \in Kinds, Alone(c)
    PROVE  /\ Cardinality(InUse(k)') \in Nat /\ Cardinality(Pending(k)') \in Nat
           /\ Cardinality(InUse(k)')
                = Cardinality(InUse(k)) + One(c \in InUse(k)') - One(c \in InUse(k))
           /\ Cardinality(Pending(k)')
                = Cardinality(Pending(k)) + One(c \in Pending(k)') - One(c \in Pending(k))
  <1>1. InUse(k)' \ {c} = InUse(k) \ {c} /\ Pending(k)' \ {c} = Pending(k) \ {c}
    BY DEF Alone, InUse, Pending
  <1> QED  BY <1>1, NumbersAreNat, OneElement

\* The two invariants, in terms of what a step adds and takes away.
LEMMA Accounts ==
    ASSUME IInv, TypeOK', faults' >= faults,
           \A k \in Kinds :
              /\ Existing(k) \in Nat /\ Existing(k)' \in Nat
              /\ Cardinality(Pending(k)) \in Nat /\ Cardinality(Pending(k)') \in Nat
              /\ (counts'[k] - counts[k]) - (Existing(k)' - Existing(k)) <= faults' - faults
              /\ (counts'[k] - counts[k]) - (Existing(k)' - Existing(k))
                    >= (Cardinality(Pending(k)') - Cardinality(Pending(k))) - (faults' - faults),
           \/ Existing("read_write")' = Existing("read_write")
           \/ Existing("read_write")' = Existing("read_write") - 1 /\ faults' > faults
    PROVE  OneWriter' /\ DriftOK'
  <1>1. "read_write" \in Kinds /\ faults \in Nat /\ faults' \in Nat
    BY DEF Kinds, IInv, TypeOK
  <1>2. OneWriter'
    BY <1>1 DEF IInv, OneWriter
  <1>3. ASSUME NEW k \in Kinds
        PROVE  /\ counts'[k] - Existing(k)' <= faults'
               /\ counts'[k] - Existing(k)' >= Cardinality(Pending(k)') - faults'
    <2>1. counts[k] \in Int /\ counts'[k] \in Int
      BY DEF IInv, TypeOK
    <2> QED  BY <1>1, <2>1 DEF IInv, DriftOK
  <1> QED  BY <1>2, <1>3 DEF DriftOK

\* A step that moves no worker keeps the invariant, if the counts grow by no
\* more than the failures.
LEMMA NoWorkerMoves ==
    ASSUME IInv, TypeOK', NEW c \in Callers, Alone(c),
           UNCHANGED workers, faults' >= faults,
           \A k \in Kinds : /\ (c \in InUse(k)' <=> c \in InUse(k))
                            /\ (c \in Pending(k)' <=> c \in Pending(k))
                            /\ counts'[k] >= counts[k]
                            /\ counts'[k] - counts[k] <= faults' - faults
    PROVE  OneWriter' /\ DriftOK'
  <1>1. ASSUME NEW k \in Kinds
        PROVE  /\ Existing(k) \in Nat /\ Existing(k)' = Existing(k)
               /\ Cardinality(Pending(k)) \in Nat
               /\ Cardinality(Pending(k)') = Cardinality(Pending(k))
               /\ counts[k] \in Int /\ counts'[k] \in Int /\ faults \in Nat /\ faults' \in Nat
    <2>1. Cardinality(InUse(k)') = Cardinality(InUse(k))
          /\ Cardinality(Pending(k)') = Cardinality(Pending(k))
      BY CallerStep, NumbersAreNat DEF IInv, One
    <2>2. Pooled(k)' = Pooled(k)
      BY DEF Pooled
    <2> QED  BY <2>1, <2>2, NumbersAreNat DEF IInv, Existing, TypeOK
  <1>2. "read_write" \in Kinds
    BY DEF Kinds
  <1> QED  BY <1>1, <1>2, Accounts

\* The initial state satisfies the invariant.
LEMMA InitInv == Init => IInv
  <1> SUFFICES ASSUME Init PROVE IInv  OBVIOUS
  <1>1. TypeOK /\ EntryOK
    <2>1. workers \in Seq(Kinds)
      BY DEF Init, Kinds
    <2>2. attempts \in [Callers -> 1 .. Attempts] /\ counts \in [Kinds -> Int]
      BY PoolAssumption DEF Init
    <2> QED  BY <2>1, <2>2 DEF Init, TypeOK, EntryOK
  <1>2. ASSUME NEW k \in Kinds
        PROVE  InUse(k) = {} /\ Pending(k) = {} /\ Existing(k) = One(k = "read_write")
               /\ counts[k] = One(k = "read_write")
    <2>1. InUse(k) = {} /\ Pending(k) = {} /\ counts[k] = One(k = "read_write")
      BY DEF Init, InUse, Pending, One
    <2>2. Pooled(k) = IF k = "read_write" THEN {1} ELSE {}
      BY DEF Init, Pooled
    <2> QED  BY <2>1, <2>2, FS_EmptySet, FS_Singleton DEF Existing, One
  <1>3. OneWriter /\ DriftOK
    BY <1>2, FS_EmptySet DEF Init, OneWriter, DriftOK, One, Kinds
  <1> QED  BY <1>1, <1>3 DEF IInv

\* Steps of a caller on its way to a worker: none is taken.
LEMMA OnTheWay ==
    ASSUME IInv, NEW c \in Callers,
           \/ \E cap \in {"read", "write"} : Call(c, cap)
           \/ NoWorker(c) \/ DecideToAdd(c) \/ BusyWait(c) \/ LaunchFails(c)
    PROVE  IInv'
  <1> USE DEF IInv
  <1>1. TypeOK'
    <2>1. CASE \E cap \in {"read", "write"} : Call(c, cap)
      BY <2>1 DEF TypeOK, Call
    <2>2. CASE NoWorker(c)
      BY <2>2 DEF TypeOK, NoWorker, Fault
    <2>3. CASE DecideToAdd(c)
      BY <2>3 DEF TypeOK, DecideToAdd
    <2>4. CASE BusyWait(c)
      BY <2>4, PoolAssumption DEF TypeOK, BusyWait
    <2>5. CASE LaunchFails(c)
      BY <2>5 DEF TypeOK, LaunchFails, Fault, Kinds
    <2> QED  BY <2>1, <2>2, <2>3, <2>4, <2>5
  <1>2. EntryOK' /\ Alone(c)
    BY DEF TypeOK, EntryOK, Alone, Call, NoWorker, DecideToAdd, BusyWait, LaunchFails, Failed
  <1>3. UNCHANGED <<workers, entry, tries>>
    BY DEF Call, NoWorker, DecideToAdd, BusyWait, LaunchFails
  <1>4. pc[c] # "rpc" /\ pc'[c] # "rpc"
    BY DEF TypeOK, Call, NoWorker, DecideToAdd, BusyWait, LaunchFails, Failed
  <1>5. ASSUME NEW k \in Kinds
        PROVE  (c \in InUse(k)' <=> c \in InUse(k)) /\ (c \in Pending(k)' <=> c \in Pending(k))
    BY <1>3, <1>4 DEF InUse, Pending
  <1>6. faults' >= faults
        /\ \A k \in Kinds : counts'[k] >= counts[k] /\ counts'[k] - counts[k] <= faults' - faults
    <2>1. CASE LaunchFails(c)
      BY <2>1 DEF LaunchFails, Fault, TypeOK, Kinds
    <2>2. CASE ~LaunchFails(c)
      <3>1. UNCHANGED counts /\ (UNCHANGED faults \/ Fault)
        BY <2>2 DEF Call, NoWorker, DecideToAdd, BusyWait
      <3> QED  BY <3>1 DEF Fault, TypeOK
    <2> QED  BY <2>1, <2>2
  <1> QED  BY <1>1, <1>2, <1>3, <1>5, <1>6, NoWorkerMoves

\* A worker goes from the pool to its caller.
LEMMA TakesWorker == ASSUME IInv, NEW c \in Callers, PopWorker(c) PROVE IInv'
  <1> USE DEF IInv
  <1>1. PICK i \in Suitable(c) :
          entry' = [entry EXCEPT ![c] = workers[i]] /\ workers' = RemoveAt(workers, i)
    BY DEF PopWorker
  <1>2. /\ i \in 1 .. Len(workers) /\ workers \in Seq(Kinds) /\ workers[i] \in Kinds
        /\ pc[c] = "choose" /\ pc' = [pc EXCEPT ![c] = "rpc"]
        /\ UNCHANGED <<counts, need, tries, attempts, result>>
    BY ElementOfSeq DEF PopWorker, Suitable, TypeOK
  <1>f. faults' \in {faults, faults + 1}
    BY DEF PopWorker, Fault
  <1>3. TypeOK' /\ EntryOK' /\ Alone(c)
    BY <1>1, <1>2, <1>f, RemoveAtProperties, SMTT(30) DEF TypeOK, EntryOK, Alone, Kinds
  <1>4. ASSUME NEW k \in Kinds
        PROVE  /\ Existing(k)' = Existing(k) /\ Existing(k) \in Nat
               /\ Cardinality(Pending(k)') \in Nat /\ Cardinality(Pending(k)) \in Nat
               /\ Cardinality(Pending(k)') <= Cardinality(Pending(k))
    <2>1. Cardinality(Pooled(k)') = Cardinality(Pooled(k)) - One(workers[i] = k)
      <3>1. Pooled(k)' = PlacesOf(RemoveAt(workers, i), k)
        BY <1>1 DEF Pooled, PlacesOf
      <3> QED  BY <1>2, <3>1, PlacesAfterRemoveAt, NumbersAreNat, SMTT(30)
    <2>2. (c \in InUse(k)' <=> workers[i] = k) /\ c \notin InUse(k) /\ c \notin Pending(k)'
      BY <1>1, <1>2, <1>3 DEF InUse, Pending, TypeOK
    <2> QED  BY <1>3, <2>1, <2>2, CallerStep, NumbersAreNat DEF Existing, One
  <1>5. "read_write" \in Kinds /\ faults' \in {faults, faults + 1} /\ faults \in Nat
        /\ \A k \in Kinds : counts'[k] = counts[k] /\ counts[k] \in Int
    BY <1>2, <1>f DEF Kinds, TypeOK
  <1>6. OneWriter' /\ DriftOK'
    BY <1>3, <1>4, <1>5, Accounts
  <1> QED  BY <1>3, <1>6

\* A new reader goes to its caller.
LEMMA AddsWorker == ASSUME IInv, NEW c \in Callers, AutoAddWorker(c) PROVE IInv'
  <1> USE DEF IInv
  <1>1. /\ pc[c] = "add" /\ pc' = [pc EXCEPT ![c] = "rpc"]
        /\ counts' = [counts EXCEPT !["read"] = @ + 1] /\ entry' = [entry EXCEPT ![c] = "read"]
        /\ UNCHANGED <<workers, need, tries, attempts, result, faults>>
    BY DEF AutoAddWorker
  <1>2. TypeOK' /\ EntryOK' /\ Alone(c)
    BY <1>1 DEF TypeOK, EntryOK, Alone, Kinds
  <1>3. ASSUME NEW k \in Kinds
        PROVE  /\ Existing(k)' = Existing(k) + One(k = "read") /\ Existing(k) \in Nat
               /\ counts'[k] = counts[k] + One(k = "read") /\ counts[k] \in Int
               /\ Cardinality(Pending(k)') \in Nat /\ Cardinality(Pending(k)) \in Nat
               /\ Cardinality(Pending(k)') <= Cardinality(Pending(k))
    <2>1. Pooled(k)' = Pooled(k)
      BY <1>1 DEF Pooled
    <2>2. (c \in InUse(k)' <=> k = "read") /\ c \notin InUse(k) /\ c \notin Pending(k)'
      BY <1>1, <1>2 DEF InUse, Pending, TypeOK
    <2>3. Existing(k)' = Existing(k) + One(k = "read") /\ Existing(k) \in Nat
      BY <1>2, <2>1, <2>2, CallerStep, NumbersAreNat DEF Existing, One
    <2>4. counts'[k] = counts[k] + One(k = "read") /\ counts[k] \in Int
      BY <1>1 DEF TypeOK, One
    <2> QED  BY <1>2, <2>2, <2>3, <2>4, CallerStep, NumbersAreNat DEF One
  <1>4. "read_write" \in Kinds /\ faults' = faults /\ faults \in Nat
    BY <1>1 DEF Kinds, TypeOK
  <1>5. OneWriter' /\ DriftOK'
    BY <1>2, <1>3, <1>4, Accounts DEF One
  <1> QED  BY <1>2, <1>5

\* The answer arrives: the worker goes back to the pool.
LEMMA PutsBack == ASSUME IInv, NEW c \in Callers, Answer(c) PROVE IInv'
  <1> USE DEF IInv
  <1>1. /\ pc[c] = "rpc" /\ workers' = Append(workers, entry[c]) /\ Return(c, "some")
        /\ UNCHANGED <<counts, faults>>
    BY DEF Answer
  <1>2. workers \in Seq(Kinds) /\ entry[c] \in Kinds
    BY <1>1 DEF TypeOK
  <1>3. TypeOK' /\ EntryOK' /\ Alone(c)
    <2>1. workers' \in Seq(Kinds)
      BY <1>1, <1>2, PlacesAfterAppend
    <2>2. TypeOK'
      BY <1>1, <2>1, PoolAssumption DEF TypeOK, Return
    <2>3. EntryOK' /\ Alone(c)
      BY <1>1 DEF EntryOK, TypeOK, Alone, Return
    <2> QED  BY <2>2, <2>3
  <1>4. ASSUME NEW k \in Kinds
        PROVE  /\ Existing(k)' = Existing(k) /\ Existing(k) \in Nat
               /\ Cardinality(Pending(k)') \in Nat /\ Cardinality(Pending(k)) \in Nat
               /\ Cardinality(Pending(k)') <= Cardinality(Pending(k))
    <2>1. Cardinality(Pooled(k)') = Cardinality(Pooled(k)) + One(entry[c] = k)
      <3>1. Pooled(k)' = PlacesOf(Append(workers, entry[c]), k)
        BY <1>1 DEF Pooled, PlacesOf
      <3> QED  BY <1>2, <3>1, PlacesAfterAppend, NumbersAreNat
    <2>2. c \notin InUse(k)' /\ (c \in InUse(k) <=> entry[c] = k) /\ c \notin Pending(k)'
      BY <1>1, <1>3 DEF InUse, Pending, TypeOK, Return
    <2> QED  BY <1>3, <2>1, <2>2, CallerStep, NumbersAreNat DEF Existing, One
  <1>5. "read_write" \in Kinds /\ faults' = faults /\ faults \in Nat
        /\ \A k \in Kinds : counts'[k] = counts[k] /\ counts[k] \in Int
    BY <1>1 DEF Kinds, TypeOK
  <1>6. OneWriter' /\ DriftOK'
    BY <1>3, <1>4, <1>5, Accounts
  <1> QED  BY <1>3, <1>6

\* A call fails: its worker is dropped and counted out, a failure is counted,
\* and in the first try the caller becomes one that may count it out again.
LEMMA DropsWorker == ASSUME IInv, NEW c \in Callers, CallFails(c) PROVE IInv'
  <1> USE DEF IInv
  <1>1. /\ pc[c] = "rpc" /\ faults' = faults + 1 /\ faults \in Nat
        /\ counts' = [counts EXCEPT ![entry[c]] = @ - 1] /\ TryAgain(c) /\ UNCHANGED workers
    BY DEF CallFails, Fault, TypeOK
  <1>2. entry[c] \in Kinds
    BY <1>1 DEF TypeOK
  <1>3. TypeOK' /\ EntryOK' /\ Alone(c) /\ pc'[c] # "rpc"
    <2>1. CASE tries[c] = 1
      <3>1. /\ tries' = [tries EXCEPT ![c] = 2] /\ attempts' = [attempts EXCEPT ![c] = 1]
            /\ pc' = [pc EXCEPT ![c] = "choose"] /\ UNCHANGED <<need, entry, result>>
        BY <1>1, <2>1 DEF TryAgain
      <3>2. TypeOK'
        BY <1>1, <1>2, <3>1, PoolAssumption DEF TypeOK
      <3> QED  BY <1>2, <3>1, <3>2 DEF EntryOK, TypeOK, Alone, Kinds
    <2>2. CASE tries[c] = 2
      <3>1. Return(c, "nothing")
        BY <1>1, <2>2 DEF TryAgain
      <3>2. TypeOK'
        BY <1>1, <1>2, <3>1, PoolAssumption DEF TypeOK, Return
      <3> QED  BY <3>1, <3>2 DEF EntryOK, TypeOK, Alone, Return
    <2> QED  BY <2>1, <2>2 DEF TypeOK
  <1>4. ASSUME NEW k \in Kinds
        PROVE  /\ Existing(k)' = Existing(k) - One(entry[c] = k)
               /\ Existing(k) \in Nat /\ Existing(k)' \in Nat
               /\ counts'[k] = counts[k] - One(entry[c] = k) /\ counts[k] \in Int
               /\ Cardinality(Pending(k)') \in Nat /\ Cardinality(Pending(k)) \in Nat
               /\ Cardinality(Pending(k)') <= Cardinality(Pending(k)) + 1
    <2>1. Pooled(k)' = Pooled(k)
      BY <1>1 DEF Pooled
    <2>2. c \notin InUse(k)' /\ (c \in InUse(k) <=> entry[c] = k)
      BY <1>1, <1>3 DEF InUse
    <2>3. /\ Existing(k)' = Existing(k) - One(entry[c] = k)
          /\ Existing(k) \in Nat /\ Existing(k)' \in Nat
      BY <1>3, <2>1, <2>2, CallerStep, NumbersAreNat DEF Existing, One
    <2>4. counts'[k] = counts[k] - One(entry[c] = k) /\ counts[k] \in Int
      BY <1>1 DEF TypeOK, One
    <2> QED  BY <1>3, <2>3, <2>4, CallerStep, NumbersAreNat DEF One
  <1>5. "read_write" \in Kinds
    BY DEF Kinds
  <1>6. OneWriter' /\ DriftOK'
    BY <1>1, <1>3, <1>4, <1>5, Accounts DEF One
  <1> QED  BY <1>3, <1>6

\* Workers that leave the pool are counted out, with a failure each; callers
\* that were pending count their worker out again, and are not pending then.
LEMMA CountedOut ==
    ASSUME IInv, TypeOK', NEW out \in [Kinds -> {0, 1}], NEW again \in [Kinds -> {0, 1}],
           faults' >= faults, out["read_write"] = 1 => faults' > faults,
           \A k \in Kinds :
              /\ Existing(k)' = Existing(k) - out[k]
              /\ Existing(k) \in Nat /\ Existing(k)' \in Nat
              /\ counts'[k] = counts[k] - out[k] - again[k]
              /\ Cardinality(Pending(k)') \in Nat /\ Cardinality(Pending(k)) \in Nat
              /\ Cardinality(Pending(k)') = Cardinality(Pending(k)) - again[k]
    PROVE  OneWriter' /\ DriftOK'
  <1>1. "read_write" \in Kinds /\ faults \in Nat /\ faults' \in Nat
        /\ \A k \in Kinds : counts[k] \in Int /\ out[k] \in {0, 1} /\ again[k] \in {0, 1}
    BY DEF Kinds, IInv, TypeOK
  <1>2. ASSUME NEW k \in Kinds
        PROVE  /\ Existing(k) \in Nat /\ Existing(k)' \in Nat
               /\ Cardinality(Pending(k)) \in Nat /\ Cardinality(Pending(k)') \in Nat
               /\ (counts'[k] - counts[k]) - (Existing(k)' - Existing(k)) <= faults' - faults
               /\ (counts'[k] - counts[k]) - (Existing(k)' - Existing(k))
                    >= (Cardinality(Pending(k)') - Cardinality(Pending(k))) - (faults' - faults)
    BY <1>1
  <1>3. \/ Existing("read_write")' = Existing("read_write")
        \/ Existing("read_write")' = Existing("read_write") - 1 /\ faults' > faults
    BY <1>1
  <1> QED  BY <1>1, <1>2, <1>3, Accounts

\* No worker was found: one in the pool may have ended, and a caller that
\* remembers the worker of its first try counts that one out again.
LEMMA GivesUp == ASSUME IInv, NEW c \in Callers, GiveUp(c) PROVE IInv'
  <1> USE DEF IInv
  <1>1. PICK gone \in 0 .. Len(workers) :
          /\ Housekeeping(gone)
          /\ counts' = [k \in Kinds |->
                counts[k] - (IF gone > 0 /\ workers[gone] = k THEN 1 ELSE 0)
                          - (IF entry[c] = k THEN 1 ELSE 0)]
    BY DEF GiveUp
  <1> DEFINE out == [k \in Kinds |-> IF gone > 0 /\ workers[gone] = k THEN 1 ELSE 0]
             again == [k \in Kinds |-> IF entry[c] = k THEN 1 ELSE 0]
  <1>2. workers \in Seq(Kinds) /\ Len(workers) \in Nat /\ faults \in Nat /\ gone \in Nat
    BY LenProperties DEF TypeOK
  <1>3. pc[c] # "rpc"
    BY DEF GiveUp, Failed
  <1>4. Return(c, "some") \/ Return(c, "nothing")
    BY <1>3 DEF GiveUp, TryAgain, EntryOK, TypeOK
  <1>5. /\ workers' \in Seq(Kinds) /\ faults' \in Nat
        /\ faults' = faults + One(gone > 0)
        /\ \A k \in Kinds : Cardinality(Pooled(k)') = Cardinality(Pooled(k)) - out[k]
    <2>1. CASE gone = 0
      <3>1. UNCHANGED <<workers, faults>>
        BY <1>1, <2>1 DEF Housekeeping
      <3>2. \A k \in Kinds : Pooled(k)' = Pooled(k)
        BY <3>1 DEF Pooled
      <3> QED  BY <1>2, <2>1, <3>1, <3>2, NumbersAreNat DEF One
    <2>2. CASE gone # 0
      <3>1. workers' = RemoveAt(workers, gone) /\ faults' = faults + 1 /\ gone \in 1 .. Len(workers)
        BY <1>1, <1>2, <2>2 DEF Housekeeping, Fault
      <3>2. ASSUME NEW k \in Kinds
            PROVE  Cardinality(Pooled(k)') = Cardinality(Pooled(k)) - out[k]
        <4>1. Pooled(k)' = PlacesOf(RemoveAt(workers, gone), k)
          BY <3>1 DEF Pooled, PlacesOf
        <4>2. Cardinality(Pooled(k)') = Cardinality(Pooled(k)) - One(workers[gone] = k)
          BY <1>2, <3>1, <4>1, PlacesAfterRemoveAt, NumbersAreNat
        <4> QED  BY <1>2, <2>2, <4>2 DEF One
      <3> QED  BY <1>2, <2>2, <3>1, <3>2, RemoveAtProperties DEF One
    <2> QED  BY <2>1, <2>2
  <1>6. counts' \in [Kinds -> Int]
        /\ \A k \in Kinds : counts'[k] = counts[k] - out[k] - again[k]
    BY <1>1 DEF TypeOK, One
  <1>a. ASSUME NEW k \in Kinds PROVE out[k] \in {0, 1} /\ (out[k] = 1 => gone > 0)
        /\ again[k] \in {0, 1}
    OBVIOUS
  <1> HIDE DEF out
  <1>7. TypeOK' /\ EntryOK' /\ Alone(c) /\ pc'[c] = "idle" /\ entry'[c] = "none" /\ tries'[c] = 1
    <2>1. PICK what \in {"some", "nothing"} : Return(c, what)
      BY <1>4
    <2>2. workers' \in Seq(Kinds) /\ counts' \in [Kinds -> Int] /\ faults' \in Nat
      BY <1>5, <1>6
    <2>3. TypeOK'
      BY <2>1, <2>2, PoolAssumption DEF TypeOK, Return
    <2> QED  BY <2>1, <2>3 DEF EntryOK, TypeOK, Alone, Return
  <1>8. ASSUME NEW k \in Kinds
        PROVE  /\ Existing(k)' = Existing(k) - out[k]
               /\ Existing(k) \in Nat /\ Existing(k)' \in Nat /\ counts[k] \in Int
               /\ counts'[k] = counts[k] - out[k] - again[k]
               /\ Cardinality(Pending(k)') \in Nat /\ Cardinality(Pending(k)) \in Nat
               /\ Cardinality(Pending(k)') = Cardinality(Pending(k)) - again[k]
    <2>1. c \notin InUse(k)' /\ c \notin InUse(k)
      BY <1>3, <1>7 DEF InUse
    <2>2. c \notin Pending(k)' /\ (c \in Pending(k) <=> entry[c] = k)
      BY <1>3, <1>7 DEF Pending, EntryOK, TypeOK, Kinds
    <2>3. Cardinality(Pooled(k)') = Cardinality(Pooled(k)) - out[k] /\ Cardinality(Pooled(k)') \in Nat
      <3>1. Pooled(k)' = PlacesOf(workers', k)
        BY DEF Pooled, PlacesOf
      <3> QED  BY <1>5, <3>1, PlacesFinite
    <2>4. /\ Cardinality(InUse(k)') = Cardinality(InUse(k))
          /\ Cardinality(Pending(k)') = Cardinality(Pending(k)) - again[k]
          /\ Cardinality(Pending(k)') \in Nat
      BY <1>7, <2>1, <2>2, CallerStep, NumbersAreNat DEF One
    <2>5. Existing(k)' = Existing(k) - out[k] /\ Existing(k) \in Nat /\ Existing(k)' \in Nat
      <3>1. Cardinality(Pooled(k)) \in Nat /\ Cardinality(InUse(k)) \in Nat
        BY NumbersAreNat
      <3>2. Existing(k)' = Cardinality(Pooled(k)') + Cardinality(InUse(k)')
            /\ Existing(k) = Cardinality(Pooled(k)) + Cardinality(InUse(k))
        BY DEF Existing
      <3>3. out[k] \in Int
        BY <1>a
      <3> QED  BY <2>3, <2>4, <3>1, <3>2, <3>3
    <2> QED  BY <1>6, <2>4, <2>5, NumbersAreNat
  <1>9. "read_write" \in Kinds
    BY DEF Kinds
  <1>10. faults' >= faults /\ faults' \in Nat /\ (gone > 0 => faults' = faults + 1)
    BY <1>2, <1>5 DEF One
  <1> HIDE DEF again
  <1>11. OneWriter' /\ DriftOK'
    <2>1. out \in [Kinds -> {0, 1}] /\ again \in [Kinds -> {0, 1}]
      BY DEF out, again
    <2>2. faults' >= faults /\ (out["read_write"] = 1 => faults' > faults)
      BY <1>2, <1>9, <1>10, <1>a
    <2> QED  BY <1>7, <1>8, <2>1, <2>2, CountedOut
  <1> QED  BY <1>7, <1>11

\* Every step keeps the invariant.
LEMMA StepInv == ASSUME IInv, [Next]_vars PROVE IInv'
  <1>1. ASSUME NEW c \in Callers, Step(c) PROVE IInv'
    BY <1>1, OnTheWay, TakesWorker, AddsWorker, PutsBack, GivesUp DEF Step
  <1>2. ASSUME NEW c \in Callers, LaunchFails(c) \/ \E cap \in {"read", "write"} : Call(c, cap)
        PROVE  IInv'
    BY <1>2, OnTheWay
  <1>3. ASSUME NEW c \in Callers, CallFails(c) PROVE IInv'
    BY <1>3, DropsWorker
  <1>4. CASE UNCHANGED vars
    <2>1. \A k \in Kinds : Existing(k)' = Existing(k) /\ Pending(k)' = Pending(k)
      BY <1>4 DEF vars, Existing, Pooled, InUse, Pending
    <2>2. OneWriter' /\ DriftOK'
      BY <1>4, <2>1 DEF vars, IInv, OneWriter, DriftOK, Kinds
    <2> QED  BY <1>4, <2>2 DEF vars, IInv, TypeOK, EntryOK
  <1> QED  BY <1>1, <1>2, <1>3, <1>4 DEF Next
-----------------------------------------------------------------------------
\* The invariant holds in every reachable state.
THEOREM Invariance == Spec => []IInv
  BY InitInv, StepInv, PTL DEF Spec

\* The variables of the pool have their types in every reachable state.
THEOREM TypeCorrect == Spec => []TypeOK
  BY Invariance, PTL DEF IInv

\* Calls never share the writer, and it goes missing only with a failure.
THEOREM TheWriterIsUnique == Spec => []OneWriter
  BY Invariance, PTL DEF IInv

\* The pool's counts are off by one worker for each failure at most.
THEOREM CountsDriftByFailures == Spec => []CountDrift
  <1>1. IInv => CountDrift
    <2> SUFFICES ASSUME IInv, NEW k \in Kinds
                 PROVE  counts[k] - Existing(k) \in (0 - faults) .. faults
      BY DEF CountDrift
    <2>1. /\ counts[k] \in Int /\ faults \in Nat
          /\ Existing(k) \in Nat /\ Cardinality(Pending(k)) \in Nat
      BY NumbersAreNat DEF IInv, Existing
    <2> QED  BY <2>1 DEF IInv, DriftOK
  <1> QED  BY Invariance, <1>1, PTL
=============================================================================
