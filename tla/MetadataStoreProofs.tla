------------------------- MODULE MetadataStoreProofs -------------------------
(***************************************************************************)
(* Proofs about the metadata index, for any number of messages, whatever   *)
(* they reply to, and any number of kills and annotations.                 *)
(***************************************************************************)
EXTENDS MetadataStore, FiniteSetTheorems, WellFoundedInduction, TLAPS

\* The stages of a request that is being served.
Stage == {"parent", "ghost", "root", "kids", "column", "save", "hung"}

\* The records that can be stored when those of D are.
Row(D) == [msg : Msgs, parent : D \cup {0}, thread : SUBSET D,
           missing : BOOLEAN, headers : BOOLEAN, dsn : Msgs \cup {NoMsg}]
Request(D) == [stage : Stage, req : Msgs, add : BOOLEAN, new : BOOLEAN,
               idx : D, md : Row(D), tid : D \cup {0}, kids : SUBSET D]

\* The records are numbered from 1, and each message id has one record.
RowsOf(rs, ns) ==
    /\ \E n \in Nat : DOMAIN rs = 1 .. n
    /\ \A i \in DOMAIN rs : rs[i] \in Row(DOMAIN rs)
    /\ \A m \in DOMAIN ns : ns[m] \in DOMAIN rs /\ rs[ns[m]].msg = m
    /\ \A i \in DOMAIN rs : rs[i].msg \in DOMAIN ns /\ ns[rs[i].msg] = i
Rows == RowsOf(recs, names)

Columns ==
    /\ DOMAIN thread_ids \subseteq DOMAIN recs
    /\ \A i \in DOMAIN thread_ids : thread_ids[i] \in DOMAIN recs

\* The record a request works on is that of its message, and by the time the
\* request needs them its parent and its thread are records that are there.
Served ==
    op # Idle =>
        /\ op \in Request(DOMAIN recs)
        /\ op.md.msg = recs[op.idx].msg
        /\ op.stage \notin {"parent", "ghost"} => op.md.parent \in DOMAIN recs
        /\ op.stage \in {"kids", "column", "save"} => op.tid \in DOMAIN recs

Counts ==
    /\ irt \in [Msgs -> Msgs \cup {NoMsg}] /\ answered \in [Msgs -> SUBSET Msgs]
    /\ kills \in Nat
    /\ early \cup reported \subseteq arrived /\ arrived \subseteq DOMAIN names
    /\ op # Idle /\ op.new => op.req \in arrived

\* The threads that are cached are those of the column, but while kids move.
Cached ==
    thread_cache # NoCache /\ op.stage \notin {"kids", "column"} => thread_cache = Threads

\* A message that was received is reported, or will be by the request in
\* progress; a record still marked missing is that of a message that came
\* early or not at all.
Told ==
    \A m \in arrived : \/ m \in reported \cup early \/ kills > 0
                       \/ op # Idle /\ op.new /\ op.req = m
Unmarked ==
    /\ \A m \in arrived : recs[names[m]].missing => m \in early
    /\ op # Idle /\ op.md.missing => op.md.msg \in early \/ op.md.msg \notin arrived

\* A record is filed under a message that it was said to answer.
FiledIn(rs, said, md, i) ==
    md.parent \notin {0, i} => rs[md.parent].msg \in said[md.msg]
Filed ==
    /\ \A i \in DOMAIN recs : FiledIn(recs, answered, recs[i], i)
    /\ op # Idle => /\ FiledIn(recs, answered, op.md, op.idx)
                    /\ ReplyTo(op.md) \in answered[op.md.msg] \cup {NoMsg}

IInv == Rows /\ Columns /\ Served /\ Counts /\ Cached /\ Told /\ Unmarked /\ Filed
        /\ HangMeansCircular
-----------------------------------------------------------------------------
(* The walk to the root of a thread.                                       *)

\* A non-empty set of natural numbers has a least element.
LEMMA LeastOf == ASSUME NEW S, S \subseteq Nat, S # {} PROVE \E n \in S : \A m \in S : n <= m
  <1>1. PICK n \in S : \A m \in S : <<m, n>> \notin OpToRel(<, Nat)
    BY NatLessThanWellFounded, WFMin
  <1>2. \A m \in S : ~(m < n)
    BY <1>1 DEF OpToRel
  <1> QED  BY <1>2

\* Induction from m up to n, for a set.
LEMMA UpTo ==
    ASSUME NEW m \in Nat, NEW n \in Nat, NEW S, m \in S,
           \A i \in Nat : m <= i /\ i < n /\ i \in S => i + 1 \in S
    PROVE  \A i \in m .. n : i \in S
  <1> DEFINE B == {i \in m .. n : i \notin S}
  <1>1. SUFFICES ASSUME B # {} PROVE FALSE
    OBVIOUS
  <1>2. B \subseteq Nat
    OBVIOUS
  <1>3. PICK i \in B : \A j \in B : i <= j
    BY <1>1, <1>2, LeastOf
  <1>4. i \in m .. n /\ i # m /\ i \notin S
    OBVIOUS
  <1>5. i - 1 \in Nat /\ m <= i - 1 /\ i - 1 < n /\ i - 1 + 1 = i /\ i - 1 \in m .. n
    BY <1>4
  <1>6. i - 1 \in S
    BY <1>3, <1>4, <1>5
  <1> QED  BY <1>4, <1>5, <1>6

\* w climbs n times from p, from parent to parent.
Climbs(w, p, n) == w[0] = p /\ \A i \in 1 .. n : w[i] = Parent(w[i - 1])

LEMMA ClimbExists ==
    ASSUME NEW p, NEW n \in Nat
    PROVE  \E w : Climbs(w, p, n)
  <1> DEFINE S == {k \in Nat : \E w : Climbs(w, p, k)}
  <1>1. 0 \in S
    <2>1. Climbs([i \in {0} |-> p], p, 0)
      BY DEF Climbs
    <2> QED  BY <2>1
  <1>2. ASSUME NEW k \in Nat, k \in S PROVE k + 1 \in S
    <2>1. PICK w : Climbs(w, p, k)
      BY <1>2
    <2> DEFINE new == Parent(w[k])
               f == [i \in 0 .. k + 1 |-> IF i = k + 1 THEN new ELSE w[i]]
    <2>2. f[k + 1] = new /\ \A i \in 0 .. k : f[i] = w[i]
      <3> HIDE DEF new
      <3> QED  OBVIOUS
    <2> HIDE DEF f
    <2>3. f[0] = p
      BY <2>1, <2>2 DEF Climbs
    <2>4. ASSUME NEW i \in 1 .. k + 1 PROVE f[i] = Parent(f[i - 1])
      <3>1. CASE i = k + 1
        <4>1. i - 1 = k /\ k \in 0 .. k
          BY <3>1
        <4>2. f[i - 1] = w[k] /\ f[i] = Parent(w[k])
          BY <2>2, <3>1, <4>1, Zenon
        <4> QED  BY <4>2, Zenon
      <3>2. CASE i # k + 1
        <4>1. i \in 1 .. k /\ i \in 0 .. k /\ i - 1 \in 0 .. k
          BY <3>2
        <4>2. w[i] = Parent(w[i - 1])
          BY <2>1, <4>1 DEF Climbs
        <4>3. f[i] = w[i] /\ f[i - 1] = w[i - 1]
          BY <2>2, <4>1, Zenon
        <4> QED  BY <4>2, <4>3, Zenon
      <3> QED  BY <3>1, <3>2
    <2>5. Climbs(f, p, k + 1)
      BY <2>3, <2>4 DEF Climbs
    <2> QED  BY <2>5
  <1> HIDE DEF S
  <1>3. \A i \in 0 .. n : i \in S
    BY <1>1, <1>2, UpTo
  <1>4. n \in S
    BY <1>3
  <1> QED  BY <1>4 DEF S

\* What the recursive function of Walk computes.
LEMMA WalkClimbs ==
    ASSUME NEW p, Len_ \in Nat
    PROVE  Climbs(Walk(p), p, Len_)
  <1> DEFINE Up(u) == [n \in 0 .. Len_ |-> IF n = 0 THEN p ELSE Parent(u[n - 1])]
  <1>1. PICK w : Climbs(w, p, Len_)
    BY ClimbExists
  <1> DEFINE f == [n \in 0 .. Len_ |-> w[n]]
  <1>2. f = Up(f)
    <2>1. ASSUME NEW n \in 0 .. Len_ PROVE f[n] = Up(f)[n]
      <3>1. f[n] = w[n]
        OBVIOUS
      <3>2. CASE n = 0
        BY <1>1, <3>1, <3>2 DEF Climbs
      <3>3. CASE n # 0
        <4>1. n \in 1 .. Len_ /\ n - 1 \in 0 .. Len_
          BY <3>3
        <4>2. f[n - 1] = w[n - 1]
          BY <4>1
        <4>3. w[n] = Parent(w[n - 1])
          BY <1>1, <4>1 DEF Climbs
        <4>4. Up(f)[n] = Parent(f[n - 1])
          <5> HIDE DEF f
          <5> QED  BY <3>3
        <4> HIDE DEF f, Up
        <4> QED  BY <3>1, <4>2, <4>3, <4>4, Zenon
      <3> QED  BY <3>2, <3>3
    <2> QED  BY <2>1
  <1> HIDE DEF f
  <1>3. Walk(p) = Up(Walk(p))
    <2>1. Walk(p) = CHOOSE u : u = Up(u)
      BY DEF Walk
    <2> HIDE DEF Up
    <2> QED  BY <1>2, <2>1
  <1> DEFINE W == Walk(p)
  <1>4. W = Up(W)
    BY <1>3
  <1> HIDE DEF W
  <1>5. Up(W)[0] = p /\ \A i \in 1 .. Len_ : Up(W)[i] = Parent(W[i - 1])
    OBVIOUS
  <1> HIDE DEF Up
  <1>6. W[0] = p /\ \A i \in 1 .. Len_ : W[i] = Parent(W[i - 1])
    BY <1>4, <1>5, Zenon
  <1> QED  BY <1>6 DEF W, Climbs

-----------------------------------------------------------------------------
(* The records and their keys.                                             *)

\* There are no more records than messages.
LEMMA RowsFit ==
    ASSUME NEW rs, NEW ns, RowsOf(rs, ns)
    PROVE  /\ Cardinality(DOMAIN rs) \in Nat /\ IsFiniteSet(DOMAIN rs)
           /\ DOMAIN rs = 1 .. Cardinality(DOMAIN rs)
           /\ Cardinality(DOMAIN rs) <= Cardinality(Msgs)
           /\ DOMAIN rs \subseteq Index /\ DOMAIN ns \subseteq Msgs
  <1>1. PICK n \in Nat : DOMAIN rs = 1 .. n
    BY DEF RowsOf
  <1>2. IsFiniteSet(1 .. n) /\ Cardinality(1 .. n) = n
    BY FS_Interval
  <1> DEFINE f == [i \in DOMAIN rs |-> rs[i].msg]
  <1>3. f \in Injection(DOMAIN rs, Msgs)
    <2>1. f \in [DOMAIN rs -> Msgs]
      BY DEF RowsOf, Row
    <2>2. \A i, j \in DOMAIN rs : rs[i].msg = rs[j].msg => i = j
      BY DEF RowsOf
    <2> QED  BY <2>1, <2>2 DEF Injection, IsInjective
  <1>4. Cardinality(DOMAIN rs) <= Cardinality(Msgs)
    BY <1>3, FS_Injection, MsgsAssumption
  <1>5. Cardinality(Msgs) \in Nat
    BY FS_CardinalityType, MsgsAssumption
  <1>6. DOMAIN ns \subseteq Msgs
    BY DEF RowsOf, Row
  <1>7. 1 .. n \subseteq Index
    BY <1>1, <1>2, <1>4, <1>5 DEF Index
  <1> QED  BY <1>1, <1>2, <1>4, <1>6, <1>7

LEMMA RowsGrow == ASSUME NEW D, NEW E, D \subseteq E
                  PROVE  Row(D) \subseteq Row(E) /\ Request(D) \subseteq Request(E)
  <1>1. Row(D) \subseteq Row(E)
    BY DEF Row
  <1> QED  BY <1>1 DEF Request

\* append(): a record for a message that has none.
AppendedTo(rs, ns, m, r, k) ==
    /\ RowsOf(Put(rs, k, r), Put(ns, m, k)) /\ k \notin DOMAIN rs
    /\ DOMAIN Put(rs, k, r) = DOMAIN rs \cup {k} /\ Put(rs, k, r)[k] = r
    /\ \A i \in DOMAIN rs : Put(rs, k, r)[i] = rs[i]
    /\ DOMAIN Put(ns, m, k) = DOMAIN ns \cup {m} /\ Put(ns, m, k)[m] = k
    /\ \A x \in DOMAIN ns : Put(ns, m, k)[x] = ns[x]
LEMMA RowsAppend ==
    ASSUME NEW rs, NEW ns, RowsOf(rs, ns), NEW m \in Msgs, m \notin DOMAIN ns,
           NEW r \in Row(DOMAIN rs), r.msg = m, NEW k, k = Cardinality(DOMAIN rs) + 1
    PROVE  AppendedTo(rs, ns, m, r, k)
  <1> DEFINE n == Cardinality(DOMAIN rs)
             rt == Put(rs, k, r)
             nt == Put(ns, m, k)
  <1>1. n \in Nat /\ DOMAIN rs = 1 .. n
    BY RowsFit
  <1> HIDE DEF n
  <1>2. k = n + 1
    BY DEF n
  <1>3. k \notin DOMAIN rs /\ DOMAIN rs \cup {k} = 1 .. (n + 1) /\ n + 1 \in Nat
    BY <1>1, <1>2
  <1>4. DOMAIN rt = DOMAIN rs \cup {k} /\ rt[k] = r /\ \A i \in DOMAIN rs : rt[i] = rs[i]
    BY <1>3 DEF Put
  <1>5. DOMAIN nt = DOMAIN ns \cup {m} /\ nt[m] = k /\ \A x \in DOMAIN ns : nt[x] = ns[x]
    BY DEF Put
  <1> HIDE DEF rt, nt
  <1>6. \A i \in DOMAIN rt : rt[i] \in Row(DOMAIN rt)
    <2>1. Row(DOMAIN rs) \subseteq Row(DOMAIN rt)
      BY <1>4, RowsGrow
    <2> QED  BY <1>4, <2>1 DEF RowsOf
  <1>7. \A x \in DOMAIN nt : nt[x] \in DOMAIN rt /\ rt[nt[x]].msg = x
    BY <1>4, <1>5 DEF RowsOf
  <1>8. \A i \in DOMAIN rt : rt[i].msg \in DOMAIN nt /\ nt[rt[i].msg] = i
    BY <1>4, <1>5 DEF RowsOf
  <1>9. RowsOf(rt, nt)
    BY <1>3, <1>4, <1>6, <1>7, <1>8 DEF RowsOf
  <1> QED  BY <1>3, <1>4, <1>5, <1>9, Zenon DEF rt, nt, AppendedTo

\* __setitem__(): a record is replaced by one of the same message.
LEMMA RowsReplace ==
    ASSUME NEW rs, NEW ns, RowsOf(rs, ns), NEW i \in DOMAIN rs, NEW r \in Row(DOMAIN rs),
           r.msg = rs[i].msg
    PROVE  RowsOf([rs EXCEPT ![i] = r], ns)
  <1> DEFINE rt == [rs EXCEPT ![i] = r]
  <1>1. DOMAIN rt = DOMAIN rs /\ rt[i] = r /\ \A j \in DOMAIN rs : j # i => rt[j] = rs[j]
    OBVIOUS
  <1> HIDE DEF rt
  <1>2. \A j \in DOMAIN rs : rt[j].msg = rs[j].msg
    BY <1>1
  <1>3. RowsOf(rt, ns)
    BY <1>1, <1>2 DEF RowsOf
  <1> QED  BY <1>3 DEF rt

LEMMA ParentInside ==
    ASSUME Rows, NEW i \in DOMAIN recs
    PROVE  Parent(i) \in DOMAIN recs
  BY DEF Rows, RowsOf, Row, Parent

\* The walk stays among the records.
LEMMA WalkInside ==
    ASSUME Rows, NEW p \in DOMAIN recs
    PROVE  /\ Len_ \in Nat /\ \A n \in 0 .. Len_ : Walk(p)[n] \in DOMAIN recs
           /\ Top(p) \in DOMAIN recs /\ OnTheWay(p) \subseteq DOMAIN recs
  <1>1. Len_ \in Nat
    BY RowsFit DEF Rows, Len_
  <1>2. Climbs(Walk(p), p, Len_)
    BY <1>1, WalkClimbs
  <1> DEFINE S == {n \in Nat : Walk(p)[n] \in DOMAIN recs}
  <1>3. 0 \in S
    BY <1>2 DEF Climbs
  <1>4. ASSUME NEW n \in Nat, n < Len_, n \in S PROVE n + 1 \in S
    <2>1. n + 1 \in 1 .. Len_ /\ (n + 1) - 1 = n
      BY <1>1, <1>4
    <2>2. Walk(p)[n + 1] = Parent(Walk(p)[(n + 1) - 1])
      BY <1>2, <2>1 DEF Climbs
    <2>3. Walk(p)[n + 1] = Parent(Walk(p)[n])
      BY <2>1, <2>2, Zenon
    <2>4. Parent(Walk(p)[n]) \in DOMAIN recs
      BY <1>4, ParentInside
    <2> QED  BY <2>3, <2>4
  <1>5. \A n \in 0 .. Len_ : n \in S
    <2> HIDE DEF S
    <2> QED  BY <1>1, <1>3, <1>4, UpTo
  <1>6. \A n \in 0 .. Len_ : Walk(p)[n] \in DOMAIN recs
    BY <1>5
  <1>7. Len_ \in 0 .. Len_
    BY <1>1
  <1> QED  BY <1>1, <1>6, <1>7 DEF Top, OnTheWay

\* A walk that comes to a root stays there.
LEMMA RootsEndWalks ==
    ASSUME Rows, NEW p \in DOMAIN recs, NEW k \in 0 .. Len_, Parent(Walk(p)[k]) = Walk(p)[k]
    PROVE  Ends(p)
  <1> DEFINE w == Walk(p)
             x == w[k]
  <1>1. Len_ \in Nat
    BY WalkInside
  <1>2. Climbs(w, p, Len_)
    BY <1>1, WalkClimbs
  <1> DEFINE S == {n \in Nat : w[n] = x}
  <1>3. k \in S
    BY <1>1
  <1> HIDE DEF w, x
  <1>4. ASSUME NEW n \in Nat, k <= n, n < Len_, n \in S PROVE n + 1 \in S
    <2>1. n + 1 \in 1 .. Len_ /\ (n + 1) - 1 = n
      BY <1>1, <1>4
    <2>2. w[n + 1] = Parent(w[(n + 1) - 1])
      BY <1>2, <2>1 DEF Climbs
    <2>3. w[n + 1] = Parent(w[n])
      BY <2>1, <2>2, Zenon
    <2>4. w[n] = x
      BY <1>4
    <2>5. w[n + 1] = x
      BY <2>3, <2>4, Zenon DEF x, w
    <2> QED  BY <2>5
  <1>5. \A n \in k .. Len_ : n \in S
    <2> HIDE DEF S
    <2> QED  BY <1>1, <1>3, <1>4, UpTo
  <1>6. Len_ \in k .. Len_
    BY <1>1
  <1>7. w[Len_] = x
    BY <1>5, <1>6
  <1>8. Top(p) = x
    BY <1>7, Zenon DEF Top, w
  <1> QED  BY <1>8, Zenon DEF Ends, x, w

\* A walk that never ends goes through a circle of records, each filed under
\* the next because its message answers the message of the next.
LEMMA EndlessIsCircular ==
    ASSUME Rows, \A i \in DOMAIN recs : FiledIn(recs, answered, recs[i], i),
           NEW p \in DOMAIN recs, ~Ends(p)
    PROVE  Circular
  <1> DEFINE w == Walk(p)
  <1>1. Len_ \in Nat /\ \A n \in 0 .. Len_ : w[n] \in DOMAIN recs
    BY WalkInside
  <1>2. Climbs(w, p, Len_)
    BY <1>1, WalkClimbs
  <1>3. \A n \in 0 .. Len_ : Parent(w[n]) # w[n]
    BY RootsEndWalks
  <1> HIDE DEF w
  <1>4. PICK a, b \in 0 .. Len_ : a < b /\ w[a] = w[b]
    <2> DEFINE f == [n \in 0 .. Len_ |-> w[n]]
    <2>1. f \in [0 .. Len_ -> DOMAIN recs]
      BY <1>1
    <2>2. IsFiniteSet(0 .. Len_) /\ Cardinality(0 .. Len_) = Len_ + 1
      BY <1>1, FS_Interval
    <2>3. IsFiniteSet(DOMAIN recs) /\ Cardinality(DOMAIN recs) = Len_
      BY RowsFit DEF Rows, Len_
    <2>4. Cardinality(DOMAIN recs) < Cardinality(0 .. Len_)
      BY <1>1, <2>2, <2>3
    <2>5. PICK x, y \in 0 .. Len_ : x # y /\ f[x] = f[y]
      <3> HIDE DEF f
      <3> QED  BY <2>1, <2>2, <2>3, <2>4, FS_PigeonHole, ZenonT(30)
    <2>6. w[x] = w[y]
      BY <2>5
    <2>7. x < y \/ y < x
      BY <1>1, <2>5
    <2> QED  BY <2>6, <2>7
  <1> DEFINE S == {recs[w[n]].msg : n \in a .. (b - 1)}
  <1>5. a \in a .. (b - 1) /\ a .. (b - 1) \subseteq 0 .. Len_
    BY <1>1, <1>4
  <1>6. S # {}
    BY <1>5
  <1>7. ASSUME NEW i \in DOMAIN recs PROVE recs[i].msg \in Msgs
    BY DEF Rows, RowsOf, Row
  <1>8. S \subseteq Msgs
    BY <1>1, <1>5, <1>7
  <1>9. ASSUME NEW i \in DOMAIN recs, Parent(i) # i
        PROVE  /\ recs[Parent(i)].msg \in answered[recs[i].msg]
               /\ recs[Parent(i)].msg # recs[i].msg
    <2>1. recs[i].parent \notin {0, i} /\ Parent(i) = recs[i].parent
      BY <1>9 DEF Parent
    <2>2. recs[Parent(i)].msg \in answered[recs[i].msg]
      BY <2>1 DEF FiledIn
    <2>3. recs[i].msg \in DOMAIN names /\ names[recs[i].msg] = i
      BY DEF Rows, RowsOf
    <2>5. Parent(i) \in DOMAIN recs
      BY ParentInside
    <2>6. recs[Parent(i)].msg # recs[i].msg
      BY <1>9, <2>3, <2>5 DEF Rows, RowsOf
    <2> QED  BY <2>2, <2>6
  <1>10. ASSUME NEW n \in a .. (b - 1) PROVE recs[Parent(w[n])].msg \in S
    <2>1. n + 1 \in 1 .. Len_ /\ (n + 1) - 1 = n
      BY <1>1, <1>4
    <2>2. w[n + 1] = Parent(w[(n + 1) - 1])
      BY <1>2, <2>1 DEF Climbs
    <2>3. w[n + 1] = Parent(w[n])
      BY <2>1, <2>2, Zenon
    <2>4. CASE n + 1 = b
      <3>1. Parent(w[n]) = w[a]
        BY <1>4, <2>3, <2>4, Zenon
      <3> QED  BY <1>5, <3>1
    <2>5. CASE n + 1 # b
      <3>1. n + 1 \in a .. (b - 1)
        BY <1>1, <1>4, <2>5
      <3> QED  BY <2>3, <3>1
    <2> QED  BY <2>4, <2>5
  <1>11. ASSUME NEW m \in S PROVE answered[m] \cap (S \ {m}) # {}
    <2>1. PICK n \in a .. (b - 1) : m = recs[w[n]].msg
      OBVIOUS
    <2>2. w[n] \in DOMAIN recs /\ Parent(w[n]) # w[n]
      BY <1>1, <1>3, <1>5
    <2>3. recs[Parent(w[n])].msg \in S
      BY <1>10
    <2> HIDE DEF S
    <2> QED  BY <1>9, <2>1, <2>2, <2>3
  <1> HIDE DEF S
  <1> QED  BY <1>6, <1>8, <1>11 DEF Circular

-----------------------------------------------------------------------------
(* The records, the keys and the column of threads.                        *)

\* A step keeps the records of the messages, and their keys.
Kept ==
    /\ Rows'
    /\ DOMAIN recs \subseteq DOMAIN recs'
    /\ \A i \in DOMAIN recs : recs'[i].msg = recs[i].msg
    /\ \A m \in DOMAIN names : m \in DOMAIN names' /\ names'[m] = names[m]

LEMMA Busy == ASSUME op.stage \in Stage PROVE op # Idle
  BY DEF Stage, Idle

LEMMA Lengths ==
    ASSUME IInv
    PROVE  /\ Len_ \in Nat /\ DOMAIN recs = 1 .. Len_ /\ Len_ = Cardinality(DOMAIN recs)
           /\ DOMAIN recs \subseteq Index /\ DOMAIN names \subseteq Msgs /\ 0 \notin DOMAIN recs
  BY RowsFit DEF IInv, Rows, Len_

\* What a message in progress replies to.
LEMMA ReplyType ==
    ASSUME IInv, NEW md \in Row(DOMAIN recs)
    PROVE  ReplyTo(md) \in Msgs \cup {NoMsg}
  BY DEF IInv, Counts, ReplyTo, Row

\* An append.
LEMMA Appended ==
    ASSUME IInv, NEW m \in Msgs, ~Known(m), NEW r \in Row(DOMAIN recs), r.msg = m,
           recs' = Put(recs, Len_ + 1, r), names' = Put(names, m, Len_ + 1)
    PROVE  /\ Kept
           /\ DOMAIN recs' = DOMAIN recs \cup {Len_ + 1} /\ recs'[Len_ + 1] = r
           /\ \A i \in DOMAIN recs : recs'[i] = recs[i]
           /\ DOMAIN names' = DOMAIN names \cup {m} /\ names'[m] = Len_ + 1
           /\ Len_ + 1 \notin DOMAIN recs
  <1> DEFINE k == Len_ + 1
  <1>1. k = Cardinality(DOMAIN recs) + 1
    BY DEF Len_
  <1> HIDE DEF k
  <1>2. RowsOf(recs, names) /\ m \notin DOMAIN names
    BY DEF IInv, Rows, Known
  <1>3. recs' = Put(recs, k, r) /\ names' = Put(names, m, k)
    BY DEF k
  <1>4. AppendedTo(recs, names, m, r, k)
    BY <1>1, <1>2, RowsAppend
  <1>5. /\ RowsOf(recs', names') /\ k \notin DOMAIN recs
        /\ DOMAIN recs' = DOMAIN recs \cup {k} /\ recs'[k] = r
        /\ \A i \in DOMAIN recs : recs'[i] = recs[i]
        /\ DOMAIN names' = DOMAIN names \cup {m} /\ names'[m] = k
        /\ \A x \in DOMAIN names : names'[x] = names[x]
    BY <1>3, <1>4, Zenon DEF AppendedTo
  <1> QED  BY <1>5 DEF Kept, Rows, k

\* A write over a record.
LEMMA Replaced ==
    ASSUME IInv, NEW i \in DOMAIN recs, NEW r \in Row(DOMAIN recs), r.msg = recs[i].msg,
           recs' = [recs EXCEPT ![i] = r], names' = names
    PROVE  /\ Kept /\ DOMAIN recs' = DOMAIN recs /\ recs'[i] = r
           /\ \A j \in DOMAIN recs : j # i => recs'[j] = recs[j]
  <1>1. DOMAIN recs' = DOMAIN recs /\ recs'[i] = r /\ \A j \in DOMAIN recs : j # i => recs'[j] = recs[j]
    OBVIOUS
  <1>2. Rows'
    BY RowsReplace DEF IInv, Rows
  <1>3. \A j \in DOMAIN recs : recs'[j].msg = recs[j].msg
    BY <1>1
  <1> QED  BY <1>1, <1>2, <1>3 DEF Kept

LEMMA Untouched ==
    ASSUME IInv, recs' = recs, names' = names
    PROVE  Kept
  BY DEF IInv, Rows, Kept

LEMMA AddNewRow ==
    ASSUME IInv, NEW m \in Msgs, AddNew(m)
    PROVE  /\ Received(m) \in Row(DOMAIN recs) /\ Received(m).msg = m /\ Received(m).parent = 0
           /\ ~Received(m).missing /\ Received(m).thread = {}
  BY DEF Received, Ghost, Row

LEMMA MakeGhostRow ==
    ASSUME IInv, MakeGhost
    PROVE  /\ ReplyTo(op.md) \in Msgs /\ ~Known(ReplyTo(op.md)) /\ op # Idle
           /\ Ghost(ReplyTo(op.md)) \in Row(DOMAIN recs)
           /\ Ghost(ReplyTo(op.md)).msg = ReplyTo(op.md) /\ Ghost(ReplyTo(op.md)).parent = 0
  <1>1. op # Idle
    BY Busy DEF MakeGhost, Stage
  <1>2. op.md \in Row(DOMAIN recs)
    BY <1>1 DEF IInv, Served, Request
  <1>3. ReplyTo(op.md) \in Msgs
    BY <1>2, ReplyType DEF MakeGhost
  <1>4. ~Known(ReplyTo(op.md))
    BY DEF MakeGhost
  <1> DEFINE r == ReplyTo(op.md)
  <1> HIDE DEF r
  <1>5. r \in Msgs
    BY <1>3 DEF r
  <1>6. Ghost(r) \in Row(DOMAIN recs) /\ Ghost(r).msg = r /\ Ghost(r).parent = 0
    BY <1>5 DEF Ghost, Row
  <1> QED  BY <1>1, <1>3, <1>4, <1>6 DEF r

\* The last record is there when the ghost is ranked.
LEMMA RankGhostRow ==
    ASSUME IInv, RankGhost
    PROVE  /\ op # Idle /\ Len_ \in DOMAIN recs
           /\ [recs[Len_] EXCEPT !.parent = Len_] \in Row(DOMAIN recs)
           /\ [recs[Len_] EXCEPT !.parent = Len_].msg = recs[Len_].msg
           /\ recs' = [recs EXCEPT ![Len_] = [recs[Len_] EXCEPT !.parent = Len_]]
  <1>1. op # Idle
    BY Busy DEF RankGhost, Stage
  <1>2. op.idx \in DOMAIN recs
    BY <1>1 DEF IInv, Served, Request
  <1>3. Len_ \in DOMAIN recs
    BY <1>2, Lengths
  <1>4. recs[Len_] \in Row(DOMAIN recs)
    BY <1>3 DEF IInv, Rows, RowsOf
  <1> DEFINE n == Len_
  <1>5. recs' = [recs EXCEPT ![n].parent = n]
    BY DEF RankGhost
  <1> HIDE DEF n
  <1>6. n \in DOMAIN recs /\ recs[n] \in Row(DOMAIN recs)
    BY <1>3, <1>4 DEF n
  <1>7. [recs[n] EXCEPT !.parent = n] \in Row(DOMAIN recs) /\ [recs[n] EXCEPT !.parent = n].msg = recs[n].msg
    BY <1>6 DEF Row
  <1>8. recs' = [recs EXCEPT ![n] = [recs[n] EXCEPT !.parent = n]]
    BY <1>5, <1>6
  <1> QED  BY <1>1, <1>6, <1>7, <1>8 DEF n

\* The thread that a message joins.
JoinKids == (OnTheWay(op.md.parent) \ {Top(op.md.parent), op.idx}) \cup op.md.thread
JoinThreads == recs[Top(op.md.parent)].thread \cup {op.idx} \cup JoinKids
LEMMA JoinThreadRow ==
    ASSUME IInv, JoinThread
    PROVE  /\ op # Idle /\ Top(op.md.parent) \in DOMAIN recs /\ JoinKids \subseteq DOMAIN recs
           /\ [recs[Top(op.md.parent)] EXCEPT !.thread = JoinThreads] \in Row(DOMAIN recs)
           /\ recs' = [recs EXCEPT ![Top(op.md.parent)] =
                        [recs[Top(op.md.parent)] EXCEPT !.thread = JoinThreads]]
           /\ op' = [op EXCEPT !.stage = AfterKids(JoinKids), !.tid = Top(op.md.parent), !.kids = JoinKids]
  <1>1. op # Idle
    BY Busy DEF JoinThread, Walks, Stage
  <1>2. op.md.parent \in DOMAIN recs /\ op.idx \in DOMAIN recs /\ op.md \in Row(DOMAIN recs)
    BY <1>1 DEF IInv, Served, Request, JoinThread, Walks
  <1> DEFINE t == Top(op.md.parent)
             kids == JoinKids
             all == JoinThreads
  <1>3. t \in DOMAIN recs /\ OnTheWay(op.md.parent) \subseteq DOMAIN recs
    BY <1>2, WalkInside DEF IInv
  <1>4. recs[t] \in Row(DOMAIN recs)
    BY <1>3 DEF IInv, Rows, RowsOf
  <1>5. kids \subseteq DOMAIN recs
    BY <1>2, <1>3 DEF JoinKids, Row
  <1>6. all \subseteq DOMAIN recs
    BY <1>2, <1>4, <1>5 DEF JoinThreads, Row
  <1>7. /\ recs' = [recs EXCEPT ![t].thread = @ \cup {op.idx} \cup kids]
        /\ op' = [op EXCEPT !.stage = AfterKids(kids), !.tid = t, !.kids = kids]
    BY Zenon DEF JoinThread, JoinKids
  <1>8. all = recs[t].thread \cup {op.idx} \cup kids
    BY DEF JoinThreads
  <1> HIDE DEF t, kids, all
  <1>9. recs' = [recs EXCEPT ![t] = [recs[t] EXCEPT !.thread = all]]
    BY <1>3, <1>7, <1>8
  <1>10. [recs[t] EXCEPT !.thread = all] \in Row(DOMAIN recs)
    BY <1>4, <1>6 DEF Row
  <1> QED  BY <1>1, <1>3, <1>5, <1>7, <1>9, <1>10, Zenon DEF t, kids, all

LEMMA MoveKidRow ==
    ASSUME IInv, NEW k \in Index, MoveKid(k)
    PROVE  /\ op # Idle /\ k \in DOMAIN recs
           /\ [recs[k] EXCEPT !.thread = {}] \in Row(DOMAIN recs)
           /\ recs' = [recs EXCEPT ![k] = [recs[k] EXCEPT !.thread = {}]]
  <1>1. op # Idle
    BY Busy DEF MoveKid, Stage
  <1>2. k \in DOMAIN recs
    BY <1>1 DEF IInv, Served, Request, MoveKid
  <1>3. recs[k] \in Row(DOMAIN recs)
    BY <1>2 DEF IInv, Rows, RowsOf
  <1> QED  BY <1>1, <1>2, <1>3 DEF MoveKid, Row

LEMMA SaveRow ==
    ASSUME IInv, Save
    PROVE  op # Idle /\ op.idx \in DOMAIN recs /\ op.md \in Row(DOMAIN recs) /\ op.md.msg = recs[op.idx].msg
  <1>1. op # Idle
    BY Busy DEF Save, Stage
  <1> QED  BY <1>1 DEF IInv, Served, Request

LEMMA RowsStep == ASSUME IInv, Next PROVE Kept
  <1>1. ASSUME NEW m \in Msgs, AddNew(m) PROVE Kept
    BY <1>1, AddNewRow, Appended DEF AddNew
  <1>2. ASSUME MakeGhost PROVE Kept
    <2> DEFINE r == ReplyTo(op.md)
    <2>1. recs' = Put(recs, Len_ + 1, Ghost(r)) /\ names' = Put(names, r, Len_ + 1)
      BY <1>2 DEF MakeGhost
    <2>2. r \in Msgs /\ ~Known(r) /\ Ghost(r) \in Row(DOMAIN recs) /\ Ghost(r).msg = r
      BY <1>2, MakeGhostRow
    <2> HIDE DEF r
    <2> QED  BY <2>1, <2>2, Appended
  <1>3. ASSUME RankGhost PROVE Kept
    BY <1>3, RankGhostRow, Replaced DEF RankGhost
  <1>4. ASSUME JoinThread PROVE Kept
    <2> DEFINE t == Top(op.md.parent)
               r == [recs[t] EXCEPT !.thread = JoinThreads]
    <2>1. t \in DOMAIN recs /\ r \in Row(DOMAIN recs) /\ recs' = [recs EXCEPT ![t] = r]
      BY <1>4, JoinThreadRow
    <2>2. recs[t] \in Row(DOMAIN recs)
      BY <2>1 DEF IInv, Rows, RowsOf
    <2> HIDE DEF t
    <2>3. r.msg = recs[t].msg
      BY <2>2 DEF Row
    <2>4. names' = names
      BY <1>4 DEF JoinThread
    <2> HIDE DEF r
    <2> QED  BY <2>1, <2>3, <2>4, Replaced
  <1>5. ASSUME NEW k \in Index, MoveKid(k) PROVE Kept
    <2> DEFINE r == [recs[k] EXCEPT !.thread = {}]
    <2>1. k \in DOMAIN recs /\ r \in Row(DOMAIN recs) /\ recs' = [recs EXCEPT ![k] = r]
      BY <1>5, MoveKidRow
    <2>2. recs[k] \in Row(DOMAIN recs)
      BY <2>1 DEF IInv, Rows, RowsOf
    <2>3. r.msg = recs[k].msg /\ names' = names
      BY <1>5, <2>2 DEF Row, MoveKid
    <2> HIDE DEF r
    <2> QED  BY <2>1, <2>3, Replaced
  <1>6. ASSUME Save PROVE Kept
    BY <1>6, SaveRow, Replaced DEF Save
  <1>7. ASSUME UNCHANGED <<recs, names>> PROVE Kept
    BY <1>7, Untouched
  <1> QED
    BY <1>1, <1>2, <1>3, <1>4, <1>5, <1>6, <1>7
    DEF Next, Rank, AddAgain, Annotate, FindParent, StayInThread, IsRoot, Settled, Hang,
        SetColumn, MakeThreadCache, Kill, store

\* The thread a record is read back with is a record.
LEMMA ThreadIdInside == ASSUME IInv, NEW i \in DOMAIN recs PROVE ThreadId(i) \in DOMAIN recs
  BY DEF IInv, Columns, ThreadId

\* A write in the column of threads.
LEMMA ColumnPut ==
    ASSUME IInv, Kept, NEW i \in DOMAIN recs, NEW t \in DOMAIN recs, thread_ids' = Put(thread_ids, i, t)
    PROVE  Columns'
  <1>1. DOMAIN thread_ids' = DOMAIN thread_ids \cup {i}
    BY DEF Put
  <1>2. \A j \in DOMAIN thread_ids' : thread_ids'[j] \in DOMAIN recs
    BY DEF Put, IInv, Columns
  <1> QED  BY <1>1, <1>2 DEF Kept, IInv, Columns

LEMMA ColumnsStep == ASSUME IInv, Next PROVE Columns'
  <1>0. Kept
    BY RowsStep
  <1>1. ASSUME RankGhost PROVE Columns'
    BY <1>0, <1>1, RankGhostRow, ColumnPut DEF RankGhost
  <1>2. ASSUME NEW k \in Index, MoveKid(k) PROVE Columns'
    <2>1. k \in DOMAIN recs /\ op # Idle
      BY <1>2, MoveKidRow
    <2>2. op.tid \in DOMAIN recs
      BY <1>2, <2>1 DEF IInv, Served, MoveKid
    <2> QED  BY <1>0, <1>2, <2>1, <2>2, ColumnPut DEF MoveKid
  <1>3. ASSUME SetColumn PROVE Columns'
    <2>1. op # Idle
      BY <1>3, Busy DEF SetColumn, Stage
    <2>2. op.tid \in DOMAIN recs /\ op.idx \in DOMAIN recs
      BY <1>3, <2>1 DEF IInv, Served, Request, SetColumn
    <2> QED  BY <1>0, <1>3, <2>2, ColumnPut DEF SetColumn
  <1>4. ASSUME UNCHANGED thread_ids PROVE Columns'
    BY <1>0, <1>4 DEF IInv, Columns, Kept
  <1> QED
    BY <1>1, <1>2, <1>3, <1>4
    DEF Next, Rank, AddNew, AddAgain, Annotate, FindParent, MakeGhost, StayInThread, IsRoot, Settled,
        JoinThread, Hang, Save, MakeThreadCache, Kill, store

-----------------------------------------------------------------------------
(* The request in progress.                                                *)

\* A request of m starts, on the record i.
Starts(m, i, md, tid, new) ==
    /\ op' \in Request(DOMAIN recs') /\ op' # Idle /\ op'.stage = "parent" /\ op'.req = m
    /\ op'.idx = i /\ op'.md = md /\ op'.tid = tid /\ op'.new = new

LEMMA BeginStarts ==
    ASSUME NEW m \in Msgs, NEW md \in Row(DOMAIN recs'),
           NEW tid \in DOMAIN recs' \cup {0}, NEW new \in BOOLEAN, NEW i \in DOMAIN recs',
           i = IF new THEN Len_ + 1 ELSE names[m], Begin(m, md, tid, new)
    PROVE  Starts(m, i, md, tid, new)
  <1> DEFINE add == tid = 0
  <1>1. op' = [stage |-> "parent", req |-> m, add |-> add, new |-> new,
               idx |-> i, md |-> md, tid |-> tid, kids |-> {}]
    BY DEF Begin
  <1>2. add \in BOOLEAN
    OBVIOUS
  <1> HIDE DEF add
  <1> QED  BY <1>1, <1>2 DEF Starts, Request, Stage, Idle

\* It says what m answers.
Says(m, md) ==
    /\ answered' \in [Msgs -> SUBSET Msgs]
    /\ \A x \in Msgs : answered[x] \subseteq answered'[x]
    /\ \A x \in Msgs \ {m} : answered'[x] = answered[x]
    /\ ReplyTo(md) \in answered'[m] \cup {NoMsg}
    /\ changed \subseteq changed'
    /\ changed' = {} => answered'[m] = {ReplyTo(md)} \ {NoMsg}

LEMMA BeginSays ==
    ASSUME IInv, NEW m \in Msgs, NEW D, NEW md \in Row(D), NEW tid, NEW new, Begin(m, md, tid, new)
    PROVE  Says(m, md)
  <1>1. PICK r : r = ReplyTo(md)
    OBVIOUS
  <1>2. r \in Msgs \cup {NoMsg}
    BY <1>1 DEF IInv, Counts, ReplyTo, Row
  <1>3. /\ answered' = [answered EXCEPT ![m] = @ \cup ({r} \ {NoMsg})]
        /\ changed' = IF answered[m] \subseteq {r} THEN changed ELSE changed \cup {m}
    BY <1>1 DEF Begin, Note
  <1>4. answered \in [Msgs -> SUBSET Msgs] /\ NoMsg \notin Msgs
    BY MsgsAssumption DEF IInv, Counts
  <1>5. /\ answered' \in [Msgs -> SUBSET Msgs]
        /\ \A x \in Msgs : answered[x] \subseteq answered'[x]
        /\ \A x \in Msgs \ {m} : answered'[x] = answered[x]
        /\ r \in answered'[m] \cup {NoMsg}
        /\ changed \subseteq changed'
        /\ changed' = {} => answered'[m] = {r} \ {NoMsg}
    BY <1>2, <1>3, <1>4
  <1> QED  BY <1>1, <1>5 DEF Says

\* The steps that begin a request.
LEMMA AddNewStarts ==
    ASSUME IInv, NEW m \in Msgs, AddNew(m)
    PROVE  /\ Starts(m, Len_ + 1, Received(m), 0, TRUE)
           /\ DOMAIN recs' = DOMAIN recs \cup {Len_ + 1} /\ recs'[Len_ + 1] = Received(m)
           /\ \A i \in DOMAIN recs : recs'[i] = recs[i]
           /\ DOMAIN names' = DOMAIN names \cup {m} /\ names'[m] = Len_ + 1
           /\ Says(m, Received(m))
  <1>1. Received(m) \in Row(DOMAIN recs) /\ Received(m).msg = m
    BY AddNewRow
  <1>2. /\ DOMAIN recs' = DOMAIN recs \cup {Len_ + 1} /\ recs'[Len_ + 1] = Received(m)
        /\ \A i \in DOMAIN recs : recs'[i] = recs[i]
        /\ DOMAIN names' = DOMAIN names \cup {m} /\ names'[m] = Len_ + 1
    BY <1>1, Appended DEF AddNew
  <1>3. Received(m) \in Row(DOMAIN recs')
    BY <1>1, <1>2, RowsGrow
  <1>4. Begin(m, Received(m), 0, TRUE)
    BY DEF AddNew
  <1>5. Len_ + 1 \in DOMAIN recs'
    BY <1>2
  <1>6. Starts(m, Len_ + 1, Received(m), 0, TRUE)
    BY <1>3, <1>4, <1>5, BeginStarts
  <1>7. Says(m, Received(m))
    BY <1>3, <1>4, BeginSays
  <1> QED  BY <1>2, <1>6, <1>7

\* A known message has a record.
LEMMA KnownRow ==
    ASSUME IInv, NEW m, Known(m)
    PROVE  /\ names[m] \in DOMAIN recs /\ recs[names[m]] \in Row(DOMAIN recs)
           /\ recs[names[m]].msg = m /\ m \in Msgs
  BY DEF IInv, Rows, RowsOf, Known, Row

LEMMA AddAgainStarts ==
    ASSUME IInv, NEW m \in Msgs, AddAgain(m)
    PROVE  \E md : /\ Starts(m, names[m], md, 0, FALSE) /\ md.msg = m /\ md.parent = 0
                   /\ md.missing = recs[names[m]].missing /\ Says(m, md)
  <1> DEFINE om == recs[names[m]]
             md == Merged(Received(m), om)
  <1>1. names[m] \in DOMAIN recs /\ om \in Row(DOMAIN recs) /\ om.msg = m
    BY KnownRow DEF AddAgain
  <1>2. recs' = recs
    BY DEF AddAgain, store
  <1>3. Begin(m, md, 0, FALSE)
    BY DEF AddAgain
  <1> HIDE DEF om
  <1>4. md \in Row(DOMAIN recs) /\ md.msg = m /\ md.parent = 0 /\ md.missing = om.missing
    BY <1>1 DEF Merged, Received, Ghost, Row
  <1> HIDE DEF md
  <1>5. Starts(m, names[m], md, 0, FALSE)
    BY <1>1, <1>2, <1>3, <1>4, BeginStarts
  <1>6. Says(m, md)
    BY <1>3, <1>4, BeginSays
  <1> QED  BY <1>4, <1>5, <1>6 DEF om

LEMMA AnnotateStarts ==
    ASSUME IInv, NEW m \in Msgs, NEW dsn \in Msgs \cup {NoMsg}, Annotate(m, dsn)
    PROVE  \E md : /\ Starts(m, names[m], md, ThreadId(names[m]), FALSE) /\ md.msg = m
                   /\ md.missing = recs[names[m]].missing /\ md.parent = recs[names[m]].parent
                   /\ Says(m, md)
  <1> DEFINE om == recs[names[m]]
             md == [om EXCEPT !.dsn = dsn]
             tid == ThreadId(names[m])
  <1>1. names[m] \in DOMAIN recs /\ om \in Row(DOMAIN recs) /\ om.msg = m
    BY KnownRow DEF Annotate
  <1>2. recs' = recs
    BY DEF Annotate, store
  <1>3. Begin(m, md, tid, FALSE)
    BY DEF Annotate
  <1>4. tid \in DOMAIN recs
    BY <1>1, ThreadIdInside
  <1> HIDE DEF om, tid
  <1>5. /\ md \in Row(DOMAIN recs) /\ md.msg = m /\ md.missing = om.missing /\ md.parent = om.parent
    BY <1>1 DEF Row
  <1> HIDE DEF md
  <1>6. Starts(m, names[m], md, tid, FALSE)
    BY <1>1, <1>2, <1>3, <1>4, <1>5, BeginStarts
  <1>7. Says(m, md)
    BY <1>3, <1>5, BeginSays
  <1> QED  BY <1>5, <1>6, <1>7 DEF om, tid

\* The request in progress goes on, to stage s.
GoesOn(s) ==
    /\ op # Idle /\ op \in Request(DOMAIN recs)
    /\ op' # Idle /\ op' \in Request(DOMAIN recs) /\ op'.stage = s
    /\ op'.req = op.req /\ op'.new = op.new /\ op'.idx = op.idx

LEMMA Working == ASSUME IInv, op.stage \in Stage PROVE op # Idle /\ op \in Request(DOMAIN recs)
  BY Busy DEF IInv, Served

LEMMA StageGoesOn ==
    ASSUME IInv, op.stage \in Stage, NEW s \in Stage, op' = [op EXCEPT !.stage = s]
    PROVE  GoesOn(s) /\ op'.md = op.md /\ op'.tid = op.tid
  <1>1. op # Idle /\ op \in Request(DOMAIN recs)
    BY Working
  <1> QED  BY <1>1 DEF GoesOn, Request, Idle, Stage

\* What a record is filed under.
FoundParent == IF ~Orphan THEN op.md.parent
               ELSE IF ReplyTo(op.md) = NoMsg THEN op.idx ELSE names[ReplyTo(op.md)]
LEMMA FindParentGoesOn ==
    ASSUME IInv, FindParent
    PROVE  /\ GoesOn("root") /\ FoundParent \in DOMAIN recs
           /\ op'.md = [op.md EXCEPT !.parent = FoundParent] /\ op'.tid = op.tid
           /\ op.md \in Row(DOMAIN recs)
  <1>1. op # Idle /\ op \in Request(DOMAIN recs)
    BY Working DEF FindParent, Stage
  <1>2. op.md \in Row(DOMAIN recs) /\ op.idx \in DOMAIN recs
    BY <1>1 DEF Request
  <1>3. FoundParent \in DOMAIN recs
    <2>1. CASE ~Orphan
      BY <1>2, <2>1 DEF FoundParent, Orphan, Row
    <2>2. CASE Orphan /\ ReplyTo(op.md) = NoMsg
      BY <1>2, <2>2 DEF FoundParent
    <2>3. CASE Orphan /\ ReplyTo(op.md) # NoMsg
      <3>1. Known(ReplyTo(op.md))
        BY <2>3 DEF FindParent
      <3> QED  BY <2>3, <3>1, KnownRow DEF FoundParent
    <2> QED  BY <2>1, <2>2, <2>3
  <1> DEFINE p == FoundParent
  <1>4. op' = [op EXCEPT !.stage = "root", !.md.parent = p]
    BY DEF FindParent, FoundParent
  <1> HIDE DEF p
  <1>5. p \in DOMAIN recs
    BY <1>3 DEF p
  <1> DEFINE md == [op.md EXCEPT !.parent = p]
  <1>6. op' = [op EXCEPT !.stage = "root", !.md = md]
    BY <1>1, <1>4 DEF Request
  <1>7. md \in Row(DOMAIN recs)
    BY <1>2, <1>5 DEF Row
  <1> HIDE DEF md
  <1>8. GoesOn("root") /\ op'.md = md /\ op'.tid = op.tid
    BY <1>1, <1>6, <1>7 DEF GoesOn, Request, Idle, Stage
  <1> QED  BY <1>2, <1>5, <1>8 DEF md, p

LEMMA SettledGoesOn ==
    ASSUME IInv, op.stage \in Stage, NEW t \in DOMAIN recs, Settled(t)
    PROVE  GoesOn("column") /\ op'.md = op.md /\ op'.tid = t
  <1>1. op # Idle /\ op \in Request(DOMAIN recs)
    BY Working
  <1> QED  BY <1>1 DEF Settled, GoesOn, Request, Idle, Stage

LEMMA JoinThreadGoesOn ==
    ASSUME IInv, JoinThread
    PROVE  /\ GoesOn(AfterKids(JoinKids)) /\ op'.md = op.md /\ op'.tid = Top(op.md.parent)
           /\ op'.tid \in DOMAIN recs /\ op'.stage \in {"kids", "column"}
  <1> DEFINE t == Top(op.md.parent)
             kids == JoinKids
             s == AfterKids(kids)
  <1>1. /\ t \in DOMAIN recs /\ kids \subseteq DOMAIN recs
        /\ op' = [op EXCEPT !.stage = s, !.tid = t, !.kids = kids]
    BY JoinThreadRow
  <1>2. op # Idle /\ op \in Request(DOMAIN recs)
    BY Working DEF JoinThread, Walks, Stage
  <1>3. s \in {"kids", "column"}
    BY DEF AfterKids
  <1> HIDE DEF t, kids, s
  <1>4. GoesOn(s) /\ op'.md = op.md /\ op'.tid = t
    BY <1>1, <1>2, <1>3 DEF GoesOn, Request, Idle, Stage
  <1> QED  BY <1>1, <1>3, <1>4 DEF GoesOn, t, kids, s

LEMMA MoveKidGoesOn ==
    ASSUME IInv, NEW k \in Index, MoveKid(k)
    PROVE  /\ GoesOn(AfterKids(op.kids \ {k})) /\ op'.md = op.md /\ op'.tid = op.tid
           /\ op'.stage \in {"kids", "column"}
  <1> DEFINE kids == op.kids \ {k}
             s == AfterKids(kids)
  <1>1. op # Idle /\ op \in Request(DOMAIN recs)
    BY Working DEF MoveKid, Stage
  <1>2. kids \subseteq DOMAIN recs
    BY <1>1 DEF Request
  <1>3. s \in {"kids", "column"}
    BY DEF AfterKids
  <1>4. op' = [op EXCEPT !.stage = s, !.kids = kids]
    BY DEF MoveKid
  <1> HIDE DEF kids, s
  <1>5. GoesOn(s) /\ op'.md = op.md /\ op'.tid = op.tid
    BY <1>1, <1>2, <1>3, <1>4 DEF GoesOn, Request, Idle, Stage
  <1> QED  BY <1>3, <1>5 DEF GoesOn, kids, s

\* A request that goes on works on the same record.
LEMMA ServedOn ==
    ASSUME IInv, Kept, NEW s, GoesOn(s), op'.md.msg = op.md.msg,
           s \notin {"parent", "ghost"} => op'.md.parent \in DOMAIN recs,
           s \in {"kids", "column", "save"} => op'.tid \in DOMAIN recs
    PROVE  Served'
  <1>1. op' \in Request(DOMAIN recs')
    BY RowsGrow DEF Kept, GoesOn
  <1>2. op.idx \in DOMAIN recs /\ op.md.msg = recs[op.idx].msg
    BY DEF GoesOn, Request, IInv, Served
  <1>3. op'.md.msg = recs'[op'.idx].msg
    BY <1>2 DEF GoesOn, Kept
  <1> QED  BY <1>1, <1>3 DEF Served, Kept, GoesOn

LEMMA ServedStart ==
    ASSUME NEW m, NEW i, NEW md, NEW tid, NEW new, Starts(m, i, md, tid, new), md.msg = recs'[i].msg
    PROVE  Served'
  BY DEF Starts, Served

LEMMA ServedStep == ASSUME IInv, Next PROVE Served'
  <1>0. Kept
    BY RowsStep
  <1>1. ASSUME NEW m \in Msgs, AddNew(m) PROVE Served'
    BY <1>1, AddNewStarts, ServedStart
  <1>2. ASSUME NEW m \in Msgs, AddAgain(m) PROVE Served'
    <2>1. PICK md : Starts(m, names[m], md, 0, FALSE) /\ md.msg = m
      BY <1>2, AddAgainStarts
    <2>2. recs'[names[m]].msg = m
      BY <1>2, KnownRow DEF AddAgain, store
    <2> QED  BY <2>1, <2>2, ServedStart
  <1>3. ASSUME NEW m \in Msgs, NEW dsn \in Msgs \cup {NoMsg}, Annotate(m, dsn) PROVE Served'
    <2> DEFINE tid == ThreadId(names[m])
    <2>1. PICK md : Starts(m, names[m], md, tid, FALSE) /\ md.msg = m
      BY <1>3, AnnotateStarts
    <2>2. recs'[names[m]].msg = m
      BY <1>3, KnownRow DEF Annotate, store
    <2> HIDE DEF tid
    <2> QED  BY <2>1, <2>2, ServedStart
  <1>4. ASSUME FindParent PROVE Served'
    <2> DEFINE p == FoundParent
    <2>1. /\ GoesOn("root") /\ p \in DOMAIN recs /\ op'.md = [op.md EXCEPT !.parent = p]
          /\ op.md \in Row(DOMAIN recs)
      BY <1>4, FindParentGoesOn
    <2> HIDE DEF p
    <2>2. op'.md.msg = op.md.msg /\ op'.md.parent = p
      BY <2>1 DEF Row
    <2> QED  BY <1>0, <2>1, <2>2, ServedOn
  <1>5. ASSUME MakeGhost PROVE Served'
    BY <1>0, <1>5, StageGoesOn, ServedOn DEF MakeGhost, Stage
  <1>6. ASSUME RankGhost PROVE Served'
    BY <1>0, <1>6, StageGoesOn, ServedOn DEF RankGhost, Stage
  <1>7. ASSUME op.stage = "root", NEW t \in DOMAIN recs, Settled(t) PROVE Served'
    <2>1. GoesOn("column") /\ op'.md = op.md /\ op'.tid = t
      BY <1>7, SettledGoesOn DEF Stage
    <2>2. op.md.parent \in DOMAIN recs
      BY <1>7, <2>1 DEF GoesOn, IInv, Served
    <2> QED  BY <1>0, <2>1, <2>2, ServedOn
  <1>8. ASSUME StayInThread PROVE Served'
    <2>1. op \in Request(DOMAIN recs)
      BY <1>8, Working DEF StayInThread, Stage
    <2>2. op.tid \in DOMAIN recs
      BY <1>8, <2>1 DEF StayInThread, Request
    <2> QED  BY <1>7, <1>8, <2>2 DEF StayInThread
  <1>9. ASSUME IsRoot PROVE Served'
    <2>1. op \in Request(DOMAIN recs)
      BY <1>9, Working DEF IsRoot, Stage
    <2>2. op.idx \in DOMAIN recs
      BY <2>1 DEF Request
    <2> QED  BY <1>7, <1>9, <2>2 DEF IsRoot
  <1>10. ASSUME JoinThread PROVE Served'
    <2>1. op.md.parent \in DOMAIN recs
      BY <1>10, JoinThreadRow DEF JoinThread, Walks, IInv, Served
    <2> QED  BY <1>0, <1>10, <2>1, JoinThreadGoesOn, ServedOn
  <1>11. ASSUME Hang PROVE Served'
    <2>1. GoesOn("hung") /\ op'.md = op.md
      BY <1>11, StageGoesOn DEF Hang, Walks, Stage
    <2>2. op.md.parent \in DOMAIN recs
      BY <1>11, <2>1 DEF Hang, Walks, GoesOn, IInv, Served
    <2> QED  BY <1>0, <2>1, <2>2, ServedOn
  <1>12. ASSUME NEW k \in Index, MoveKid(k) PROVE Served'
    <2> DEFINE s == AfterKids(op.kids \ {k})
    <2>1. GoesOn(s) /\ op'.md = op.md /\ op'.tid = op.tid
      BY <1>12, MoveKidGoesOn
    <2> HIDE DEF s
    <2>2. op.md.parent \in DOMAIN recs /\ op.tid \in DOMAIN recs
      BY <1>12, <2>1 DEF MoveKid, GoesOn, IInv, Served
    <2> QED  BY <1>0, <2>1, <2>2, ServedOn
  <1>13. ASSUME SetColumn PROVE Served'
    <2>1. GoesOn("save") /\ op'.md = op.md /\ op'.tid = op.tid
      BY <1>13, StageGoesOn DEF SetColumn, Stage
    <2>2. op.md.parent \in DOMAIN recs /\ op.tid \in DOMAIN recs
      BY <1>13, <2>1 DEF SetColumn, GoesOn, IInv, Served
    <2> QED  BY <1>0, <2>1, <2>2, ServedOn
  <1>14. ASSUME op' = Idle PROVE Served'
    BY <1>14 DEF Served
  <1> QED
    BY <1>1, <1>2, <1>3, <1>4, <1>5, <1>6, <1>8, <1>9, <1>10, <1>11, <1>12, <1>13, <1>14
    DEF Next, Rank, Save, MakeThreadCache, Kill

\* So it does in each step of _rank(), but the last.
GoingOn ==
    /\ \E s : GoesOn(s)
    /\ UNCHANGED irt /\ UNCHANGED history
    /\ FindParent \/ op'.md = op.md
    /\ op'.stage = "hung" => Hang
LEMMA RankGoesOn == ASSUME IInv, Rank, ~Save PROVE GoingOn
  <1>1. CASE FindParent
    BY <1>1, FindParentGoesOn DEF FindParent, GoingOn, GoesOn
  <1>2. CASE MakeGhost
    BY <1>2, StageGoesOn DEF MakeGhost, Stage, GoingOn, GoesOn
  <1>3. CASE RankGhost
    BY <1>3, StageGoesOn DEF RankGhost, Stage, GoingOn, GoesOn
  <1>4. CASE StayInThread
    <2>1. op \in Request(DOMAIN recs)
      BY <1>4, Working DEF StayInThread, Stage
    <2>2. op.tid \in DOMAIN recs
      BY <1>4, <2>1 DEF StayInThread, Request
    <2>3. GoesOn("column") /\ op'.md = op.md
      BY <1>4, <2>2, SettledGoesOn DEF StayInThread, Stage
    <2> QED  BY <1>4, <2>3 DEF StayInThread, Settled, GoingOn, GoesOn
  <1>5. CASE IsRoot
    <2>1. op \in Request(DOMAIN recs)
      BY <1>5, Working DEF IsRoot, Stage
    <2>2. op.idx \in DOMAIN recs
      BY <2>1 DEF Request
    <2>3. GoesOn("column") /\ op'.md = op.md
      BY <1>5, <2>2, SettledGoesOn DEF IsRoot, Stage
    <2> QED  BY <1>5, <2>3 DEF IsRoot, Settled, GoingOn, GoesOn
  <1>6. CASE JoinThread
    BY <1>6, JoinThreadGoesOn DEF JoinThread, GoingOn, GoesOn
  <1>7. CASE Hang
    BY <1>7, StageGoesOn DEF Hang, Walks, Stage, GoingOn, GoesOn
  <1>8. CASE SetColumn
    BY <1>8, StageGoesOn DEF SetColumn, Stage, GoingOn, GoesOn
  <1>9. ASSUME NEW k \in Index, MoveKid(k) PROVE GoingOn
    BY <1>9, MoveKidGoesOn DEF MoveKid, GoingOn, GoesOn
  <1> QED  BY <1>1, <1>2, <1>3, <1>4, <1>5, <1>6, <1>7, <1>8, <1>9 DEF Rank

LEMMA CountsStep == ASSUME IInv, Next PROVE Counts'
  <1>0. Kept
    BY RowsStep
  <1>1. ASSUME NEW m \in Msgs, AddNew(m) PROVE Counts'
    <2>1. m \in DOMAIN names' /\ op'.req = m /\ answered' \in [Msgs -> SUBSET Msgs]
      BY <1>1, AddNewStarts DEF Starts, Says
    <2>2. arrived' = arrived \cup {m} /\ UNCHANGED <<irt, early, reported, kills>>
      BY <1>1 DEF AddNew
    <2> QED  BY <1>0, <2>1, <2>2 DEF IInv, Counts, Kept
  <1>2. ASSUME NEW m \in Msgs, AddAgain(m) PROVE Counts'
    <2>1. PICK md : Starts(m, names[m], md, 0, FALSE) /\ Says(m, md)
      BY <1>2, AddAgainStarts
    <2>2. /\ m \in DOMAIN names /\ arrived' = arrived \cup {m} /\ UNCHANGED <<irt, reported, kills>>
          /\ early' \subseteq early \cup {m}
      BY <1>2 DEF AddAgain, Known
    <2> QED  BY <1>0, <2>1, <2>2 DEF IInv, Counts, Kept, Starts, Says
  <1>3. ASSUME NEW m \in Msgs, NEW dsn \in Msgs \cup {NoMsg}, Annotate(m, dsn) PROVE Counts'
    <2> DEFINE tid == ThreadId(names[m])
    <2>1. PICK md : Starts(m, names[m], md, tid, FALSE) /\ Says(m, md)
      BY <1>3, AnnotateStarts
    <2>2. UNCHANGED <<irt, early, arrived, reported, kills>>
      BY <1>3 DEF Annotate
    <2> HIDE DEF tid
    <2> QED  BY <1>0, <2>1, <2>2 DEF IInv, Counts, Kept, Starts, Says
  <1>4. ASSUME NEW s, GoesOn(s), UNCHANGED irt, UNCHANGED history PROVE Counts'
    BY <1>0, <1>4 DEF IInv, Counts, Kept, GoesOn, history
  <1>5. ASSUME Save PROVE Counts'
    <2>1. op # Idle
      BY <1>5, SaveRow
    <2> QED  BY <1>0, <1>5, <2>1 DEF Save, IInv, Counts, Kept
  <1>6. ASSUME MakeThreadCache PROVE Counts'
    BY <1>0, <1>6 DEF MakeThreadCache, IInv, Counts, Kept, history, store
  <1>7. ASSUME Kill PROVE Counts'
    BY <1>0, <1>7 DEF Kill, IInv, Counts, Kept
  <1> QED  BY <1>1, <1>2, <1>3, <1>4, <1>5, <1>6, <1>7, RankGoesOn DEF Next, GoingOn

-----------------------------------------------------------------------------
(* The cache of threads.                                                   *)

LEMMA CachedStep == ASSUME IInv, Next PROVE Cached'
  <1>1. ASSUME thread_cache' = NoCache PROVE Cached'
    BY <1>1 DEF Cached
  <1>2. ASSUME op'.stage \in {"kids", "column"} PROVE Cached'
    BY <1>2 DEF Cached
  <1>3. ASSUME UNCHANGED thread_ids, thread_cache' = Threads PROVE Cached'
    BY <1>3 DEF Cached, Threads
  <1>4. ASSUME UNCHANGED <<thread_ids, thread_cache>>, op.stage \notin {"kids", "column"} PROVE Cached'
    <2>1. thread_cache # NoCache => thread_cache = Threads
      BY <1>4 DEF IInv, Cached
    <2>2. Threads' = Threads
      BY <1>4 DEF Threads
    <2> QED  BY <1>4, <2>1, <2>2 DEF Cached
  <1>5. op = Idle => op.stage \notin {"kids", "column"}
    BY DEF Idle
  <1>6. ASSUME NEW m \in Msgs, AddNew(m) \/ AddAgain(m) PROVE Cached'
    BY <1>4, <1>5, <1>6 DEF AddNew, AddAgain, store
  <1>7. ASSUME NEW m \in Msgs, NEW dsn \in Msgs \cup {NoMsg}, Annotate(m, dsn) PROVE Cached'
    BY <1>4, <1>5, <1>7 DEF Annotate, store
  <1>8. CASE FindParent \/ MakeGhost \/ StayInThread \/ IsRoot \/ Hang \/ Save
    BY <1>4, <1>8 DEF FindParent, MakeGhost, StayInThread, IsRoot, Settled, Hang, Walks, Save, store
  <1>9. CASE RankGhost \/ SetColumn \/ Kill
    BY <1>1, <1>9 DEF RankGhost, SetColumn, Kill
  <1>10. CASE JoinThread
    BY <1>2, <1>10, JoinThreadGoesOn
  <1>11. ASSUME NEW k \in Index, MoveKid(k) PROVE Cached'
    BY <1>2, <1>11, MoveKidGoesOn
  <1>12. CASE MakeThreadCache
    BY <1>3, <1>12 DEF MakeThreadCache, store
  <1> QED  BY <1>6, <1>7, <1>8, <1>9, <1>10, <1>11, <1>12 DEF Next, Rank

-----------------------------------------------------------------------------
(* The reports and the marks.                                              *)

LEMMA ToldStep == ASSUME IInv, Next PROVE Told'
  <1>1. ASSUME NEW m \in Msgs, AddNew(m) PROVE Told'
    <2>1. op' # Idle /\ op'.new = TRUE /\ op'.req = m
      BY <1>1, AddNewStarts DEF Starts
    <2>2. op = Idle /\ arrived' = arrived \cup {m} /\ UNCHANGED <<early, reported, kills>>
      BY <1>1 DEF AddNew
    <2> QED  BY <2>1, <2>2 DEF IInv, Told
  <1>2. ASSUME NEW m \in Msgs, AddAgain(m) PROVE Told'
    <2>1. /\ op = Idle /\ arrived' = arrived \cup {m} /\ UNCHANGED <<reported, kills>>
          /\ early' = IF m \in arrived THEN early ELSE early \cup {m}
      BY <1>2 DEF AddAgain
    <2> QED  BY <2>1 DEF IInv, Told
  <1>3. ASSUME NEW m \in Msgs, NEW dsn \in Msgs \cup {NoMsg}, Annotate(m, dsn) PROVE Told'
    BY <1>3 DEF Annotate, IInv, Told
  <1>4. ASSUME Rank, ~Save PROVE Told'
    <2>1. GoingOn
      BY <1>4, RankGoesOn
    <2> QED  BY <2>1 DEF GoingOn, GoesOn, IInv, Told, history
  <1>5. ASSUME Save PROVE Told'
    BY <1>5 DEF Save, IInv, Told
  <1>6. ASSUME MakeThreadCache PROVE Told'
    BY <1>6 DEF MakeThreadCache, IInv, Told, history
  <1>7. ASSUME Kill PROVE Told'
    <2>1. kills' > 0
      BY <1>7 DEF Kill, IInv, Counts
    <2> QED  BY <2>1 DEF Told
  <1> QED  BY <1>1, <1>2, <1>3, <1>4, <1>5, <1>6, <1>7 DEF Next

\* The rest of a record is kept by a step that ranks another one.
SameMarks == \A i \in DOMAIN recs : recs'[i].missing = recs[i].missing
SameParents == \A i \in DOMAIN recs : recs'[i].parent = recs[i].parent
LEMMA RankMarks ==
    ASSUME IInv, Rank, ~Save
    PROVE  SameMarks /\ (SameParents \/ RankGhost)
  <1>0. \A i \in DOMAIN recs : recs[i] \in Row(DOMAIN recs)
    BY DEF IInv, Rows, RowsOf
  <1>1. CASE RankGhost
    <2> DEFINE n == Len_
    <2>1. n \in DOMAIN recs /\ recs' = [recs EXCEPT ![n] = [recs[n] EXCEPT !.parent = n]]
      BY <1>1, RankGhostRow
    <2> HIDE DEF n
    <2>2. SameMarks
      BY <1>0, <2>1 DEF SameMarks, Row
    <2> QED  BY <1>1, <2>2
  <1>2. CASE JoinThread
    <2> DEFINE t == Top(op.md.parent)
               all == JoinThreads
    <2>1. t \in DOMAIN recs /\ recs' = [recs EXCEPT ![t] = [recs[t] EXCEPT !.thread = all]]
      BY <1>2, JoinThreadRow
    <2> HIDE DEF t, all
    <2> QED  BY <1>0, <2>1 DEF SameMarks, SameParents, Row
  <1>3. ASSUME NEW k \in Index, MoveKid(k) PROVE SameMarks /\ SameParents
    <2>1. k \in DOMAIN recs /\ recs' = [recs EXCEPT ![k] = [recs[k] EXCEPT !.thread = {}]]
      BY <1>3, MoveKidRow
    <2> QED  BY <1>0, <2>1 DEF SameMarks, SameParents, Row
  <1>4. CASE MakeGhost
    <2> DEFINE r == ReplyTo(op.md)
    <2>1. recs' = Put(recs, Len_ + 1, Ghost(r)) /\ names' = Put(names, r, Len_ + 1)
      BY <1>4 DEF MakeGhost
    <2>2. r \in Msgs /\ ~Known(r) /\ Ghost(r) \in Row(DOMAIN recs) /\ Ghost(r).msg = r
      BY <1>4, MakeGhostRow
    <2> HIDE DEF r
    <2>3. \A i \in DOMAIN recs : recs'[i] = recs[i]
      BY <2>1, <2>2, Appended
    <2> QED  BY <2>3 DEF SameMarks, SameParents
  <1>5. CASE FindParent \/ StayInThread \/ IsRoot \/ Hang \/ SetColumn
    <2>1. recs' = recs
      BY <1>5 DEF FindParent, StayInThread, IsRoot, Settled, Hang, SetColumn, store
    <2> QED  BY <2>1 DEF SameMarks, SameParents
  <1> QED  BY <1>1, <1>2, <1>3, <1>4, <1>5 DEF Rank

LEMMA UnmarkedStep == ASSUME IInv, Next PROVE Unmarked'
  <1>0. Kept /\ \A m \in arrived : m \in DOMAIN names /\ names[m] \in DOMAIN recs
    BY RowsStep DEF IInv, Counts, Rows, RowsOf
  <1>1. ASSUME NEW m \in Msgs, AddNew(m) PROVE Unmarked'
    <2>1. /\ op'.md = Received(m) /\ recs'[Len_ + 1] = Received(m) /\ names'[m] = Len_ + 1
          /\ \A i \in DOMAIN recs : recs'[i] = recs[i]
      BY <1>1, AddNewStarts DEF Starts
    <2>2. ~Received(m).missing
      BY <1>1, AddNewRow
    <2>3. arrived' = arrived \cup {m} /\ early' = early
      BY <1>1 DEF AddNew
    <2> QED  BY <1>0, <2>1, <2>2, <2>3 DEF IInv, Unmarked, Kept
  <1>2. ASSUME NEW m \in Msgs, AddAgain(m) PROVE Unmarked'
    <2>1. PICK md : /\ Starts(m, names[m], md, 0, FALSE) /\ md.msg = m
                    /\ md.missing = recs[names[m]].missing
      BY <1>2, AddAgainStarts
    <2>2. /\ arrived' = arrived \cup {m} /\ UNCHANGED <<recs, names>>
          /\ early' = IF m \in arrived THEN early ELSE early \cup {m}
      BY <1>2 DEF AddAgain, store
    <2>3. \A x \in arrived : recs[names[x]].missing => x \in early
      BY DEF IInv, Unmarked
    <2> QED  BY <2>1, <2>2, <2>3 DEF Unmarked, Starts
  <1>3. ASSUME NEW m \in Msgs, NEW dsn \in Msgs \cup {NoMsg}, Annotate(m, dsn) PROVE Unmarked'
    <2> DEFINE tid == ThreadId(names[m])
    <2>1. PICK md : /\ Starts(m, names[m], md, tid, FALSE) /\ md.msg = m
                    /\ md.missing = recs[names[m]].missing
      BY <1>3, AnnotateStarts
    <2>2. UNCHANGED <<recs, names, arrived, early>>
      BY <1>3 DEF Annotate, store
    <2>3. \A x \in arrived : recs[names[x]].missing => x \in early
      BY DEF IInv, Unmarked
    <2> HIDE DEF tid
    <2> QED  BY <2>1, <2>2, <2>3 DEF Unmarked, Starts
  <1>4. ASSUME Rank, ~Save PROVE Unmarked'
    <2>1. GoingOn /\ SameMarks
      BY <1>4, RankGoesOn, RankMarks
    <2>2. op' # Idle /\ op # Idle /\ UNCHANGED <<arrived, early>>
      BY <2>1 DEF GoingOn, GoesOn, history
    <2>3. op'.md.missing = op.md.missing /\ op'.md.msg = op.md.msg
      <3>1. CASE FindParent
        <4> DEFINE p == FoundParent
        <4>1. op'.md = [op.md EXCEPT !.parent = p] /\ op.md \in Row(DOMAIN recs)
          BY <3>1, FindParentGoesOn
        <4> HIDE DEF p
        <4> QED  BY <4>1 DEF Row
      <3> QED  BY <2>1, <3>1 DEF GoingOn
    <2>4. \A m \in arrived : recs'[names'[m]].missing = recs[names[m]].missing
      BY <1>0, <2>1 DEF Kept, SameMarks
    <2> QED  BY <2>2, <2>3, <2>4 DEF IInv, Unmarked
  <1>5. ASSUME Save PROVE Unmarked'
    <2>1. op # Idle /\ op.idx \in DOMAIN recs /\ op.md.msg = recs[op.idx].msg
      BY <1>5, SaveRow
    <2>2. recs' = [recs EXCEPT ![op.idx] = op.md] /\ op' = Idle /\ UNCHANGED <<names, arrived, early>>
      BY <1>5 DEF Save
    <2>3. ASSUME NEW m \in arrived, recs'[names[m]].missing PROVE m \in early
      <3>1. CASE names[m] = op.idx
        <4>1. op.md.msg = m /\ recs'[names[m]] = op.md
          BY <1>0, <2>1, <2>2, <3>1 DEF IInv, Rows, RowsOf
        <4> QED  BY <2>1, <2>3, <4>1 DEF IInv, Unmarked
      <3>2. CASE names[m] # op.idx
        <4>1. recs'[names[m]] = recs[names[m]]
          BY <1>0, <2>2, <3>2
        <4> QED  BY <2>3, <4>1 DEF IInv, Unmarked
      <3> QED  BY <3>1, <3>2
    <2> QED  BY <2>2, <2>3 DEF Unmarked
  <1>6. ASSUME MakeThreadCache \/ Kill PROVE Unmarked'
    <2>1. op' = Idle /\ UNCHANGED <<recs, names, arrived, early>>
      BY <1>6 DEF MakeThreadCache, Kill, store, history
    <2> QED  BY <2>1 DEF IInv, Unmarked
  <1> QED  BY <1>1, <1>2, <1>3, <1>4, <1>5, <1>6 DEF Next

-----------------------------------------------------------------------------
(* The parents.                                                            *)

\* What was said is remembered.
Remembered == \A x \in Msgs : answered[x] \subseteq answered'[x]
LEMMA HistoryGrows == ASSUME IInv, Next PROVE Remembered /\ changed \subseteq changed'
  <1>1. ASSUME NEW m \in Msgs, AddNew(m) \/ AddAgain(m) PROVE Remembered /\ changed \subseteq changed'
    BY <1>1, AddNewStarts, AddAgainStarts DEF Says, Remembered
  <1>2. ASSUME NEW m \in Msgs, NEW dsn \in Msgs \cup {NoMsg}, Annotate(m, dsn)
        PROVE  Remembered /\ changed \subseteq changed'
    BY <1>2, AnnotateStarts DEF Says, Remembered
  <1>3. ASSUME UNCHANGED <<answered, changed>> PROVE Remembered /\ changed \subseteq changed'
    BY <1>3 DEF Remembered
  <1>4. ASSUME Rank, ~Save PROVE UNCHANGED <<answered, changed>>
    BY <1>4, RankGoesOn DEF GoingOn, history
  <1>5. ASSUME Save \/ MakeThreadCache \/ Kill PROVE UNCHANGED <<answered, changed>>
    BY <1>5 DEF Save, MakeThreadCache, Kill, history
  <1> QED  BY <1>1, <1>2, <1>3, <1>4, <1>5 DEF Next

\* A record stays filed while other records change.
LEMMA FiledKept ==
    ASSUME Kept, NEW md \in Row(DOMAIN recs), NEW i, FiledIn(recs, answered, md, i), Remembered
    PROVE  FiledIn(recs', answered', md, i)
  BY DEF FiledIn, Row, Kept, Remembered

\* What a record is filed under depends on these fields of it alone.
LEMMA FiledAlike ==
    ASSUME NEW rs, NEW h, NEW md, NEW om, NEW i, FiledIn(rs, h, om, i),
           md.msg = om.msg, md.parent = om.parent
    PROVE  FiledIn(rs, h, md, i)
  BY DEF FiledIn

LEMMA FiledRecords ==
    ASSUME IInv, Kept, Remembered, SameParents
    PROVE  \A i \in DOMAIN recs : FiledIn(recs', answered', recs'[i], i)
  <1> SUFFICES ASSUME NEW i \in DOMAIN recs PROVE FiledIn(recs', answered', recs'[i], i)
    OBVIOUS
  <1>1. recs[i] \in Row(DOMAIN recs) /\ FiledIn(recs, answered, recs[i], i)
    BY DEF IInv, Rows, RowsOf, Filed
  <1>2. FiledIn(recs', answered', recs[i], i)
    BY <1>1, FiledKept
  <1>3. recs'[i].msg = recs[i].msg /\ recs'[i].parent = recs[i].parent
    BY DEF Kept, SameParents
  <1> QED  BY <1>2, <1>3, FiledAlike

LEMMA FiledStep == ASSUME IInv, Next PROVE Filed'
  <1>0. Kept /\ Remembered
    BY RowsStep, HistoryGrows
  <1>00. \A i \in DOMAIN recs : recs[i] \in Row(DOMAIN recs) /\ FiledIn(recs, answered, recs[i], i)
    BY DEF IInv, Rows, RowsOf, Filed
  <1>1. ASSUME NEW m \in Msgs, AddNew(m) PROVE Filed'
    <2>1. /\ op'.md = Received(m) /\ recs'[Len_ + 1] = Received(m)
          /\ DOMAIN recs' = DOMAIN recs \cup {Len_ + 1}
          /\ \A i \in DOMAIN recs : recs'[i] = recs[i]
          /\ ReplyTo(Received(m)) \in answered'[m] \cup {NoMsg} /\ irt' = irt
      BY <1>1, AddNewStarts DEF Starts, Says, AddNew
    <2>2. Received(m).parent = 0 /\ Received(m).msg = m
      BY <1>1, AddNewRow
    <2>3. \A i : FiledIn(recs', answered', Received(m), i)
      BY <2>2 DEF FiledIn
    <2>5. \A i \in DOMAIN recs : FiledIn(recs', answered', recs'[i], i)
      BY <1>0, <1>00, <2>1, FiledKept
    <2>6. (ReplyTo(op.md) \in answered[op.md.msg] \cup {NoMsg})'
      BY <2>1, <2>2 DEF ReplyTo
    <2> QED  BY <2>1, <2>3, <2>5, <2>6 DEF Filed
  <1>2. ASSUME NEW m \in Msgs, AddAgain(m) PROVE Filed'
    <2>1. PICK md : Starts(m, names[m], md, 0, FALSE) /\ md.parent = 0 /\ md.msg = m /\ Says(m, md)
      BY <1>2, AddAgainStarts
    <2>2. UNCHANGED <<recs, irt>>
      BY <1>2 DEF AddAgain, store
    <2>3. FiledIn(recs', answered', op'.md, op'.idx)
      BY <2>1 DEF Starts, FiledIn
    <2>4. \A i \in DOMAIN recs' : FiledIn(recs', answered', recs'[i], i)
      BY <1>0, <1>00, <2>2, FiledKept
    <2>5. (ReplyTo(op.md) \in answered[op.md.msg] \cup {NoMsg})'
      BY <2>1, <2>2 DEF ReplyTo, Starts, Says
    <2> QED  BY <2>3, <2>4, <2>5 DEF Filed
  <1>3. ASSUME NEW m \in Msgs, NEW dsn \in Msgs \cup {NoMsg}, Annotate(m, dsn) PROVE Filed'
    <2>1. PICK md : /\ Starts(m, names[m], md, ThreadId(names[m]), FALSE) /\ md.msg = m
                    /\ md.parent = recs[names[m]].parent /\ Says(m, md)
      BY <1>3, AnnotateStarts, Zenon
    <2>2. UNCHANGED <<recs, irt>> /\ Known(m)
      BY <1>3 DEF Annotate, store
    <2>3. names[m] \in DOMAIN recs /\ recs[names[m]].msg = m
      BY <2>2, KnownRow
    <2>4. \A i \in DOMAIN recs' : FiledIn(recs', answered', recs'[i], i)
      BY <1>0, <1>00, <2>2, FiledKept
    <2>5. FiledIn(recs', answered', op'.md, op'.idx)
      BY <2>1, <2>2, <2>3, <2>4, FiledAlike DEF Starts
    <2>6. (ReplyTo(op.md) \in answered[op.md.msg] \cup {NoMsg})'
      BY <2>1, <2>2 DEF ReplyTo, Starts, Says
    <2> QED  BY <2>4, <2>5, <2>6 DEF Filed
  <1>4. ASSUME FindParent PROVE Filed'
    <2> DEFINE p == FoundParent
    <2>1. /\ GoesOn("root") /\ op'.md = [op.md EXCEPT !.parent = p]
          /\ op.md \in Row(DOMAIN recs)
      BY <1>4, FindParentGoesOn
    <2>2. UNCHANGED <<recs, irt, answered>>
      BY <1>4 DEF FindParent, store, history
    <2>3. FiledIn(recs, answered, op.md, op.idx) /\ ReplyTo(op.md) \in answered[op.md.msg] \cup {NoMsg}
      BY <2>1 DEF GoesOn, IInv, Filed
    <2>4. ASSUME p \notin {0, op.idx} PROVE recs[p].msg \in answered[op.md.msg]
      <3>1. CASE ~Orphan
        BY <2>3, <3>1 DEF FoundParent, Orphan, FiledIn
      <3>2. CASE Orphan
        <4>1. ReplyTo(op.md) # NoMsg /\ p = names[ReplyTo(op.md)]
          BY <2>4, <3>2 DEF FoundParent
        <4>2. Known(ReplyTo(op.md))
          BY <1>4, <3>2, <4>1 DEF FindParent
        <4> HIDE DEF p
        <4> QED  BY <2>3, <4>1, <4>2, KnownRow
      <3> QED  BY <3>1, <3>2
    <2> HIDE DEF p
    <2>5. /\ op'.md.msg = op.md.msg /\ op'.md.dsn = op.md.dsn /\ op'.md.parent = p
          /\ op'.md.headers = op.md.headers
      BY <2>1 DEF Row
    <2>6. FiledIn(recs', answered', op'.md, op'.idx)
      BY <2>1, <2>2, <2>4, <2>5 DEF FiledIn, GoesOn
    <2>7. (ReplyTo(op.md) \in answered[op.md.msg] \cup {NoMsg})'
      BY <2>2, <2>3, <2>5 DEF ReplyTo
    <2> QED  BY <1>00, <2>2, <2>6, <2>7 DEF Filed
  <1>5. ASSUME Rank, ~Save, ~FindParent PROVE Filed'
    <2>1. GoingOn /\ SameMarks /\ (SameParents \/ RankGhost)
      BY <1>5, RankGoesOn, RankMarks
    <2>2. UNCHANGED <<irt, answered>> /\ op' # Idle /\ op # Idle /\ op'.md = op.md /\ op'.idx = op.idx
      BY <1>5, <2>1 DEF GoingOn, GoesOn, history
    <2>3. op.md \in Row(DOMAIN recs) /\ FiledIn(recs, answered, op.md, op.idx)
      BY <2>1, <2>2 DEF GoingOn, GoesOn, Request, IInv, Filed
    <2>4. FiledIn(recs', answered', op'.md, op'.idx)
      BY <1>0, <2>2, <2>3, FiledKept
    <2>6. (ReplyTo(op.md) \in answered[op.md.msg] \cup {NoMsg})'
      BY <2>2 DEF IInv, Filed, ReplyTo
    <2>5. \A i \in DOMAIN recs' : FiledIn(recs', answered', recs'[i], i)
      <3>1. CASE RankGhost
        <4> DEFINE n == Len_
        <4>1. n \in DOMAIN recs /\ recs' = [recs EXCEPT ![n] = [recs[n] EXCEPT !.parent = n]]
          BY <3>1, RankGhostRow
        <4> HIDE DEF n
        <4>2. FiledIn(recs', answered', recs'[n], n)
          BY <1>00, <4>1 DEF FiledIn, Row
        <4>3. \A i \in DOMAIN recs : FiledIn(recs', answered', recs[i], i)
          BY <1>0, <1>00, <2>2, FiledKept
        <4> QED  BY <4>1, <4>2, <4>3
      <3>2. CASE MakeGhost
        <4> DEFINE r == ReplyTo(op.md)
                   g == Ghost(r)
        <4>1. recs' = Put(recs, Len_ + 1, g) /\ names' = Put(names, r, Len_ + 1)
          BY <3>2 DEF MakeGhost
        <4>2. r \in Msgs /\ ~Known(r) /\ g \in Row(DOMAIN recs) /\ g.msg = r /\ g.parent = 0
          BY <3>2, MakeGhostRow
        <4> HIDE DEF r, g
        <4>3. /\ DOMAIN recs' = DOMAIN recs \cup {Len_ + 1} /\ recs'[Len_ + 1] = g
              /\ \A i \in DOMAIN recs : recs'[i] = recs[i]
          BY <4>1, <4>2, Appended
        <4>4. \A i : FiledIn(recs', answered', g, i)
          BY <4>2 DEF FiledIn
        <4>5. \A i \in DOMAIN recs : FiledIn(recs', answered', recs'[i], i)
          BY <1>0, <1>00, <2>2, <4>3, FiledKept
        <4> QED  BY <4>3, <4>4, <4>5
      <3>3. CASE ~RankGhost /\ ~MakeGhost
        <4>1. DOMAIN recs' = DOMAIN recs
          BY <1>5, <3>3 DEF Rank, StayInThread, IsRoot, Settled, JoinThread, Hang, SetColumn, MoveKid, store
        <4> QED  BY <1>0, <2>1, <2>2, <3>3, <4>1, FiledRecords
      <3> QED  BY <3>1, <3>2, <3>3
    <2> QED  BY <2>4, <2>5, <2>6 DEF Filed
  <1>6. ASSUME Save PROVE Filed'
    <2>1. op # Idle /\ op.idx \in DOMAIN recs /\ op.md \in Row(DOMAIN recs)
      BY <1>6, SaveRow
    <2>2. recs' = [recs EXCEPT ![op.idx] = op.md] /\ op' = Idle /\ irt' = irt
      BY <1>6 DEF Save
    <2>3. FiledIn(recs', answered', op.md, op.idx)
      BY <1>0, <2>1, <2>2, FiledKept DEF IInv, Filed
    <2>4. \A i \in DOMAIN recs : FiledIn(recs', answered', recs[i], i)
      BY <1>0, <1>00, <2>2, FiledKept
    <2> QED  BY <2>1, <2>2, <2>3, <2>4 DEF Filed
  <1>7. ASSUME MakeThreadCache \/ Kill PROVE Filed'
    <2>1. op' = Idle /\ UNCHANGED <<recs, answered>>
      BY <1>7 DEF MakeThreadCache, Kill, store, history
    <2> QED  BY <1>00, <2>1 DEF Filed
  <1> QED  BY <1>1, <1>2, <1>3, <1>4, <1>5, <1>6, <1>7 DEF Next

\* Only a walk in circles hangs, and nothing but a kill follows.
LEMMA HangStep == ASSUME IInv, Next PROVE HangMeansCircular'
  <1>1. CASE Hang
    <2>1. op # Idle /\ op.md.parent \in DOMAIN recs
      BY <1>1, Working DEF Hang, Walks, Stage, IInv, Served
    <2>2. Circular
      BY <1>1, <2>1, EndlessIsCircular DEF Hang, IInv, Filed
    <2>3. UNCHANGED answered
      BY <1>1 DEF Hang, history
    <2>4. Circular'
      BY <2>2, <2>3 DEF Circular
    <2> QED  BY <2>4 DEF HangMeansCircular
  <1>2. SUFFICES ASSUME ~Hang PROVE op'.stage # "hung"
    BY <1>1 DEF HangMeansCircular
  <1>3. ASSUME NEW m \in Msgs, AddNew(m) \/ AddAgain(m) PROVE op'.stage = "parent"
    BY <1>3 DEF AddNew, AddAgain, Begin
  <1>4. ASSUME NEW m \in Msgs, NEW dsn \in Msgs \cup {NoMsg}, Annotate(m, dsn) PROVE op'.stage = "parent"
    BY <1>4 DEF Annotate, Begin
  <1>5. ASSUME Rank, ~Save PROVE op'.stage # "hung"
    BY <1>2, <1>5, RankGoesOn DEF GoingOn
  <1>6. ASSUME Save \/ MakeThreadCache \/ Kill PROVE op'.stage = "idle"
    BY <1>6 DEF Save, MakeThreadCache, Kill, Idle
  <1> QED  BY <1>3, <1>4, <1>5, <1>6 DEF Next

-----------------------------------------------------------------------------
(* The theorems.                                                           *)

\* The inductive invariant: every step of every request keeps it.
THEOREM Invariance == Spec => []IInv
  <1>1. Init => IInv
    <2> SUFFICES ASSUME Init PROVE IInv
      OBVIOUS
    <2>1. DOMAIN recs = {} /\ DOMAIN names = {} /\ DOMAIN thread_ids = {} /\ DOMAIN recs = 1 .. 0
      BY DEF Init
    <2>2. Rows
      BY <2>1 DEF Rows, RowsOf
    <2>3. Columns /\ Served /\ Told
      BY <2>1 DEF Init, Columns, Served, Told
    <2>4. Counts /\ Cached /\ Unmarked /\ Filed
      BY <2>1 DEF Init, Counts, Cached, Unmarked, Filed
    <2>5. HangMeansCircular
      BY DEF Init, Idle, HangMeansCircular
    <2> QED  BY <2>2, <2>3, <2>4, <2>5 DEF IInv
  <1>2. IInv /\ [Next]_vars => IInv'
    <2> SUFFICES ASSUME IInv, [Next]_vars PROVE IInv'
      OBVIOUS
    <2>1. CASE Next
      BY <2>1, RowsStep, ColumnsStep, ServedStep, CountsStep, CachedStep, ToldStep,
         UnmarkedStep, FiledStep, HangStep DEF IInv, Kept
    <2>2. CASE UNCHANGED vars
      <3> USE <2>2 DEF vars, history
      <3>1. Rows' /\ Columns'
        BY DEF IInv, Rows, Columns
      <3>2. Served' /\ Counts'
        BY DEF IInv, Served, Counts
      <3>3. Cached' /\ Told' /\ Unmarked'
        BY DEF IInv, Cached, Threads, Told, Unmarked
      <3>4. Filed'
        BY DEF IInv, Filed, ReplyTo
      <3>5. HangMeansCircular'
        BY DEF IInv, HangMeansCircular, Circular
      <3> QED  BY <3>1, <3>2, <3>3, <3>4, <3>5 DEF IInv
    <2> QED  BY <2>1, <2>2
  <1> QED  BY <1>1, <1>2, PTL DEF Spec

\* The variables keep their types: however requests are cut short, the
\* records are numbered without gaps, there is one for each message id and
\* no more, and parents and threads are records that are there.
THEOREM TypeCorrect == Spec => []TypeOK
  <1>1. IInv => TypeOK
    <2> SUFFICES ASSUME IInv PROVE TypeOK
      OBVIOUS
    <2>1. Len_ \in Nat /\ DOMAIN recs = 1 .. Len_ /\ DOMAIN recs \subseteq Index
      BY Lengths
    <2>2. ASSUME NEW i \in DOMAIN recs PROVE recs[i] \in Metadata /\ Parent(i) \in DOMAIN recs
      <3>1. recs[i] \in Row(DOMAIN recs)
        BY DEF IInv, Rows, RowsOf
      <3>2. Row(DOMAIN recs) \subseteq Row(Index) /\ Row(Index) = Metadata
        BY <2>1, RowsGrow DEF Row, Metadata
      <3>3. Parent(i) \in DOMAIN recs
        BY ParentInside DEF IInv
      <3> QED  BY <3>1, <3>2, <3>3
    <2>3. op.stage \in {"idle", "parent", "ghost", "root", "kids", "column", "save", "hung"}
      BY DEF IInv, Served, Request, Stage, Idle
    <2>4. \A m \in DOMAIN names : recs[names[m]].msg = m
      BY DEF IInv, Rows, RowsOf
    <2> QED  BY <2>1, <2>2, <2>3, <2>4 DEF TypeOK, IInv, Counts, Columns
  <1> QED  BY <1>1, Invariance, PTL

\* Between requests the cached threads are those of the column, whatever was
\* moved, ranked or killed since they were cached.
THEOREM TheCacheIsFresh == Spec => []ThreadCacheFresh
  <1>1. IInv => ThreadCacheFresh
    BY DEF IInv, Cached, ThreadCacheFresh, Idle
  <1> QED  BY <1>1, Invariance, PTL

\* A message that was received is reported as added and loses the mark of a
\* missing one, unless a reply to it came first, or the worker was killed
\* before it replied.
THEOREM MessagesAreReported == Spec => []ReportedUnlessEarly
  <1>1. IInv => ReportedUnlessEarly
    BY DEF IInv, Told, Unmarked, ReportedUnlessEarly
  <1> QED  BY <1>1, Invariance, PTL

\* The loop of _add_to_thread() ends in every store, unless there are
\* messages that answer each other in a circle.
THEOREM OnlyCirclesHang == Spec => []HangMeansCircular
  <1>1. IInv => HangMeansCircular
    BY DEF IInv
  <1> QED  BY <1>1, Invariance, PTL

-----------------------------------------------------------------------------
(* The threads: the column and the lists agree with the parents, if what a *)
(* kill cut short is made again at once and nobody changed his mind about  *)
(* what a message answers.                                                 *)

\* The request in progress is about the message of its record; what it has
\* the message answer, and the thread it read the message in, still stand.
Steady ==
    /\ redo \subseteq Msgs /\ \A q \in redo : Known(q)
    /\ op # Idle =>
        /\ op.idx = names[op.req] /\ Known(op.req)
        /\ changed = {} => answered[op.req] = {ReplyTo(op.md)} \ {NoMsg}
        /\ op.stage = "ghost" => Parent(Len_) = Len_ /\ Len_ # op.idx
        /\ op.stage \in {"parent", "ghost", "root"} => op.tid \in {0, ThreadId(op.idx)}
        /\ (op.stage \notin {"parent", "ghost"} /\ op.md.parent = op.idx) =>
               ReplyTo(op.md) \in {NoMsg, op.md.msg}

\* The requests that are not over, and what the threads do not survive: a
\* circle, a change of mind, or two requests that are not over, so that one
\* of them was not made again at once.
Pending == redo \cup (IF op = Idle THEN {} ELSE {op.req})
Spoiled == Circular \/ changed # {} \/ \E p, q \in Pending : p # q

\* The threads, as functions of the records: the root of each record, its
\* thread in the column, and the list that it holds.
Roots == [i \in DOMAIN recs |-> Top(i)]
Column == [i \in DOMAIN recs |-> ThreadId(i)]
Lists == [i \in DOMAIN recs |-> recs[i].thread]

\* The thread that a request about q files it in.
Dest(q) == {Roots[names[g]] : g \in answered[q] \cap DOMAIN names}

\* Records D with roots R, the column T and the lists L: every record is in
\* its root's thread and no list holds any other.
Clean(D, R, T, L) ==
    /\ \A i \in D : T[i] = R[i] /\ (i = R[i] \/ i \in L[R[i]])
    /\ \A x \in D : \A k \in L[x] : k # x /\ R[k] = R[x] /\ R[k] # k

\* The thread of a is on its way to the thread in ds, if there is one: its
\* records are in one of the two, and may be listed in both.  Once a is
\* there, all are.
Half(D, R, T, L, a, ds) ==
    /\ \A i \in D : R[i] # a => T[i] = R[i] /\ (i = R[i] \/ i \in L[R[i]])
    /\ \A i \in D : R[i] = a => T[i] \in {a} \cup ds /\ (i = a \/ i \in L[a])
    /\ (R[a] = a /\ T[a] # a) =>
         \A i \in D : R[i] = a => T[i] \in ds /\ \A t \in ds : i \in L[t]
    /\ \A x \in D : \A k \in L[x] :
         k # x /\ \/ R[k] = R[x] /\ R[k] # k
                  \/ R[a] = a /\ R[k] = a /\ R[x] \in ds \ {a}

\* The thread t that the request of the record a has found is that of the
\* parent p, and the records ks of a's thread have yet to go there.
Heading(D, R, T, L, stage, a, p, t, ks) ==
    stage \in {"kids", "column", "save"} =>
        \/ t = a /\ stage # "kids" /\ (p = a \/ R[p] = a)
        \/ /\ t # a /\ p # a /\ t = R[p]
           /\ stage = "kids" => \A k \in ks : k # a /\ R[k] # k /\ R[k] \in {a, t}
           /\ R[a] = a => \A i \in D :
                R[i] = a => /\ i \in L[t]
                            /\ i = a \/ T[i] = t \/ (stage = "kids" /\ i \in ks)
           /\ stage = "save" => T[a] = t

Halfway(q) == Half(DOMAIN recs, Roots, Column, Lists, names[q], Dest(q))
OnCourse ==
    /\ op.md.thread = recs[op.idx].thread
    /\ Heading(DOMAIN recs, Roots, Column, Lists, op.stage, op.idx, op.md.parent, op.tid, op.kids)
Threaded ==
    \/ Spoiled
    \/ /\ Pending = {} => Clean(DOMAIN recs, Roots, Column, Lists)
       /\ \A q \in Pending : Halfway(q)
       /\ op # Idle => OnCourse

\* What holds at a step of the walk holds all the way, if parents keep it.
LEMMA WalkStays ==
    Rows => \A Z \in SUBSET DOMAIN recs :
        (\A j \in Z : Parent(j) \in Z) => \A p \in Z : Top(p) \in Z /\ OnTheWay(p) \subseteq Z
  <1> SUFFICES ASSUME Rows, NEW Z \in SUBSET DOMAIN recs, \A j \in Z : Parent(j) \in Z, NEW p \in Z
               PROVE  Top(p) \in Z /\ OnTheWay(p) \subseteq Z
    OBVIOUS
  <1> DEFINE w == Walk(p)
             S == {n \in Nat : w[n] \in Z}
  <1>1. Len_ \in Nat
    BY WalkInside
  <1>2. Climbs(w, p, Len_)
    BY <1>1, WalkClimbs
  <1> HIDE DEF w
  <1>3. 0 \in S
    BY <1>2 DEF Climbs
  <1>4. ASSUME NEW n \in Nat, n < Len_, n \in S PROVE n + 1 \in S
    <2>1. n + 1 \in 1 .. Len_ /\ (n + 1) - 1 = n
      BY <1>1, <1>4
    <2>2. w[n + 1] = Parent(w[(n + 1) - 1])
      BY <1>2, <2>1 DEF Climbs
    <2>3. w[n + 1] = Parent(w[n])
      BY <2>1, <2>2, Zenon
    <2>4. w[n] \in Z
      BY <1>4
    <2> QED  BY <2>3, <2>4
  <1>5. \A n \in 0 .. Len_ : n \in S
    <2> HIDE DEF S
    <2> QED  BY <1>1, <1>3, <1>4, UpTo
  <1>6. \A n \in 0 .. Len_ : w[n] \in Z
    BY <1>5
  <1>7. Len_ \in 0 .. Len_
    BY <1>1
  <1> QED  BY <1>6, <1>7 DEF Top, OnTheWay, w
LEMMA WalkStaysNext ==
    (Rows => \A Z \in SUBSET DOMAIN recs :
        (\A j \in Z : Parent(j) \in Z) => \A p \in Z : Top(p) \in Z /\ OnTheWay(p) \subseteq Z)'
  BY WalkStays, PTL

\* The records are trees, with their tops as roots.
Trees ==
    \A i \in DOMAIN recs :
        /\ Top(i) \in DOMAIN recs /\ Parent(i) \in DOMAIN recs
        /\ Parent(Top(i)) = Top(i) /\ Top(Parent(i)) = Top(i)
        /\ Parent(i) = i <=> Top(i) = i
LEMMA TreesHold == IInv /\ ~Circular => Trees
  <1> SUFFICES ASSUME IInv, ~Circular, NEW i \in DOMAIN recs
               PROVE  /\ Top(i) \in DOMAIN recs /\ Parent(i) \in DOMAIN recs
                      /\ Parent(Top(i)) = Top(i) /\ Top(Parent(i)) = Top(i)
                      /\ Parent(i) = i <=> Top(i) = i
    BY DEF Trees
  <1>1. Rows /\ \A j \in DOMAIN recs : FiledIn(recs, answered, recs[j], j)
    BY DEF IInv, Filed
  <1>2. \A j \in DOMAIN recs : Ends(j)
    BY <1>1, EndlessIsCircular
  <1>3. Len_ \in Nat /\ Len_ > 0 /\ Top(i) \in DOMAIN recs /\ Parent(i) \in DOMAIN recs
    BY <1>1, Lengths, WalkInside, ParentInside
  <1>4. Parent(Top(i)) = Top(i)
    BY <1>2 DEF Ends
  <1> DEFINE n == Len_
             w == Walk(i)
             v == Walk(Parent(i))
             pi == Parent(i)
             S == {k \in Nat : k < n => v[k] = w[k + 1]}
  <1>5. Climbs(w, i, n) /\ Climbs(v, pi, n)
    BY <1>3, WalkClimbs
  <1>6. w[n] = Top(i) /\ v[n] = Top(pi)
    BY DEF Top
  <1> HIDE DEF n, w, v, pi
  <1>7. n \in Nat /\ n > 0
    BY <1>3 DEF n
  <1>8. 0 \in S
    <2>1. 1 \in 1 .. n /\ 1 - 1 = 0 /\ 0 + 1 = 1
      BY <1>7
    <2>2. w[1] = Parent(w[1 - 1])
      BY <1>5, <2>1 DEF Climbs
    <2>3. w[0] = i /\ v[0] = Parent(i)
      BY <1>5 DEF Climbs, pi
    <2>4. w[1] = v[0]
      BY <2>1, <2>2, <2>3, Zenon
    <2> QED  BY <2>1, <2>4
  <1>9. ASSUME NEW k \in Nat, k < n, k \in S PROVE k + 1 \in S
    <2> SUFFICES ASSUME k + 1 < n PROVE v[k + 1] = w[(k + 1) + 1]
      OBVIOUS
    <2>1. /\ k + 1 \in 1 .. n /\ (k + 1) - 1 = k
          /\ (k + 1) + 1 \in 1 .. n /\ ((k + 1) + 1) - 1 = k + 1
      BY <1>7
    <2>2. v[k + 1] = Parent(v[(k + 1) - 1]) /\ w[(k + 1) + 1] = Parent(w[((k + 1) + 1) - 1])
      BY <1>5, <2>1 DEF Climbs
    <2>3. v[k + 1] = Parent(v[k]) /\ w[(k + 1) + 1] = Parent(w[k + 1])
      BY <2>1, <2>2, Zenon
    <2>4. v[k] = w[k + 1]
      BY <1>9
    <2> QED  BY <2>3, <2>4, Zenon
  <1>10. \A k \in 0 .. n : k \in S
    <2> HIDE DEF S
    <2> QED  BY <1>7, <1>8, <1>9, UpTo
  <1>11. v[n - 1] = w[n]
    <2>1. n - 1 \in 0 .. n /\ n - 1 < n /\ (n - 1) + 1 = n
      BY <1>7
    <2>2. v[n - 1] = w[(n - 1) + 1]
      BY <1>10, <2>1
    <2> QED  BY <2>1, <2>2, Zenon
  <1>12. v[n] = Parent(v[n - 1])
    BY <1>5, <1>7 DEF Climbs
  <1>13. Top(pi) = Top(i)
    BY <1>4, <1>6, <1>11, <1>12, Zenon
  <1>14. ASSUME pi = i PROVE Top(i) = i
    <2>1. {i} \in SUBSET DOMAIN recs /\ \A j \in {i} : Parent(j) \in {i}
      BY <1>14 DEF pi
    <2>2. Top(i) \in {i}
      BY <1>1, <2>1, WalkStays
    <2> QED  BY <2>2
  <1>15. ASSUME Top(i) = i PROVE Parent(i) = i
    BY <1>4, <1>15
  <1> QED  BY <1>3, <1>4, <1>13, <1>14, <1>15 DEF pi
LEMMA TreesHoldNext == (IInv /\ ~Circular => Trees)'
  BY TreesHold, PTL

\* A function that climbs like Top is Top.
LEMMA TopIsUnique ==
    IInv /\ ~Circular => \A f :
        (\A i \in DOMAIN recs : f[Parent(i)] = f[i] /\ (Parent(i) = i => f[i] = i))
            => \A i \in DOMAIN recs : Top(i) = f[i]
  <1> SUFFICES ASSUME IInv, ~Circular, NEW f,
                      \A j \in DOMAIN recs : f[Parent(j)] = f[j] /\ (Parent(j) = j => f[j] = j),
                      NEW i \in DOMAIN recs
               PROVE  Top(i) = f[i]
    OBVIOUS
  <1>1. Trees /\ Rows
    BY TreesHold DEF IInv
  <1> DEFINE Z == {j \in DOMAIN recs : f[j] = f[i]}
  <1>2. Z \in SUBSET DOMAIN recs /\ i \in Z /\ \A j \in Z : Parent(j) \in Z
    BY <1>1, ParentInside
  <1>3. Top(i) \in Z
    <2> HIDE DEF Z
    <2> QED  BY <1>1, <1>2, WalkStays
  <1> QED  BY <1>1, <1>3 DEF Trees
LEMMA TopIsUniqueNext ==
    (IInv /\ ~Circular => \A f :
        (\A i \in DOMAIN recs : f[Parent(i)] = f[i] /\ (Parent(i) = i => f[i] = i))
            => \A i \in DOMAIN recs : Top(i) = f[i])'
  BY TopIsUnique, PTL

LEMMA SteadyOn ==
    ASSUME IInv, Steady, Kept, NEW s, GoesOn(s), UNCHANGED <<redo, answered, changed>>,
           ReplyTo(op.md)' = ReplyTo(op.md),
           s = "ghost" => (Parent(Len_) = Len_ /\ Len_ # op.idx)',
           s \in {"parent", "ghost", "root"} => op'.tid \in {0, ThreadId(op.idx)'},
           (s \notin {"parent", "ghost"} /\ op'.md.parent = op'.idx) =>
               (ReplyTo(op.md) \in {NoMsg, op.md.msg})'
    PROVE  Steady'
  <1>1. op.idx \in DOMAIN recs /\ op.idx' = op.idx /\ op'.stage = s /\ op'.req = op.req /\ op # Idle
    BY DEF GoesOn, Request
  <1>2. op.idx = names[op.req] /\ op.req \in DOMAIN names
    BY <1>1 DEF Steady, Known
  <1>3. op'.idx = names'[op'.req] /\ Known(op.req)'
    BY <1>1, <1>2 DEF Kept, Known
  <1>4. \A q \in redo' : Known(q)'
    BY DEF Steady, Kept, Known
  <1>5. changed' = {} => answered'[op'.req] = {ReplyTo(op.md)'} \ {NoMsg}
    BY <1>1 DEF Steady
  <1> QED  BY <1>1, <1>3, <1>4, <1>5 DEF Steady

\* A request about m begins, with what the record of m says.
Opens(m) ==
    /\ op = Idle /\ op' # Idle /\ op'.stage = "parent" /\ op'.req = m
    /\ m \in DOMAIN names' /\ op'.idx = names'[m]
    /\ op'.md.thread = recs'[names'[m]].thread
    /\ \A i \in {names'[m]} : op'.tid \in {0, ThreadId(i)'}
    /\ answered[m] \subseteq answered'[m]
    /\ changed' = {} => \A r : r = ReplyTo(op.md)' => answered'[m] = {r} \ {NoMsg}
    /\ UNCHANGED <<redo, thread_ids>>
    /\ UNCHANGED <<recs, names>> \/ AddNew(m)
LEMMA SaysOpens ==
    ASSUME NEW m \in Msgs, NEW md, Says(m, md), op'.md = md, irt' = irt
    PROVE  /\ answered[m] \subseteq answered'[m]
           /\ changed' = {} => \A r : r = ReplyTo(op.md)' => answered'[m] = {r} \ {NoMsg}
  <1>1. ReplyTo(op.md)' = ReplyTo(md)
    BY DEF ReplyTo
  <1> QED  BY <1>1 DEF Says
LEMMA AddNewOpens == ASSUME IInv, NEW m \in Msgs, AddNew(m) PROVE Opens(m)
  <1>1. Starts(m, Len_ + 1, Received(m), 0, TRUE) /\ Says(m, Received(m))
    BY AddNewStarts
  <1>2. /\ recs'[Len_ + 1] = Received(m) /\ DOMAIN names' = DOMAIN names \cup {m}
        /\ names'[m] = Len_ + 1
    BY AddNewStarts
  <1>3. op = Idle /\ UNCHANGED <<irt, redo, thread_ids>>
    BY DEF AddNew
  <1>4. /\ answered[m] \subseteq answered'[m]
        /\ changed' = {} => \A r : r = ReplyTo(op.md)' => answered'[m] = {r} \ {NoMsg}
    BY <1>1, <1>3, SaysOpens DEF Starts
  <1> QED  BY <1>1, <1>2, <1>3, <1>4 DEF Opens, Starts
LEMMA AddAgainOpens == ASSUME IInv, NEW m \in Msgs, AddAgain(m) PROVE Opens(m)
  <1> DEFINE om == recs[names[m]]
             md == Merged(Received(m), om)
  <1>1. om \in Row(DOMAIN recs) /\ m \in DOMAIN names
    BY KnownRow DEF AddAgain, Known
  <1>2. op = Idle /\ UNCHANGED <<irt, redo, recs, names, thread_ids>>
    BY DEF AddAgain, store
  <1>3. Begin(m, md, 0, FALSE)
    BY DEF AddAgain
  <1> HIDE DEF om
  <1>4. md.thread = om.thread /\ md \in Row(DOMAIN recs)
    BY <1>1 DEF Merged, Received, Ghost, Row
  <1> HIDE DEF md
  <1>5. /\ op'.stage = "parent" /\ op'.req = m /\ op'.idx = names[m]
        /\ op'.md = md /\ op'.tid = 0 /\ op' # Idle
    BY <1>3 DEF Begin, Idle
  <1>6. Says(m, md)
    BY <1>3, <1>4, BeginSays
  <1>7. /\ answered[m] \subseteq answered'[m]
        /\ changed' = {} => \A r : r = ReplyTo(op.md)' => answered'[m] = {r} \ {NoMsg}
    BY <1>2, <1>5, <1>6, SaysOpens
  <1> QED  BY <1>1, <1>2, <1>4, <1>5, <1>7 DEF Opens, om
LEMMA AnnotateOpens ==
    ASSUME IInv, NEW m \in Msgs, NEW dsn \in Msgs \cup {NoMsg}, Annotate(m, dsn)
    PROVE  Opens(m)
  <1> DEFINE om == recs[names[m]]
             md == [om EXCEPT !.dsn = dsn]
             tid == ThreadId(names[m])
  <1>1. om \in Row(DOMAIN recs) /\ m \in DOMAIN names
    BY KnownRow DEF Annotate, Known
  <1>2. op = Idle /\ UNCHANGED <<irt, redo, recs, names, thread_ids>>
    BY DEF Annotate, store
  <1>3. Begin(m, md, tid, FALSE)
    BY DEF Annotate
  <1>4. \A i \in {names'[m]} : ThreadId(i)' = tid
    BY <1>2 DEF ThreadId
  <1> HIDE DEF om, tid
  <1>5. md.thread = om.thread /\ md \in Row(DOMAIN recs)
    BY <1>1 DEF Row
  <1> HIDE DEF md
  <1>6. /\ op'.stage = "parent" /\ op'.req = m /\ op'.idx = names[m]
        /\ op'.md = md /\ op'.tid = tid /\ op' # Idle
    BY <1>3 DEF Begin, Idle
  <1>7. om = recs'[names'[m]]
    BY <1>2 DEF om
  <1>8. Says(m, md)
    BY <1>3, <1>5, BeginSays
  <1>9. /\ answered[m] \subseteq answered'[m]
        /\ changed' = {} => \A r : r = ReplyTo(op.md)' => answered'[m] = {r} \ {NoMsg}
    BY <1>2, <1>6, <1>8, SaysOpens
  <1> QED  BY <1>1, <1>2, <1>4, <1>5, <1>6, <1>7, <1>9 DEF Opens

LEMMA SteadyStep == ASSUME IInv, Steady, Next PROVE Steady'
  <1>0. Kept
    BY RowsStep
  <1>00. \A q \in redo : Known(q)'
    BY <1>0 DEF Steady, Kept, Known
  <1>1. ASSUME NEW m \in Msgs, Opens(m) PROVE Steady'
    BY <1>1, <1>00 DEF Opens, Steady, Known
  <1>2. ASSUME Rank, ~Save PROVE GoingOn /\ UNCHANGED <<redo, answered, changed>>
    BY <1>2, RankGoesOn DEF GoingOn, history
  <1>3. ASSUME FindParent PROVE Steady'
    <2> DEFINE p == FoundParent
    <2>1. /\ GoesOn("root") /\ op'.md = [op.md EXCEPT !.parent = p] /\ op'.tid = op.tid
          /\ op.md \in Row(DOMAIN recs)
      BY <1>3, FindParentGoesOn
    <2>2. UNCHANGED <<redo, answered, changed>> /\ UNCHANGED <<irt, recs, names, thread_ids>>
      BY <1>3 DEF FindParent, store, history
    <2>3. ASSUME p = op.idx PROVE ReplyTo(op.md) \in {NoMsg, op.md.msg}
      <3>1. Orphan
        BY <2>3 DEF FoundParent, Orphan
      <3>2. CASE ReplyTo(op.md) # NoMsg
        <4>1. Known(ReplyTo(op.md)) /\ names[ReplyTo(op.md)] = op.idx
          BY <1>3, <2>3, <3>1, <3>2 DEF FindParent, FoundParent
        <4>2. recs[op.idx].msg = ReplyTo(op.md)
          BY <4>1, KnownRow
        <4>3. op.md.msg = recs[op.idx].msg
          BY <2>1 DEF GoesOn, IInv, Served
        <4> QED  BY <4>2, <4>3
      <3> QED  BY <3>2
    <2> HIDE DEF p
    <2>4. op'.md.dsn = op.md.dsn /\ op'.md.msg = op.md.msg /\ op'.md.parent = p
      BY <2>1 DEF Row
    <2>41. ReplyTo(op.md)' = ReplyTo(op.md)
      <3>1. op.md.headers <=> op'.md.headers
        BY <2>1 DEF Row
      <3> QED  BY <2>2, <2>4, <3>1 DEF ReplyTo
    <2>5. op'.md.parent = op'.idx => (ReplyTo(op.md) \in {NoMsg, op.md.msg})'
      BY <2>1, <2>3, <2>4, <2>41 DEF GoesOn
    <2>6. op'.tid \in {0, ThreadId(op.idx)'}
      BY <1>3, <2>1, <2>2 DEF FindParent, GoesOn, Steady, ThreadId
    <2> QED  BY <1>0, <2>1, <2>2, <2>41, <2>5, <2>6, SteadyOn
  <1>4. ASSUME MakeGhost PROVE Steady'
    <2> DEFINE r == ReplyTo(op.md)
               g == Ghost(r)
    <2>1. recs' = Put(recs, Len_ + 1, g) /\ names' = Put(names, r, Len_ + 1)
      BY <1>4 DEF MakeGhost
    <2>2. r \in Msgs /\ ~Known(r) /\ g \in Row(DOMAIN recs) /\ g.msg = r /\ g.parent = 0
      BY <1>4, MakeGhostRow
    <2> HIDE DEF r, g
    <2>3. /\ DOMAIN recs' = DOMAIN recs \cup {Len_ + 1} /\ recs'[Len_ + 1] = g
          /\ Len_ + 1 \notin DOMAIN recs
      BY <2>1, <2>2, Appended
    <2>4. Len_' = Len_ + 1
      <3>1. Len_ \in Nat /\ DOMAIN recs = 1 .. Len_
        BY Lengths
      <3>2. DOMAIN recs' = 1 .. (Len_ + 1)
        BY <2>3, <3>1
      <3>3. Cardinality(1 .. (Len_ + 1)) = Len_ + 1
        BY <3>1, FS_Interval
      <3> QED  BY <3>2, <3>3, Zenon DEF Len_
    <2>5. GoesOn("ghost") /\ op'.md = op.md /\ op'.tid = op.tid
      BY <1>4, StageGoesOn DEF MakeGhost, Stage
    <2>6. (Parent(Len_) = Len_ /\ Len_ # op.idx)'
      BY <2>2, <2>3, <2>4, <2>5 DEF Parent, GoesOn, Request
    <2>7. op'.tid \in {0, ThreadId(op.idx)'}
      BY <1>4, <2>5 DEF MakeGhost, GoesOn, Steady, ThreadId
    <2>8. UNCHANGED <<redo, answered, changed>> /\ ReplyTo(op.md)' = ReplyTo(op.md)
      BY <1>4, <2>5 DEF MakeGhost, history, ReplyTo
    <2> QED  BY <1>0, <2>5, <2>6, <2>7, <2>8, SteadyOn
  <1>5. ASSUME RankGhost PROVE Steady'
    <2>1. GoesOn("parent") /\ op'.md = op.md /\ op'.tid = op.tid
      BY <1>5, StageGoesOn DEF RankGhost, Stage
    <2>2. UNCHANGED <<redo, answered, changed>> /\ ReplyTo(op.md)' = ReplyTo(op.md)
      BY <1>5, <2>1 DEF RankGhost, history, ReplyTo
    <2>3. Len_ # op.idx /\ op.tid \in {0, ThreadId(op.idx)}
      BY <1>5, <2>1 DEF RankGhost, Steady, GoesOn
    <2>4. op'.tid \in {0, ThreadId(op.idx)'}
      BY <1>5, <2>1, <2>3 DEF RankGhost, GoesOn, ThreadId, Put
    <2> QED  BY <1>0, <2>1, <2>2, <2>4, SteadyOn
  <1>6. ASSUME Rank, ~Save, ~FindParent, ~MakeGhost, ~RankGhost PROVE Steady'
    <2>1. GoingOn /\ UNCHANGED <<redo, answered, changed>>
      BY <1>2, <1>6
    <2>2. op'.md = op.md /\ UNCHANGED irt
      BY <1>6, <2>1 DEF GoingOn
    <2>20. ReplyTo(op.md)' = ReplyTo(op.md)
      BY <2>2 DEF ReplyTo
    <2>3. PICK s : GoesOn(s)
      BY <2>1 DEF GoingOn
    <2>4. op.stage \notin {"parent", "ghost"} /\ s \notin {"parent", "ghost", "root"}
      BY <1>6, <2>3 DEF Rank, StayInThread, IsRoot, Settled, JoinThread, Walks, Hang, SetColumn, MoveKid,
                        AfterKids, GoesOn, Request
    <2>5. op'.md.parent = op'.idx => (ReplyTo(op.md) \in {NoMsg, op.md.msg})'
      BY <2>2, <2>20, <2>3, <2>4 DEF GoesOn, Steady
    <2> QED  BY <1>0, <2>1, <2>20, <2>3, <2>4, <2>5, SteadyOn
  <1>7. ASSUME Save PROVE Steady'
    <2>1. op # Idle /\ op.req \in Msgs /\ Known(op.req)
      BY <1>7, SaveRow DEF IInv, Served, Request, Steady
    <2>2. op' = Idle /\ redo' \subseteq redo \cup {op.req}
      BY <1>7 DEF Save, Redone
    <2> QED  BY <1>0, <1>00, <2>1, <2>2 DEF Steady, Kept, Known
  <1>8. ASSUME Kill \/ MakeThreadCache PROVE Steady'
    <2>1. op # Idle => op.req \in Msgs /\ Known(op.req)
      BY DEF IInv, Served, Request, Steady
    <2>2. op' = Idle /\ (redo' = redo \/ (op # Idle /\ redo' = redo \cup {op.req}))
      BY <1>8 DEF Kill, MakeThreadCache, history
    <2> QED  BY <1>0, <1>00, <2>1, <2>2 DEF Steady, Kept, Known
  <1> QED
    BY <1>1, <1>3, <1>4, <1>5, <1>6, <1>7, <1>8, AddNewOpens, AddAgainOpens, AnnotateOpens DEF Next

-----------------------------------------------------------------------------
(* What each step does to the threads, as facts about the functions.       *)

Shape(D, R, L) == \A i \in D : R[i] \in D /\ R[R[i]] = R[i] /\ L[i] \subseteq D

\* The destination ds of a request for a is the thread of the parent p.
Link(R, a, p, ds) ==
    /\ p # a => ds = {R[p]}
    /\ p = a => ds \subseteq {a}
    /\ R[a] # a => p # a /\ R[p] = R[a]

\* The same threads with one more record, k, that is a thread of its own.
Grows(D, R, T, L, k, D1, R1, T1, L1) ==
    /\ k \notin D /\ D1 = D \cup {k}
    /\ \A i \in D : R1[i] = R[i] /\ T1[i] = T[i] /\ L1[i] = L[i]
    /\ R1[k] = k /\ T1[k] = k /\ L1[k] = {}

LEMMA CleanGrows ==
    ASSUME NEW D, NEW R, NEW T, NEW L, NEW k, NEW D1, NEW R1, NEW T1, NEW L1,
           Shape(D, R, L), Grows(D, R, T, L, k, D1, R1, T1, L1), Clean(D, R, T, L)
    PROVE  Clean(D1, R1, T1, L1)
  <1>1. ASSUME NEW i \in D1 PROVE T1[i] = R1[i] /\ (i = R1[i] \/ i \in L1[R1[i]])
    BY DEF Shape, Grows, Clean
  <1>2. ASSUME NEW x \in D1, NEW j \in L1[x] PROVE j # x /\ R1[j] = R1[x] /\ R1[j] # j
    BY DEF Shape, Grows, Clean
  <1> QED  BY <1>1, <1>2 DEF Clean

LEMMA CleanIsHalf ==
    ASSUME NEW D, NEW R, NEW T, NEW L, Clean(D, R, T, L), NEW a \in D, NEW ds
    PROVE  Half(D, R, T, L, a, ds)
  BY DEF Clean, Half

\* A thread that goes nowhere yet may go anywhere.
LEMMA HalfAnywhere ==
    ASSUME NEW D, NEW R, NEW T, NEW L, NEW a \in D, Half(D, R, T, L, a, {}), NEW ds
    PROVE  Half(D, R, T, L, a, ds)
  BY DEF Half

\* A ghost is the destination that was missing.
LEMMA HalfGrows ==
    ASSUME NEW D, NEW R, NEW T, NEW L, NEW k, NEW D1, NEW R1, NEW T1, NEW L1, NEW a \in D,
           Shape(D, R, L), Grows(D, R, T, L, k, D1, R1, T1, L1), Half(D, R, T, L, a, {})
    PROVE  Half(D1, R1, T1, L1, a, {k})
  <1>1. ASSUME NEW i \in D1, R1[i] # a PROVE T1[i] = R1[i] /\ (i = R1[i] \/ i \in L1[R1[i]])
    BY <1>1 DEF Shape, Grows, Half
  <1>2. ASSUME NEW i \in D1, R1[i] = a PROVE T1[i] = a /\ (i = a \/ i \in L1[a])
    BY <1>2 DEF Shape, Grows, Half
  <1>3. R1[a] = a => T1[a] = a
    BY <1>2 DEF Grows
  <1>4. ASSUME NEW x \in D1, NEW j \in L1[x] PROVE j # x /\ R1[j] = R1[x] /\ R1[j] # j
    BY DEF Shape, Grows, Half
  <1> QED  BY <1>1, <1>2, <1>3, <1>4 DEF Half

\* A record that is read back from a thread is in that of its parent.
LEMMA StayHeads ==
    ASSUME NEW D, NEW R, NEW T, NEW L, NEW a \in D, NEW p \in D, NEW ds, NEW ks,
           Half(D, R, T, L, a, ds), Link(R, a, p, ds), T[a] # a
    PROVE  Heading(D, R, T, L, "column", a, p, T[a], ks)
  <1>1. CASE R[a] # a
    BY <1>1 DEF Half, Link, Heading
  <1>2. CASE R[a] = a
    <2>1. T[a] \in ds
      BY <1>2 DEF Half
    <2>2. p # a /\ ds = {R[p]}
      BY <2>1 DEF Link
    <2>3. \A i \in D : R[i] = a => T[i] = T[a] /\ i \in L[T[a]]
      BY <1>2, <2>1, <2>2 DEF Half
    <2> QED  BY <2>1, <2>2, <2>3 DEF Heading
  <1> QED  BY <1>1, <1>2

\* The records that move to the thread t of the parent.
LEMMA KidsMove ==
    ASSUME NEW D, NEW R, NEW T, NEW L, NEW a \in D, NEW p \in D, NEW ds, NEW way,
           Shape(D, R, L), Half(D, R, T, L, a, ds), Link(R, a, p, ds), p # a, R[p] # a,
           \A i \in way : R[i] = R[p],
           NEW k \in (way \ {R[p], a}) \cup L[a]
    PROVE  k # a /\ R[k] # k /\ R[k] \in {a, R[p]} /\ k # R[p] /\ (R[a] # a => R[k] = R[p])
  <1>1. CASE k \in way \ {R[p], a}
    BY <1>1 DEF Shape
  <1>2. CASE k \in L[a]
    BY <1>2 DEF Shape, Half, Link
  <1> QED  BY <1>1, <1>2
\* The root of p lists a and the records on the way from p and in a's list.
Joins(D, R, L, L1, a, p, way, ks) ==
    /\ a \in D /\ p \in D /\ p # a /\ R[p] # a
    /\ \A i \in way : R[i] = R[p]
    /\ ks = (way \ {R[p], a}) \cup L[a]
    /\ \A i \in D : L1[i] = IF i = R[p] THEN L[i] \cup {a} \cup ks ELSE L[i]
LEMMA JoinHeads ==
    ASSUME NEW D, NEW R, NEW T, NEW L, NEW a, NEW p, NEW ds, NEW way, NEW L1, NEW ks,
           Shape(D, R, L), Half(D, R, T, L, a, ds), Link(R, a, p, ds),
           Joins(D, R, L, L1, a, p, way, ks)
    PROVE  Half(D, R, T, L1, a, ds) /\ Heading(D, R, T, L1, AfterKids(ks), a, p, R[p], ks)
  <1> USE DEF Joins
  <1> DEFINE t == R[p]
             s == AfterKids(ks)
  <1>1. /\ \A k \in ks : k # a /\ R[k] # k /\ R[k] \in {a, t} /\ k # t
        /\ \A k \in ks : R[a] # a => R[k] = t
    BY KidsMove
  <1>2. t \in D /\ R[t] = t /\ ds = {t} /\ t # a /\ (R[a] # a => R[a] = t)
    BY DEF Shape, Link
  <1> HIDE DEF t
  <1>3. /\ \A i \in D : L[i] \subseteq L1[i] /\ (i # t => L1[i] = L[i])
        /\ L1[t] = L[t] \cup {a} \cup ks
    BY <1>2 DEF t
  <1>4. \A i \in D : R[i] # a => T[i] = R[i] /\ (i = R[i] \/ i \in L1[R[i]])
    BY <1>3 DEF Half, Shape
  <1>5. \A i \in D : R[i] = a => T[i] \in {a} \cup ds /\ (i = a \/ i \in L1[a])
    BY <1>3 DEF Half
  <1>6. (R[a] = a /\ T[a] # a) =>
            \A i \in D : R[i] = a => T[i] \in ds /\ \A x \in ds : i \in L1[x]
    BY <1>2, <1>3 DEF Half
  <1>7. ASSUME NEW x \in D, NEW k \in L1[x]
        PROVE  k # x /\ \/ R[k] = R[x] /\ R[k] # k
                        \/ R[a] = a /\ R[k] = a /\ R[x] \in ds \ {a}
    <2>1. CASE k \in L[x]
      BY <2>1 DEF Half
    <2>2. CASE x = t /\ k = a
      BY <1>2, <2>2
    <2>3. CASE x = t /\ k \in ks
      BY <1>1, <1>2, <2>3
    <2> QED  BY <1>3, <2>1, <2>2, <2>3
  <1>8. Half(D, R, T, L1, a, ds)
    BY <1>4, <1>5, <1>6, <1>7 DEF Half
  <1>9. ASSUME NEW i \in D, R[a] = a, R[i] = a PROVE i \in L1[t] /\ (i = a \/ i \in ks)
    BY <1>3, <1>9 DEF Half
  <1>10. Heading(D, R, T, L1, s, a, p, t, ks)
    BY <1>1, <1>2, <1>9 DEF Heading, AfterKids, t
  <1> QED  BY <1>8, <1>10 DEF t

LEMMA MoveHeads ==
    ASSUME NEW D, NEW R, NEW T, NEW L, NEW a \in D, NEW p \in D, NEW ds, NEW t, NEW ks, NEW k \in ks,
           NEW T1, NEW L1, NEW s, k \in D,
           Shape(D, R, L), Half(D, R, T, L, a, ds), Link(R, a, p, ds),
           Heading(D, R, T, L, "kids", a, p, t, ks), s = AfterKids(ks \ {k}),
           \A i \in D : T1[i] = IF i = k THEN t ELSE T[i],
           \A i \in D : L1[i] = IF i = k THEN {} ELSE L[i]
    PROVE  Half(D, R, T1, L1, a, ds) /\ Heading(D, R, T1, L1, s, a, p, t, ks \ {k})
  <1>1. /\ t # a /\ p # a /\ t = R[p] /\ ds = {t} /\ R[t] = t /\ t \in D
        /\ k # a /\ R[k] # k /\ R[k] \in {a, t} /\ k # t
        /\ \A j \in ks : j # a /\ R[j] # j /\ R[j] \in {a, t}
    BY DEF Heading, Link, Shape
  <1>2. /\ \A i \in D : R[i] = i => L1[i] = L[i]
        /\ L1[a] = L[a] /\ L1[t] = L[t] /\ T1[a] = T[a] /\ T1[k] = t
        /\ \A i \in D : L1[i] \subseteq L[i] /\ (i # k => T1[i] = T[i])
    BY <1>1
  <1>3. \A i \in D : R[i] # a => T1[i] = R[i] /\ (i = R[i] \/ i \in L1[R[i]])
    BY <1>1, <1>2 DEF Half, Shape
  <1>4. \A i \in D : R[i] = a => T1[i] \in {a} \cup ds /\ (i = a \/ i \in L1[a])
    BY <1>1, <1>2 DEF Half
  <1>5. (R[a] = a /\ T1[a] # a) =>
            \A i \in D : R[i] = a => T1[i] \in ds /\ \A x \in ds : i \in L1[x]
    BY <1>1, <1>2 DEF Half
  <1>6. \A x \in D : \A j \in L1[x] :
            j # x /\ \/ R[j] = R[x] /\ R[j] # j
                     \/ R[a] = a /\ R[j] = a /\ R[x] \in ds \ {a}
    BY <1>2 DEF Half
  <1>7. Half(D, R, T1, L1, a, ds)
    BY <1>3, <1>4, <1>5, <1>6 DEF Half
  <1>8. ASSUME NEW i \in D, R[a] = a, R[i] = a
        PROVE  i \in L1[t] /\ (i = a \/ T1[i] = t \/ i \in ks \ {k})
    BY <1>1, <1>2, <1>8 DEF Heading
  <1>9. Heading(D, R, T1, L1, s, a, p, t, ks \ {k})
    BY <1>1, <1>8 DEF Heading, AfterKids
  <1> QED  BY <1>7, <1>9

LEMMA ColumnHeads ==
    ASSUME NEW D, NEW R, NEW T, NEW L, NEW a \in D, NEW p \in D, NEW ds, NEW t, NEW ks, NEW T1,
           Shape(D, R, L), Half(D, R, T, L, a, ds), Link(R, a, p, ds),
           Heading(D, R, T, L, "column", a, p, t, ks),
           \A i \in D : T1[i] = IF i = a THEN t ELSE T[i]
    PROVE  Half(D, R, T1, L, a, ds) /\ Heading(D, R, T1, L, "save", a, p, t, ks)
  <1>1. CASE t = a
    <2>1. R[a] = a /\ (p = a \/ R[p] = a)
      BY <1>1 DEF Heading, Link, Shape
    <2> QED  BY <1>1, <2>1 DEF Half, Heading
  <1>2. CASE t # a
    <2>1. p # a /\ t = R[p] /\ ds = {t} /\ (R[a] # a => R[a] = t)
      BY <1>2 DEF Heading, Link
    <2>2. R[a] = a => \A i \in D : R[i] = a => i \in L[t] /\ T1[i] = t
      BY <1>2 DEF Heading
    <2>3. \A i \in D : R[i] # a => T1[i] = R[i] /\ (i = R[i] \/ i \in L[R[i]])
      BY <2>1 DEF Half
    <2>4. \A i \in D : R[i] = a => T1[i] \in {a} \cup ds /\ (i = a \/ i \in L[a])
      BY <2>1 DEF Half
    <2>5. Half(D, R, T1, L, a, ds)
      BY <2>1, <2>2, <2>3, <2>4 DEF Half
    <2> QED  BY <1>2, <2>1, <2>2, <2>5 DEF Heading
  <1> QED  BY <1>1, <1>2

\* The record of a is saved with its parent p, and a's tree goes with it.
LEMMA SaveCleans ==
    ASSUME NEW D, NEW R, NEW T, NEW L, NEW a \in D, NEW p \in D, NEW ds, NEW t, NEW ks, NEW R1,
           Shape(D, R, L), Half(D, R, T, L, a, ds), Link(R, a, p, ds),
           Heading(D, R, T, L, "save", a, p, t, ks),
           R[a] = a /\ p # a => R[p] # a,
           \A i \in D : R1[i] = IF R[i] = a THEN R[p] ELSE R[i]
    PROVE  Clean(D, R1, T, L)
  <1>1. CASE R[a] # a \/ p = a
    <2>1. \A i \in D : R1[i] = R[i]
      BY <1>1 DEF Shape, Link
    <2>2. \A i \in D : T[i] = R[i] /\ (i = R[i] \/ i \in L[R[i]])
      BY <1>1 DEF Half, Link, Shape
    <2>3. \A x \in D : \A k \in L[x] : k # x /\ R[k] = R[x] /\ R[k] # k
      BY <1>1 DEF Half, Link
    <2>4. \A x \in D : \A k \in L[x] : k \in D
      BY DEF Shape
    <2>5. \A x \in D : \A k \in L[x] : k # x /\ R1[k] = R1[x] /\ R1[k] # k
      BY <2>1, <2>3, <2>4
    <2>6. \A i \in D : T[i] = R1[i] /\ (i = R1[i] \/ i \in L[R1[i]])
      BY <2>1, <2>2
    <2> QED  BY <2>5, <2>6 DEF Clean
  <1>2. CASE R[a] = a /\ p # a
    <2>1. t # a /\ t = R[p] /\ T[a] = t /\ ds = {t} /\ R[t] = t /\ t \in D
      BY <1>2 DEF Heading, Link, Shape
    <2>2. \A i \in D : R[i] = a => T[i] = t /\ i \in L[t]
      BY <1>2, <2>1 DEF Half
    <2>3. \A i \in D : R1[i] = IF R[i] = a THEN t ELSE R[i]
      BY <2>1
    <2>4. \A i \in D : T[i] = R1[i] /\ (i = R1[i] \/ i \in L[R1[i]])
      BY <2>2, <2>3 DEF Half
    <2>5. ASSUME NEW x \in D, NEW k \in L[x] PROVE k # x /\ R1[k] = R1[x] /\ R1[k] # k
      <3>1. k \in D
        BY DEF Shape
      <3>2. k # x /\ \/ R[k] = R[x] /\ R[k] # k
                     \/ R[k] = a /\ R[x] = t
        BY <2>1 DEF Half
      <3> QED  BY <1>2, <2>1, <2>3, <3>1, <3>2
    <2> QED  BY <2>4, <2>5 DEF Clean
  <1> QED  BY <1>1, <1>2

-----------------------------------------------------------------------------
(* The steps of the store keep the threads together.                       *)

\* What messages answered each other at some time, they always did.
LEMMA CircularStep == ASSUME IInv, Next, Circular PROVE Circular'
  <1>1. PICK S \in SUBSET Msgs : S # {} /\ \A m \in S : answered[m] \cap (S \ {m}) # {}
    BY DEF Circular
  <1>2. \A m \in S : answered'[m] \cap (S \ {m}) # {}
    BY <1>1, HistoryGrows DEF Remembered
  <1> QED  BY <1>1, <1>2 DEF Circular

\* A request that was not made again at once is never made up for.
LEMMA PendingStep ==
    ASSUME IInv, Next
    PROVE  \/ Pending \subseteq Pending'
           \/ Save /\ redo \subseteq {op.req} /\ Pending = {op.req} /\ Pending' = {}
  <1>1. ASSUME op = Idle, redo' = redo PROVE Pending \subseteq Pending'
    BY <1>1 DEF Pending
  <1>2. ASSUME Rank, ~Save PROVE Pending \subseteq Pending'
    <2>1. op # Idle /\ op' # Idle /\ op'.req = op.req /\ redo' = redo
      BY <1>2, RankGoesOn DEF GoingOn, GoesOn, history
    <2> QED  BY <2>1 DEF Pending
  <1>3. ASSUME Kill PROVE Pending \subseteq Pending'
    BY <1>3 DEF Kill, Pending
  <1>4. ASSUME Save
        PROVE  \/ Pending \subseteq Pending'
               \/ Save /\ redo \subseteq {op.req} /\ Pending = {op.req} /\ Pending' = {}
    BY <1>4, SaveRow DEF Save, Redone, Pending
  <1> QED
    BY <1>1, <1>2, <1>3, <1>4 DEF Next, AddNew, AddAgain, Annotate, MakeThreadCache, history
LEMMA SpoiledStep == ASSUME IInv, Next, Spoiled PROVE Spoiled'
  <1>1. CASE Circular
    BY <1>1, CircularStep DEF Spoiled
  <1>2. CASE \E p, q \in Pending : p # q
    BY <1>2, PendingStep DEF Spoiled
  <1>3. CASE changed # {}
    BY <1>3, HistoryGrows DEF Spoiled
  <1> QED  BY <1>1, <1>2, <1>3 DEF Spoiled

\* The functions, of a store without circles.
LEMMA ShapeHolds ==
    ASSUME IInv, ~Circular
    PROVE  Shape(DOMAIN recs, Roots, Lists)
  <1>1. Trees /\ \A i \in DOMAIN recs : recs[i] \in Row(DOMAIN recs)
    BY TreesHold DEF IInv, Rows, RowsOf
  <1> QED  BY <1>1 DEF Shape, Roots, Lists, Trees, Row

\* A step that keeps the parents keeps the roots.
LEMMA SameRoots ==
    ASSUME IInv, ~Circular, IInv', ~Circular', DOMAIN recs' = DOMAIN recs,
           \A i \in DOMAIN recs : Parent(i)' = Parent(i)
    PROVE  Roots' = Roots
  <1>1. Trees
    BY TreesHold
  <1> DEFINE f == Roots
  <1>2. \A i \in DOMAIN recs : f[i] = Top(i)
    BY DEF Roots
  <1> HIDE DEF f
  <1>3. \A i \in DOMAIN recs' : f[Parent(i)'] = f[i] /\ (Parent(i)' = i => f[i] = i)
    BY <1>1, <1>2 DEF Trees
  <1>4. \A i \in DOMAIN recs' : Top(i)' = f[i]
    BY <1>3, TopIsUniqueNext
  <1>5. \A i \in DOMAIN recs : Top(i)' = Top(i)
    BY <1>2, <1>4
  <1> QED  BY <1>5 DEF Roots
\* A record that is appended is a root.
LEMMA MoreRoots ==
    ASSUME IInv, ~Circular, IInv', ~Circular', NEW k, k \notin DOMAIN recs,
           DOMAIN recs' = DOMAIN recs \cup {k}, Parent(k)' = k,
           \A i \in DOMAIN recs : Parent(i)' = Parent(i)
    PROVE  Roots'[k] = k /\ \A i \in DOMAIN recs : Roots'[i] = Roots[i]
  <1>1. Trees
    BY TreesHold
  <1> DEFINE f == [i \in DOMAIN recs \cup {k} |-> IF i = k THEN k ELSE Top(i)]
  <1>2. f[k] = k /\ \A i \in DOMAIN recs : f[i] = Top(i)
    OBVIOUS
  <1> HIDE DEF f
  <1>3. \A i \in DOMAIN recs' : f[Parent(i)'] = f[i] /\ (Parent(i)' = i => f[i] = i)
    BY <1>1, <1>2 DEF Trees
  <1>4. \A i \in DOMAIN recs' : Top(i)' = f[i]
    BY <1>3, TopIsUniqueNext
  <1> QED  BY <1>2, <1>4 DEF Roots

\* What a request in progress starts from.
LEMMA Midway ==
    ASSUME IInv, Steady, Threaded, ~Spoiled, op # Idle
    PROVE  /\ ~Circular /\ Shape(DOMAIN recs, Roots, Lists)
           /\ op \in Request(DOMAIN recs) /\ op.idx \in DOMAIN recs
           /\ op.req \in DOMAIN names /\ names[op.req] = op.idx
           /\ Pending = {op.req}
           /\ \A ds : ds = Dest(op.req) => Half(DOMAIN recs, Roots, Column, Lists, op.idx, ds)
           /\ OnCourse
  <1>1. ~Circular /\ Shape(DOMAIN recs, Roots, Lists)
    BY ShapeHolds DEF Spoiled
  <1>2. op \in Request(DOMAIN recs) /\ op.idx \in DOMAIN recs
    BY DEF IInv, Served, Request
  <1>3. op.req \in DOMAIN names /\ names[op.req] = op.idx
    BY DEF Steady, Known
  <1> DEFINE q == op.req
  <1>4. q \in Pending /\ \A x \in Pending : x = q
    BY DEF Pending, Spoiled
  <1> HIDE DEF q
  <1>5. OnCourse /\ Halfway(q)
    BY <1>4 DEF Threaded
  <1>6. names[q] = op.idx
    BY <1>3 DEF q
  <1>7. Half(DOMAIN recs, Roots, Column, Lists, op.idx, Dest(q))
    BY <1>5, <1>6, Zenon DEF Halfway
  <1> QED  BY <1>1, <1>2, <1>3, <1>4, <1>5, <1>7 DEF q

\* The message that a request files its own under is its parent's.
LEMMA LinkHolds ==
    ASSUME IInv, Steady, ~Spoiled, op # Idle, op.stage \notin {"parent", "ghost"}, NEW ds, ds = Dest(op.req)
    PROVE  /\ op.md.parent \in DOMAIN recs /\ Link(Roots, op.idx, op.md.parent, ds)
           /\ Parent(op.idx) # op.idx => op.md.parent = Parent(op.idx)
  <1> DEFINE a == op.idx
             p == op.md.parent
             q == op.req
             r == ReplyTo(op.md)
  <1>0. ~Circular /\ changed = {}
    BY DEF Spoiled
  <1>1. /\ a \in DOMAIN recs /\ p \in DOMAIN recs /\ op.md \in Row(DOMAIN recs)
        /\ recs[a] \in Row(DOMAIN recs) /\ recs[a].msg = op.md.msg
    BY DEF IInv, Served, Request, Rows, RowsOf
  <1>2. q \in DOMAIN names /\ names[q] = a /\ recs[a].msg = q
    BY KnownRow DEF Steady, Known
  <1>3. answered[q] = {r} \ {NoMsg}
    BY <1>0 DEF Steady
  <1>4. \A i, j \in DOMAIN recs : recs[i].msg = recs[j].msg => i = j
    BY DEF IInv, Rows, RowsOf
  <1>5. \A i \in DOMAIN recs : recs[i].msg \in DOMAIN names /\ names[recs[i].msg] = i /\ recs[i].msg \in Msgs
    BY DEF IInv, Rows, RowsOf, Row
  <1>6. p # a => recs[p].msg \in answered[q]
    BY <1>1, <1>2, Lengths DEF IInv, Filed, FiledIn
  <1>7. p = a => r \in {NoMsg, recs[a].msg}
    BY <1>1 DEF Steady
  <1>8. ASSUME Parent(a) # a PROVE p = Parent(a) /\ p # a
    <2> DEFINE b == Parent(a)
    <2>1. b \in DOMAIN recs /\ b = recs[a].parent /\ b \notin {0, a}
      BY <1>1, <1>8, ParentInside, Lengths DEF IInv, Parent
    <2>2. recs[b].msg \in answered[q]
      BY <1>1, <1>2, <2>1 DEF IInv, Filed, FiledIn
    <2> HIDE DEF b, r, q, p, a
    <2>3. recs[b].msg = r /\ r # NoMsg
      BY <1>3, <2>2
    <2>4. p # a
      BY <1>1, <1>4, <1>7, <2>1, <2>3
    <2>5. recs[p].msg = r
      BY <1>3, <1>6, <2>4
    <2> QED  BY <1>1, <1>4, <2>1, <2>3, <2>4, <2>5 DEF b
  <1>9. Trees /\ \A i \in DOMAIN recs : Roots[i] = Top(i)
    BY <1>0, TreesHold DEF Roots
  <1>10. ds = {Roots[names[g]] : g \in answered[q] \cap DOMAIN names}
    BY DEF Dest
  <1> HIDE DEF a, p, q, r
  <1>11. p # a => ds = {Roots[p]}
    <2> SUFFICES ASSUME p # a PROVE ds = {Roots[p]}
      OBVIOUS
    <2>1. answered[q] \cap DOMAIN names = {recs[p].msg} /\ names[recs[p].msg] = p
      BY <1>1, <1>3, <1>5, <1>6
    <2> QED  BY <1>10, <2>1
  <1>12. Roots[a] # a => Parent(a) # a
    BY <1>1, <1>9 DEF Trees
  <1>13. Roots[a] # a => p # a /\ Roots[p] = Roots[a]
    BY <1>1, <1>8, <1>9, <1>12 DEF Trees
  <1>14. p = a => ds \subseteq {a}
    <2> SUFFICES ASSUME p = a PROVE \A x \in ds : x = a
      OBVIOUS
    <2>1. \A g \in answered[q] : g = recs[a].msg
      BY <1>3, <1>7
    <2>2. \A g \in answered[q] : Roots[names[g]] = a
      BY <1>1, <1>5, <1>13, <2>1
    <2> QED  BY <1>10, <2>2
  <1>15. Link(Roots, a, p, ds)
    BY <1>11, <1>13, <1>14 DEF Link
  <1> QED  BY <1>1, <1>8, <1>15 DEF a, p

LEMMA SameDest ==
    ASSUME NEW q, UNCHANGED <<answered, names, Roots>>
    PROVE  Dest(q)' = Dest(q)
  BY DEF Dest

\* A step of a request that goes on keeps its thread on course.
LEMMA ThreadedOn ==
    ASSUME IInv, Steady, Threaded, ~Spoiled, NEW s, GoesOn(s), redo' = redo,
           NEW q, q = op.req, Halfway(q)', OnCourse'
    PROVE  Threaded'
  <1>1. Pending = {q}
    BY Midway DEF GoesOn
  <1>2. Pending' = {q}
    BY <1>1 DEF Pending, GoesOn
  <1> QED  BY <1>2 DEF Threaded
LEMMA RankThreads ==
    ASSUME IInv, IInv', Steady, Threaded, ~Spoiled, ~Spoiled', NEW s, GoesOn(s),
           UNCHANGED <<answered, names, redo>>, DOMAIN recs' = DOMAIN recs,
           \A i \in DOMAIN recs : Parent(i)' = Parent(i),
           NEW T1, NEW L1, T1 = Column', L1 = Lists', NEW ds, ds = Dest(op.req),
           Half(DOMAIN recs, Roots, T1, L1, op.idx, ds),
           Heading(DOMAIN recs, Roots, T1, L1, s, op.idx, op'.md.parent, op'.tid, op'.kids),
           op'.md.thread = L1[op.idx]
    PROVE  Threaded'
  <1>0. PICK q : q = op.req
    OBVIOUS
  <1>1. /\ op.idx \in DOMAIN recs /\ names[q] = op.idx /\ op'.idx = op.idx /\ op'.stage = s
        /\ ds = Dest(q)
    BY <1>0, Midway DEF GoesOn
  <1>2. Roots' = Roots
    BY SameRoots DEF Spoiled
  <1>4. Dest(q)' = ds
    BY <1>1, <1>2, SameDest
  <1>5. Half(DOMAIN recs', Roots', Column', Lists', names'[q], Dest(q)')
    BY <1>1, <1>2, <1>4
  <1>6. Halfway(q)'
    BY <1>5 DEF Halfway
  <1>7. op'.md.thread = recs'[op'.idx].thread
    BY <1>1 DEF Lists
  <1>8. Heading(DOMAIN recs', Roots', Column', Lists', op'.stage, op'.idx, op'.md.parent, op'.tid, op'.kids)
    BY <1>1, <1>2
  <1>9. OnCourse'
    BY <1>7, <1>8 DEF OnCourse
  <1> QED  BY <1>0, <1>6, <1>9, ThreadedOn

\* The steps of _rank() that write nothing.
LEMMA QuietThreads ==
    ASSUME IInv, IInv', Steady, Threaded, ~Spoiled, ~Spoiled',
           FindParent \/ Hang \/ StayInThread \/ IsRoot
    PROVE  Threaded'
  <1>1. UNCHANGED <<answered, recs, names, thread_ids, redo>> /\ op # Idle
    BY Busy DEF FindParent, Hang, Walks, StayInThread, IsRoot, Settled, store, history, Stage
  <1>2. PICK ds : ds = Dest(op.req)
    OBVIOUS
  <1>3. Column' = Column /\ Lists' = Lists
    BY <1>1 DEF Column, Lists, ThreadId
  <1>4. /\ Half(DOMAIN recs, Roots, Column, Lists, op.idx, ds) /\ op.md.thread = recs[op.idx].thread
        /\ op.idx \in DOMAIN recs /\ op \in Request(DOMAIN recs) /\ ~Circular
    BY <1>1, <1>2, Midway DEF OnCourse
  <1>5. /\ Lists[op.idx] = recs[op.idx].thread
        /\ \A i \in DOMAIN recs : Parent(i)' = Parent(i)
    BY <1>1, <1>4 DEF Lists, Parent
  <1>7. ASSUME NEW s, GoesOn(s), op'.md.thread = op.md.thread,
               Heading(DOMAIN recs, Roots, Column, Lists, s, op.idx, op'.md.parent, op'.tid, op'.kids)
        PROVE  Threaded'
    <2>1. PICK T1 : T1 = Column
      OBVIOUS
    <2>2. PICK L1 : L1 = Lists
      OBVIOUS
    <2>3. T1 = Column' /\ L1 = Lists' /\ op'.md.thread = L1[op.idx]
      BY <1>3, <1>4, <1>5, <1>7, <2>1, <2>2
    <2>4. Half(DOMAIN recs, Roots, T1, L1, op.idx, ds)
      BY <1>4, <2>1, <2>2
    <2>5. Heading(DOMAIN recs, Roots, T1, L1, s, op.idx, op'.md.parent, op'.tid, op'.kids)
      BY <1>7, <2>1, <2>2
    <2>6. UNCHANGED <<answered, names, redo>> /\ DOMAIN recs' = DOMAIN recs
      BY <1>1
    <2> QED  BY <1>2, <1>5, <1>7, <2>3, <2>4, <2>5, <2>6, RankThreads
  <1>8. CASE FindParent
    <2> DEFINE p == FoundParent
    <2>1. GoesOn("root") /\ op'.md = [op.md EXCEPT !.parent = p] /\ op.md \in Row(DOMAIN recs)
      BY <1>8, FindParentGoesOn
    <2> HIDE DEF p
    <2>2. op'.md.thread = op.md.thread
      BY <2>1 DEF Row
    <2> QED  BY <1>7, <2>1, <2>2 DEF Heading
  <1>9. CASE Hang
    BY <1>7, <1>9, StageGoesOn DEF Hang, Walks, Stage, Heading
  <1>10. CASE StayInThread
    <2>1. op.tid \in DOMAIN recs /\ op.tid # op.idx /\ op.stage = "root"
      BY <1>4, <1>10 DEF StayInThread, Request
    <2>2. GoesOn("column") /\ op'.md = op.md /\ op'.tid = op.tid
      BY <1>10, <2>1, SettledGoesOn DEF StayInThread, Stage
    <2>3. op.tid = Column[op.idx]
      BY <1>1, <1>4, <1>10, <2>1, Lengths DEF StayInThread, Steady, Column
    <2>4. op.md.parent \in DOMAIN recs /\ Link(Roots, op.idx, op.md.parent, ds)
      BY <1>1, <1>2, <1>4, <2>1, LinkHolds
    <2>5. Heading(DOMAIN recs, Roots, Column, Lists, "column", op.idx, op.md.parent, op.tid, op'.kids)
      <3>1. PICK ks : ks = op'.kids
        OBVIOUS
      <3>2. Column[op.idx] # op.idx
        BY <2>1, <2>3
      <3>3. Heading(DOMAIN recs, Roots, Column, Lists, "column", op.idx, op.md.parent, Column[op.idx], ks)
        BY <1>4, <2>4, <3>2, StayHeads
      <3> QED  BY <2>3, <3>1, <3>3
    <2> QED  BY <1>7, <2>2, <2>5
  <1>11. CASE IsRoot
    <2>1. GoesOn("column") /\ op'.md = op.md /\ op'.tid = op.idx
      BY <1>4, <1>11, SettledGoesOn DEF IsRoot, Stage
    <2>2. op.md.parent \in DOMAIN recs
      BY <1>1, <1>11 DEF IsRoot, IInv, Served
    <2>3. op.md.parent = op.idx \/ Roots[op.md.parent] = op.idx
      BY <1>11, <2>2 DEF IsRoot, Roots
    <2> QED  BY <1>7, <2>1, <2>3 DEF Heading
  <1> QED  BY <1>8, <1>9, <1>10, <1>11

LEMMA RankGhostThreads ==
    ASSUME IInv, IInv', Steady, Threaded, ~Spoiled, ~Spoiled', RankGhost
    PROVE  Threaded'
  <1> DEFINE n == Len_
  <1>1. /\ op # Idle /\ n \in DOMAIN recs
        /\ recs' = [recs EXCEPT ![n] = [recs[n] EXCEPT !.parent = n]]
    BY RankGhostRow
  <1>2. UNCHANGED <<answered, names, redo>> /\ thread_ids' = Put(thread_ids, n, n)
    BY DEF RankGhost, history
  <1>3. GoesOn("parent") /\ op'.md = op.md /\ op'.tid = op.tid
    BY StageGoesOn DEF RankGhost, Stage
  <1>4. Parent(n) = n /\ n # op.idx
    BY <1>1 DEF RankGhost, Steady
  <1>5. \A i \in DOMAIN recs : recs[i] \in Row(DOMAIN recs)
    BY DEF IInv, Rows, RowsOf
  <1>6. PICK ds : ds = Dest(op.req)
    OBVIOUS
  <1>7. /\ Half(DOMAIN recs, Roots, Column, Lists, op.idx, ds) /\ op.md.thread = recs[op.idx].thread
        /\ op.idx \in DOMAIN recs /\ ~Circular
    BY <1>1, <1>6, Midway DEF OnCourse
  <1>8. Roots[n] = n
    BY <1>1, <1>4, <1>7, TreesHold DEF Trees, Roots
  <1> HIDE DEF n
  <1>9. DOMAIN recs' = DOMAIN recs /\ \A i \in DOMAIN recs : Parent(i)' = Parent(i)
    BY <1>1, <1>4, <1>5, Lengths DEF Parent, Row
  <1>11. Lists' = Lists
    <2>1. \A i \in DOMAIN recs : recs'[i].thread = recs[i].thread
      BY <1>1, <1>5 DEF Row
    <2> QED  BY <1>9, <2>1 DEF Lists
  <1>12. Column' = Column
    <2>1. Column[n] = n
      BY <1>1, <1>4, <1>7, <1>8 DEF Half
    <2>2. ThreadId(n) = n
      BY <1>1, <2>1 DEF Column
    <2>3. \A i \in DOMAIN recs : ThreadId(i)' = ThreadId(i)
      BY <1>2, <2>2 DEF ThreadId, Put
    <2> QED  BY <1>9, <2>3 DEF Column
  <1>13. PICK T1 : T1 = Column
    OBVIOUS
  <1>14. PICK L1 : L1 = Lists
    OBVIOUS
  <1>15. T1 = Column' /\ L1 = Lists' /\ op'.md.thread = L1[op.idx]
    BY <1>3, <1>7, <1>11, <1>12, <1>13, <1>14 DEF Lists
  <1>16. Half(DOMAIN recs, Roots, T1, L1, op.idx, ds)
    BY <1>7, <1>13, <1>14
  <1>17. Heading(DOMAIN recs, Roots, T1, L1, "parent", op.idx, op'.md.parent, op'.tid, op'.kids)
    BY DEF Heading
  <1> QED  BY <1>2, <1>3, <1>6, <1>9, <1>15, <1>16, <1>17, RankThreads

LEMMA MakeGhostThreads ==
    ASSUME IInv, IInv', Steady, Threaded, ~Spoiled, ~Spoiled', MakeGhost
    PROVE  Threaded'
  <1>0. PICK q : q = op.req
    OBVIOUS
  <1>1. PICK r : r = ReplyTo(op.md)
    OBVIOUS
  <1>2. PICK k : k = Len_ + 1
    OBVIOUS
  <1>3. r \in Msgs /\ ~Known(r) /\ Ghost(r) \in Row(DOMAIN recs) /\ Ghost(r).msg = r /\ op # Idle
    BY <1>1, MakeGhostRow
  <1>4. recs' = Put(recs, Len_ + 1, Ghost(r)) /\ names' = Put(names, r, Len_ + 1)
    BY <1>1 DEF MakeGhost
  <1>5. /\ Kept /\ DOMAIN recs' = DOMAIN recs \cup {k} /\ recs'[k] = Ghost(r)
        /\ \A i \in DOMAIN recs : recs'[i] = recs[i]
        /\ r \in DOMAIN names' /\ names'[r] = k
        /\ k \notin DOMAIN recs
    BY <1>2, <1>3, <1>4, Appended
  <1>6. /\ ~Circular /\ Shape(DOMAIN recs, Roots, Lists) /\ op.idx \in DOMAIN recs
        /\ q \in DOMAIN names /\ names[q] = op.idx
        /\ Half(DOMAIN recs, Roots, Column, Lists, op.idx, Dest(q))
        /\ op.md.thread = recs[op.idx].thread
    BY <1>0, <1>3, Midway DEF OnCourse
  <1>7. UNCHANGED <<answered, thread_ids, redo>>
    BY DEF MakeGhost, history
  <1>8. GoesOn("ghost") /\ op'.md = op.md
    BY StageGoesOn DEF MakeGhost, Stage
  <1>9. answered[q] = {r}
    BY <1>0, <1>1, <1>3, MsgsAssumption DEF Steady, Spoiled
  <1>10. Dest(q) = {}
    BY <1>3, <1>9 DEF Dest, Known
  <1>11. names'[q] = op.idx
    BY <1>5, <1>6 DEF Kept
  <1>13. Parent(k)' = k /\ \A i \in DOMAIN recs : Parent(i)' = Parent(i)
    BY <1>5 DEF Parent, Ghost
  <1>14. Roots'[k] = k /\ \A i \in DOMAIN recs : Roots'[i] = Roots[i]
    BY <1>5, <1>6, <1>13, MoreRoots DEF Spoiled
  <1>15. Dest(q)' = {k}
    BY <1>5, <1>7, <1>9, <1>14 DEF Dest
  <1>16. \A i \in DOMAIN recs : Column'[i] = Column[i] /\ Lists'[i] = Lists[i]
    BY <1>5, <1>7 DEF Column, Lists, ThreadId
  <1>17. Column'[k] = k /\ Lists'[k] = {}
    BY <1>5, <1>7 DEF Column, Lists, ThreadId, IInv, Columns, Ghost
  <1>18. Grows(DOMAIN recs, Roots, Column, Lists, k, DOMAIN recs', Roots', Column', Lists')
    BY <1>5, <1>14, <1>16, <1>17 DEF Grows
  <1>19. Half(DOMAIN recs', Roots', Column', Lists', op.idx, {k})
    BY <1>6, <1>10, <1>18, HalfGrows
  <1>20. Halfway(q)'
    BY <1>11, <1>15, <1>19 DEF Halfway
  <1>21. OnCourse'
    BY <1>5, <1>6, <1>8 DEF OnCourse, Heading, GoesOn
  <1> QED  BY <1>0, <1>7, <1>8, <1>20, <1>21, ThreadedOn

LEMMA JoinThreadThreads ==
    ASSUME IInv, IInv', Steady, Threaded, ~Spoiled, ~Spoiled', JoinThread
    PROVE  Threaded'
  <1>1. op # Idle /\ op.stage = "root" /\ op.md.parent # op.idx /\ Top(op.md.parent) # op.idx
    BY JoinThreadRow DEF JoinThread, Walks
  <1>2. PICK ds : ds = Dest(op.req)
    OBVIOUS
  <1>3. PICK p : p = op.md.parent
    OBVIOUS
  <1>4. PICK a : a = op.idx
    OBVIOUS
  <1>5. /\ Half(DOMAIN recs, Roots, Column, Lists, a, ds) /\ op.md.thread = recs[a].thread
        /\ a \in DOMAIN recs /\ Shape(DOMAIN recs, Roots, Lists) /\ ~Circular
    BY <1>1, <1>2, <1>4, Midway DEF OnCourse
  <1>6. p \in DOMAIN recs /\ Link(Roots, a, p, ds)
    BY <1>1, <1>2, <1>3, <1>4, <1>5, LinkHolds
  <1>7. Trees /\ Rows /\ Roots[p] = Top(p)
    BY <1>5, <1>6, TreesHold DEF IInv, Roots
  <1>8. PICK t : t = Top(p)
    OBVIOUS
  <1>9. PICK way : way = OnTheWay(p)
    OBVIOUS
  <1>10. \A i \in way : Roots[i] = t
    <2> DEFINE Z == {j \in DOMAIN recs : Top(j) = t}
    <2>1. Z \in SUBSET DOMAIN recs /\ p \in Z /\ \A j \in Z : Parent(j) \in Z
      BY <1>6, <1>7, <1>8 DEF Trees
    <2> HIDE DEF Z
    <2>2. way \subseteq Z
      BY <1>7, <1>9, <2>1, WalkStays
    <2> QED  BY <2>2 DEF Z, Roots
  <1>11. PICK ks : ks = JoinKids
    OBVIOUS
  <1>12. ks = (way \ {t, a}) \cup Lists[a]
    BY <1>3, <1>4, <1>5, <1>8, <1>9, <1>11 DEF JoinKids, Lists
  <1>13. PICK s : s = AfterKids(ks)
    OBVIOUS
  <1>14. /\ t \in DOMAIN recs /\ t # a /\ p # a
         /\ recs' = [recs EXCEPT ![t] = [recs[t] EXCEPT !.thread = JoinThreads]]
         /\ op' = [op EXCEPT !.stage = s, !.tid = t, !.kids = ks]
    BY <1>1, <1>3, <1>4, <1>8, <1>11, <1>13, JoinThreadRow
  <1>15. PICK all : all = JoinThreads
    OBVIOUS
  <1>16. all = recs[t].thread \cup {a} \cup ks
    BY <1>3, <1>4, <1>8, <1>11, <1>15 DEF JoinThreads
  <1>17. GoesOn(s) /\ op'.md = op.md /\ op'.tid = t /\ op'.kids = ks
    <2>1. GoesOn(s) /\ op'.md = op.md /\ op'.tid = t
      BY <1>3, <1>8, <1>11, <1>13, JoinThreadGoesOn
    <2>2. op \in Request(DOMAIN recs)
      BY <2>1 DEF GoesOn
    <2> QED  BY <1>14, <2>1, <2>2 DEF Request
  <1>18. \A i \in DOMAIN recs : recs[i] \in Row(DOMAIN recs)
    BY <1>7 DEF Rows, RowsOf
  <1>19. recs' = [recs EXCEPT ![t] = [recs[t] EXCEPT !.thread = all]]
    BY <1>14, <1>15
  <1>20. /\ DOMAIN recs' = DOMAIN recs /\ \A i \in DOMAIN recs : recs'[i].parent = recs[i].parent
         /\ \A i \in DOMAIN recs : recs'[i].thread = IF i = t THEN all ELSE recs[i].thread
    BY <1>14, <1>18, <1>19 DEF Row
  <1>22. \A i \in DOMAIN recs : Parent(i)' = Parent(i)
    BY <1>20 DEF Parent
  <1>23. UNCHANGED <<answered, names, thread_ids, redo>>
    BY DEF JoinThread, history
  <1>24. Column' = Column
    BY <1>20, <1>23 DEF Column, ThreadId
  <1>25. PICK T1 : T1 = Column
    OBVIOUS
  <1>26. PICK L1 : L1 = Lists'
    OBVIOUS
  <1>27. \A i \in DOMAIN recs : L1[i] = IF i = t THEN Lists[i] \cup {a} \cup ks ELSE Lists[i]
    BY <1>14, <1>16, <1>20, <1>26 DEF Lists
  <1>28. t = Roots[p]
    BY <1>7, <1>8
  <1>29. /\ Half(DOMAIN recs, Roots, T1, L1, a, ds)
         /\ Heading(DOMAIN recs, Roots, T1, L1, s, a, p, t, ks)
    <2>1. PICK R : R = Roots
      OBVIOUS
    <2>2. PICK L : L = Lists
      OBVIOUS
    <2>3. /\ Half(DOMAIN recs, R, T1, L, a, ds) /\ Shape(DOMAIN recs, R, L) /\ Link(R, a, p, ds)
          /\ Joins(DOMAIN recs, R, L, L1, a, p, way, ks)
      BY <1>5, <1>6, <1>10, <1>12, <1>14, <1>25, <1>27, <1>28, <2>1, <2>2 DEF Joins
    <2>4. /\ Half(DOMAIN recs, R, T1, L1, a, ds)
          /\ Heading(DOMAIN recs, R, T1, L1, AfterKids(ks), a, p, R[p], ks)
      BY <2>3, JoinHeads
    <2> QED  BY <1>13, <1>28, <2>1, <2>4
  <1>30. op'.md.thread = L1[a]
    BY <1>5, <1>14, <1>17, <1>27 DEF Lists
  <1>31. T1 = Column'
    BY <1>24, <1>25
  <1>32. /\ Half(DOMAIN recs, Roots, T1, L1, op.idx, ds)
         /\ Heading(DOMAIN recs, Roots, T1, L1, s, op.idx, op'.md.parent, op'.tid, op'.kids)
         /\ op'.md.thread = L1[op.idx]
    BY <1>3, <1>4, <1>17, <1>29, <1>30
  <1> QED  BY <1>2, <1>17, <1>20, <1>22, <1>23, <1>26, <1>31, <1>32, RankThreads

LEMMA MoveKidThreads ==
    ASSUME IInv, IInv', Steady, Threaded, ~Spoiled, ~Spoiled', NEW k \in Index, MoveKid(k)
    PROVE  Threaded'
  <1>1. op # Idle /\ k \in DOMAIN recs /\ recs' = [recs EXCEPT ![k] = [recs[k] EXCEPT !.thread = {}]]
    BY MoveKidRow
  <1>2. PICK ds : ds = Dest(op.req)
    OBVIOUS
  <1>3. PICK p : p = op.md.parent
    OBVIOUS
  <1>4. PICK a : a = op.idx
    OBVIOUS
  <1>5. PICK t : t = op.tid
    OBVIOUS
  <1>6. PICK ks : ks = op.kids
    OBVIOUS
  <1>7. op.stage = "kids" /\ k \in ks /\ op' = [op EXCEPT !.stage = AfterKids(ks \ {k}), !.kids = @ \ {k}]
    BY <1>6 DEF MoveKid
  <1>8. /\ Half(DOMAIN recs, Roots, Column, Lists, a, ds) /\ op.md.thread = recs[a].thread
        /\ a \in DOMAIN recs /\ Shape(DOMAIN recs, Roots, Lists) /\ ~Circular
        /\ Heading(DOMAIN recs, Roots, Column, Lists, "kids", a, p, t, ks)
        /\ op \in Request(DOMAIN recs)
    BY <1>1, <1>2, <1>3, <1>4, <1>5, <1>6, <1>7, Midway DEF OnCourse
  <1>9. p \in DOMAIN recs /\ Link(Roots, a, p, ds)
    BY <1>1, <1>2, <1>3, <1>4, <1>7, <1>8, LinkHolds
  <1>10. PICK s : s = AfterKids(ks \ {k})
    OBVIOUS
  <1>11. GoesOn(s) /\ op'.md = op.md /\ op'.tid = t
    BY <1>5, <1>6, <1>10, MoveKidGoesOn
  <1>12. op'.kids = ks \ {k}
    BY <1>6, <1>7, <1>8 DEF Request
  <1>13. \A i \in DOMAIN recs : recs[i] \in Row(DOMAIN recs)
    BY DEF IInv, Rows, RowsOf
  <1>14. /\ DOMAIN recs' = DOMAIN recs /\ \A i \in DOMAIN recs : recs'[i].parent = recs[i].parent
         /\ \A i \in DOMAIN recs : recs'[i].thread = IF i = k THEN {} ELSE recs[i].thread
    BY <1>1, <1>13 DEF Row
  <1>16. \A i \in DOMAIN recs : Parent(i)' = Parent(i)
    BY <1>14 DEF Parent
  <1>17. UNCHANGED <<answered, names, redo>> /\ thread_ids' = Put(thread_ids, k, t)
    BY <1>5 DEF MoveKid, history
  <1>18. PICK T1 : T1 = Column'
    OBVIOUS
  <1>19. PICK L1 : L1 = Lists'
    OBVIOUS
  <1>20. \A i \in DOMAIN recs : L1[i] = IF i = k THEN {} ELSE Lists[i]
    BY <1>14, <1>19 DEF Lists
  <1>21. \A i \in DOMAIN recs : T1[i] = IF i = k THEN t ELSE Column[i]
    BY <1>14, <1>17, <1>18 DEF Column, ThreadId, Put
  <1>22. /\ Half(DOMAIN recs, Roots, T1, L1, a, ds)
         /\ Heading(DOMAIN recs, Roots, T1, L1, s, a, p, t, ks \ {k})
    BY <1>1, <1>7, <1>8, <1>9, <1>10, <1>20, <1>21, MoveHeads
  <1>23. k # a
    BY <1>7, <1>8 DEF Heading
  <1>24. op'.md.thread = L1[a]
    BY <1>8, <1>11, <1>20, <1>23 DEF Lists
  <1>25. /\ Half(DOMAIN recs, Roots, T1, L1, op.idx, ds)
         /\ Heading(DOMAIN recs, Roots, T1, L1, s, op.idx, op'.md.parent, op'.tid, op'.kids)
         /\ op'.md.thread = L1[op.idx]
    BY <1>3, <1>4, <1>11, <1>12, <1>22, <1>24
  <1> QED  BY <1>2, <1>11, <1>14, <1>16, <1>17, <1>18, <1>19, <1>25, RankThreads

LEMMA SetColumnThreads ==
    ASSUME IInv, IInv', Steady, Threaded, ~Spoiled, ~Spoiled', SetColumn
    PROVE  Threaded'
  <1>1. op # Idle /\ op.stage = "column" /\ GoesOn("save") /\ op'.md = op.md /\ op'.tid = op.tid
    BY StageGoesOn DEF SetColumn, Stage, GoesOn
  <1>2. PICK ds : ds = Dest(op.req)
    OBVIOUS
  <1>3. PICK p : p = op.md.parent
    OBVIOUS
  <1>4. PICK a : a = op.idx
    OBVIOUS
  <1>5. PICK t : t = op.tid
    OBVIOUS
  <1>6. PICK ks : ks = op.kids
    OBVIOUS
  <1>7. /\ Half(DOMAIN recs, Roots, Column, Lists, a, ds) /\ op.md.thread = recs[a].thread
        /\ a \in DOMAIN recs /\ Shape(DOMAIN recs, Roots, Lists) /\ ~Circular
        /\ Heading(DOMAIN recs, Roots, Column, Lists, "column", a, p, t, ks)
        /\ op \in Request(DOMAIN recs)
    BY <1>1, <1>2, <1>3, <1>4, <1>5, <1>6, Midway DEF OnCourse
  <1>8. p \in DOMAIN recs /\ Link(Roots, a, p, ds)
    BY <1>1, <1>2, <1>3, <1>4, <1>7, LinkHolds
  <1>9. UNCHANGED <<answered, names, redo, recs>> /\ thread_ids' = Put(thread_ids, a, t)
    BY <1>4, <1>5 DEF SetColumn, history
  <1>10. op'.kids = ks
    BY <1>6, <1>7 DEF SetColumn, Request
  <1>11. \A i \in DOMAIN recs : Parent(i)' = Parent(i)
    BY <1>9 DEF Parent
  <1>12. PICK T1 : T1 = Column'
    OBVIOUS
  <1>13. PICK L1 : L1 = Lists
    OBVIOUS
  <1>14. L1 = Lists' /\ L1[a] = op'.md.thread
    BY <1>1, <1>7, <1>9, <1>13 DEF Lists
  <1>15. \A i \in DOMAIN recs : T1[i] = IF i = a THEN t ELSE Column[i]
    BY <1>9, <1>12 DEF Column, ThreadId, Put
  <1>16. Half(DOMAIN recs, Roots, T1, L1, a, ds) /\ Heading(DOMAIN recs, Roots, T1, L1, "save", a, p, t, ks)
    BY <1>7, <1>8, <1>13, <1>15, ColumnHeads
  <1>17. /\ Half(DOMAIN recs, Roots, T1, L1, op.idx, ds)
         /\ Heading(DOMAIN recs, Roots, T1, L1, "save", op.idx, op'.md.parent, op'.tid, op'.kids)
         /\ op'.md.thread = L1[op.idx]
    BY <1>1, <1>3, <1>4, <1>5, <1>10, <1>14, <1>16
  <1> QED  BY <1>1, <1>2, <1>9, <1>11, <1>12, <1>14, <1>17, RankThreads

\* The record is saved: its tree hangs from the parent.
LEMMA SaveRoots ==
    ASSUME IInv, IInv', Steady, ~Spoiled, ~Spoiled', Save, NEW a, a = op.idx, NEW p, p = op.md.parent
    PROVE  /\ Roots[a] = a /\ p # a => Roots[p] # a
           /\ DOMAIN recs' = DOMAIN recs
           /\ \A i \in DOMAIN recs : Roots'[i] = IF Roots[i] = a THEN Roots[p] ELSE Roots[i]
  <1>0. ~Circular /\ ~Circular'
    BY DEF Spoiled
  <1>1. op # Idle /\ a \in DOMAIN recs /\ recs' = [recs EXCEPT ![a] = op.md] /\ op.stage = "save"
    BY SaveRow DEF Save
  <1>2. PICK ds : ds = Dest(op.req)
    OBVIOUS
  <1>3. p \in DOMAIN recs /\ Link(Roots, a, p, ds) /\ (Parent(a) # a => p = Parent(a))
    BY <1>1, <1>2, LinkHolds
  <1>4. /\ DOMAIN recs' = DOMAIN recs /\ Parent(a)' = p
        /\ \A i \in DOMAIN recs : i # a => Parent(i)' = Parent(i)
    BY <1>1, <1>3, Lengths DEF Parent
  <1>5. Trees /\ Trees' /\ Rows' /\ \A i \in DOMAIN recs : Roots[i] = Top(i)
    BY <1>0, TreesHold, TreesHoldNext DEF Roots, IInv
  <1>6. CASE Roots[a] # a \/ p = a
    <2>1. Parent(a)' = Parent(a)
      BY <1>1, <1>3, <1>4, <1>5, <1>6 DEF Link, Trees
    <2>2. Roots' = Roots
      BY <1>0, <1>4, <2>1, SameRoots
    <2>3. \A i \in DOMAIN recs : Roots[i] = a => Roots[a] = a
      BY <1>5 DEF Trees
    <2> QED  BY <1>4, <1>6, <2>2, <2>3
  <1>7. CASE Roots[a] = a /\ p # a
    <2>1. Top(a) = a
      BY <1>1, <1>5, <1>7
    <2>2. ASSUME Top(p) = a PROVE FALSE
      <3> DEFINE Z == {j \in DOMAIN recs : Top(j) = a}
      <3>1. Z \in SUBSET DOMAIN recs' /\ a \in Z
        BY <1>1, <1>4, <2>1
      <3>2. \A j \in Z : Parent(j)' \in Z
        BY <1>3, <1>4, <1>5, <2>2 DEF Trees
      <3>3. \A j \in Z : j # a => Parent(j) # j
        BY <1>5 DEF Trees
      <3> HIDE DEF Z
      <3>4. PICK z : z = Top(a)'
        OBVIOUS
      <3>5. z \in Z
        <4>1. \A j \in Z : Top(j)' \in Z
          BY <1>5, <3>1, <3>2, WalkStaysNext
        <4> QED  BY <3>1, <3>4, <4>1
      <3>6. Parent(z)' = z
        <4>1. \A i \in DOMAIN recs' : \A x : x = Top(i)' => Parent(x)' = x
          BY <1>5 DEF Trees
        <4> QED  BY <1>1, <1>4, <3>4, <4>1
      <3>7. z \in DOMAIN recs
        BY <1>4, <3>1, <3>5
      <3> QED  BY <1>4, <1>7, <3>3, <3>5, <3>6, <3>7
    <2> DEFINE f == [i \in DOMAIN recs |-> IF Top(i) = a THEN Top(p) ELSE Top(i)]
    <2>3. \A i \in DOMAIN recs : f[i] = IF Top(i) = a THEN Top(p) ELSE Top(i)
      OBVIOUS
    <2> HIDE DEF f
    <2>4. \A i \in DOMAIN recs : Parent(i)' = IF i = a THEN p ELSE Parent(i)
      BY <1>4
    <2>5. ASSUME NEW i \in DOMAIN recs, i # a PROVE f[Parent(i)] = f[i] /\ (Parent(i) = i => f[i] = i)
      BY <1>5, <2>3, <2>5 DEF Trees
    <2>6. f[p] = f[a]
      BY <1>1, <1>3, <2>1, <2>2, <2>3
    <2>7. \A i \in DOMAIN recs' : f[Parent(i)'] = f[i] /\ (Parent(i)' = i => f[i] = i)
      BY <1>4, <1>7, <2>4, <2>5, <2>6
    <2>8. \A i \in DOMAIN recs' : Top(i)' = f[i]
      BY <1>0, <2>7, TopIsUniqueNext
    <2>9. \A i \in DOMAIN recs : Roots'[i] = f[i]
      BY <1>4, <2>8 DEF Roots
    <2> QED  BY <1>3, <1>4, <1>5, <2>2, <2>3, <2>9
  <1> QED  BY <1>6, <1>7
LEMMA SaveThreads ==
    ASSUME IInv, IInv', Steady, Threaded, ~Spoiled, ~Spoiled', Save
    PROVE  Threaded'
  <1>1. op # Idle /\ op.stage = "save" /\ recs' = [recs EXCEPT ![op.idx] = op.md]
    BY SaveRow DEF Save
  <1>2. PICK ds : ds = Dest(op.req)
    OBVIOUS
  <1>3. PICK p : p = op.md.parent
    OBVIOUS
  <1>4. PICK a : a = op.idx
    OBVIOUS
  <1>5. PICK t : t = op.tid
    OBVIOUS
  <1>6. PICK ks : ks = op.kids
    OBVIOUS
  <1>7. /\ Half(DOMAIN recs, Roots, Column, Lists, a, ds) /\ op.md.thread = recs[a].thread
        /\ a \in DOMAIN recs /\ Shape(DOMAIN recs, Roots, Lists) /\ ~Circular
        /\ Heading(DOMAIN recs, Roots, Column, Lists, "save", a, p, t, ks)
        /\ Pending = {op.req}
    BY <1>1, <1>2, <1>3, <1>4, <1>5, <1>6, Midway DEF OnCourse
  <1>8. p \in DOMAIN recs /\ Link(Roots, a, p, ds)
    BY <1>1, <1>2, <1>3, <1>4, <1>7, LinkHolds
  <1>9. PICK R1 : R1 = Roots'
    OBVIOUS
  <1>10. /\ Roots[a] = a /\ p # a => Roots[p] # a
         /\ DOMAIN recs' = DOMAIN recs
         /\ \A i \in DOMAIN recs : R1[i] = IF Roots[i] = a THEN Roots[p] ELSE Roots[i]
    BY <1>3, <1>4, <1>7, <1>9, SaveRoots
  <1>11. Clean(DOMAIN recs, R1, Column, Lists)
    BY <1>7, <1>8, <1>10, SaveCleans
  <1>12. Column' = Column /\ Lists' = Lists
    <2>1. \A i \in DOMAIN recs : recs'[i].thread = recs[i].thread
      BY <1>1, <1>4, <1>7
    <2>2. thread_ids' = thread_ids
      BY DEF Save
    <2> QED  BY <1>10, <2>1, <2>2 DEF Column, Lists, ThreadId
  <1>13. Clean(DOMAIN recs', Roots', Column', Lists')
    BY <1>9, <1>10, <1>11, <1>12
  <1>14. op' = Idle /\ Pending' = {}
    BY <1>1, <1>7 DEF Save, Redone, Pending
  <1> QED  BY <1>13, <1>14 DEF Threaded

\* A request begins, over threads that are in order, or after it was cut short.
LEMMA OpenThreads ==
    ASSUME IInv, IInv', Steady, Threaded, ~Spoiled, ~Spoiled', NEW m \in Msgs, Opens(m)
    PROVE  Threaded'
  <1>1. PICK q : q = m
    OBVIOUS
  <1>2. /\ op = Idle /\ op' # Idle /\ op'.req = q /\ op'.stage = "parent"
        /\ m \in DOMAIN names' /\ op'.idx = names'[m] /\ UNCHANGED <<redo, thread_ids>>
        /\ op'.md.thread = recs'[op'.idx].thread
    BY <1>1 DEF Opens
  <1>3. Pending = redo /\ Pending' = redo \cup {q}
    BY <1>2 DEF Pending
  <1>4. redo = {} \/ redo = {q}
    BY <1>3 DEF Spoiled
  <1>5. Pending' = {q}
    BY <1>3, <1>4
  <1>6. OnCourse'
    BY <1>2 DEF OnCourse, Heading
  <1>7. /\ redo = {} => Clean(DOMAIN recs, Roots, Column, Lists)
        /\ redo = {q} => Halfway(q)
    BY <1>3 DEF Threaded
  <1>8. names'[m] \in DOMAIN recs'
    BY <1>2 DEF IInv, Rows, RowsOf
  <1>9. ~Circular /\ ~Circular'
    BY DEF Spoiled
  <1>10. CASE UNCHANGED <<recs, names>>
    <2>1. Roots' = Roots
      BY <1>9, <1>10, SameRoots DEF Parent
    <2>2. Column' = Column /\ Lists' = Lists
      BY <1>2, <1>10 DEF Column, Lists, ThreadId
    <2>4. CASE redo = {}
      <3>1. Clean(DOMAIN recs', Roots', Column', Lists')
        BY <1>7, <1>10, <2>1, <2>2, <2>4
      <3>2. Half(DOMAIN recs', Roots', Column', Lists', names'[m], Dest(q)')
        BY <1>8, <3>1, CleanIsHalf
      <3> QED  BY <1>1, <1>5, <1>6, <3>2 DEF Threaded, Halfway
    <2>5. CASE redo = {q}
      <3>1. Half(DOMAIN recs, Roots, Column, Lists, names[q], Dest(q))
        BY <1>7, <2>5 DEF Halfway
      <3>2. PICK r : r = ReplyTo(op.md)'
        OBVIOUS
      <3>3. answered[q] \subseteq answered'[q] /\ answered'[q] = {r} \ {NoMsg}
        BY <1>1, <3>2 DEF Opens, Spoiled
      <3>4. ASSUME answered[q] = {} PROVE Halfway(q)'
        <4>1. Dest(q) = {}
          BY <3>4 DEF Dest
        <4>2. Half(DOMAIN recs, Roots, Column, Lists, names[q], {})
          BY <3>1, <4>1
        <4>3. names[q] \in DOMAIN recs
          BY <1>1, <1>8, <1>10
        <4>4. \A ds : Half(DOMAIN recs, Roots, Column, Lists, names[q], ds)
          BY <4>2, <4>3, HalfAnywhere
        <4> QED  BY <1>10, <2>1, <2>2, <4>4 DEF Halfway
      <3>5. ASSUME answered[q] # {} PROVE Halfway(q)'
        <4>1. answered'[q] = answered[q]
          BY <3>3, <3>5
        <4>2. Dest(q)' = Dest(q)
          BY <1>10, <2>1, <4>1 DEF Dest
        <4> QED  BY <1>10, <2>1, <2>2, <3>1, <4>2 DEF Halfway
      <3>6. Halfway(q)'
        BY <3>4, <3>5
      <3> QED  BY <1>5, <1>6, <3>6 DEF Threaded
    <2> QED  BY <1>4, <2>4, <2>5
  <1>11. CASE AddNew(m)
    <2>1. redo = {}
      BY <1>1, <1>4, <1>11 DEF AddNew, Steady
    <2>2. PICK k : k = Len_ + 1
      OBVIOUS
    <2>3. /\ DOMAIN recs' = DOMAIN recs \cup {k} /\ recs'[k] = Received(m)
          /\ \A i \in DOMAIN recs : recs'[i] = recs[i]
          /\ k \notin DOMAIN recs
      <3>1. Len_ \in Nat /\ DOMAIN recs = 1 .. Len_
        BY Lengths
      <3>2. k \notin DOMAIN recs
        BY <2>2, <3>1
      <3> QED  BY <1>11, <2>2, <3>2, AddNewStarts
    <2>4. Received(m).parent = 0 /\ Received(m).thread = {}
      BY <1>11, AddNewRow
    <2>5. Parent(k)' = k /\ \A i \in DOMAIN recs : Parent(i)' = Parent(i)
      BY <2>3, <2>4 DEF Parent
    <2>6. Roots'[k] = k /\ \A i \in DOMAIN recs : Roots'[i] = Roots[i]
      BY <1>9, <2>3, <2>5, MoreRoots
    <2>7. \A i \in DOMAIN recs : Column'[i] = Column[i] /\ Lists'[i] = Lists[i]
      BY <1>2, <2>3 DEF Column, Lists, ThreadId
    <2>8. Column'[k] = k /\ Lists'[k] = {}
      BY <1>2, <2>3, <2>4 DEF Column, Lists, ThreadId, IInv, Columns
    <2>9. Grows(DOMAIN recs, Roots, Column, Lists, k, DOMAIN recs', Roots', Column', Lists')
      BY <2>3, <2>6, <2>7, <2>8 DEF Grows
    <2>10. Clean(DOMAIN recs', Roots', Column', Lists')
      BY <1>7, <1>9, <2>1, <2>9, ShapeHolds, CleanGrows
    <2>11. Half(DOMAIN recs', Roots', Column', Lists', names'[m], Dest(q)')
      BY <1>8, <2>10, CleanIsHalf
    <2> QED  BY <1>1, <1>5, <1>6, <2>11 DEF Threaded, Halfway
  <1> QED  BY <1>10, <1>11 DEF Opens

\* Nothing is stored, and the request in progress, if there is one, is cut short.
LEMMA IdleThreads ==
    ASSUME IInv, IInv', Threaded, ~Spoiled, ~Spoiled', op' = op \/ op' = Idle, Pending' = Pending,
           UNCHANGED <<answered, recs, names, thread_ids>>
    PROVE  Threaded'
  <1>1. Roots' = Roots
    BY SameRoots DEF Parent, Spoiled
  <1>2. Column' = Column /\ Lists' = Lists
    BY DEF Column, Lists, ThreadId
  <1>3. ASSUME NEW q, Halfway(q) PROVE Halfway(q)'
    <2>1. Dest(q)' = Dest(q)
      BY <1>1, SameDest
    <2> QED  BY <1>1, <1>2, <1>3, <2>1 DEF Halfway
  <1>4. op' # Idle => (OnCourse => OnCourse')
    BY <1>1, <1>2 DEF OnCourse
  <1>5. Clean(DOMAIN recs, Roots, Column, Lists) => Clean(DOMAIN recs', Roots', Column', Lists')
    BY <1>1, <1>2
  <1> QED  BY <1>3, <1>4, <1>5 DEF Threaded

LEMMA ThreadedStep == ASSUME IInv, IInv', Steady, Threaded, Next PROVE Threaded'
  <1> SUFFICES ASSUME ~Spoiled' PROVE Threaded'
    BY DEF Threaded
  <1>1. ~Spoiled
    BY SpoiledStep
  <1>2. ASSUME NEW m \in Msgs, AddNew(m) \/ AddAgain(m) PROVE Threaded'
    BY <1>1, <1>2, AddNewOpens, AddAgainOpens, OpenThreads
  <1>3. ASSUME NEW m \in Msgs, NEW dsn \in Msgs \cup {NoMsg}, Annotate(m, dsn) PROVE Threaded'
    BY <1>1, <1>3, AnnotateOpens, OpenThreads
  <1>4. CASE Rank
    BY <1>1, <1>4, QuietThreads, MakeGhostThreads, RankGhostThreads, JoinThreadThreads,
       MoveKidThreads, SetColumnThreads, SaveThreads DEF Rank
  <1>5. CASE MakeThreadCache \/ Kill
    <2>1. op' = Idle /\ UNCHANGED <<answered, recs, names, thread_ids>> /\ Pending' = Pending
      BY <1>5 DEF MakeThreadCache, Kill, Pending, store, history
    <2> QED  BY <1>1, <2>1, IdleThreads
  <1> QED  BY <1>2, <1>3, <1>4, <1>5 DEF Next

\* Between requests the column of threads agrees with the parents of the
\* records and a root lists its thread, in whatever order the messages of a
\* thread came and were annotated and wherever the worker was killed, if
\* what a kill cut short is the next request made, no messages answer each
\* other in a circle, and no message was first said to answer one message
\* and then another, or none.
THEOREM ThreadsStayConsistent == Spec => [](changed = {} => ThreadsConsistent)
  <1>1. Init => Steady /\ Threaded
    <2> SUFFICES ASSUME Init PROVE Steady /\ Threaded
      OBVIOUS
    <2>1. op = Idle /\ redo = {} /\ DOMAIN recs = {}
      BY DEF Init
    <2>2. Steady
      BY <2>1 DEF Steady
    <2>3. Pending = {}
      BY <2>1 DEF Pending
    <2> QED  BY <2>1, <2>2, <2>3 DEF Threaded, Clean
  <1>2. IInv /\ IInv' /\ Steady /\ Threaded /\ [Next]_vars => Steady' /\ Threaded'
    <2> SUFFICES ASSUME IInv, IInv', Steady, Threaded, [Next]_vars PROVE Steady' /\ Threaded'
      OBVIOUS
    <2>1. CASE Next
      BY <2>1, SteadyStep, ThreadedStep
    <2>2. CASE UNCHANGED vars
      <3>1. Steady'
        BY <2>2 DEF Steady, Known, Parent, ThreadId, ReplyTo, Len_, vars, history
      <3>2. UNCHANGED <<answered, recs, names, thread_ids>> /\ Pending' = Pending /\ op' = op
        BY <2>2 DEF vars, history, Pending
      <3>3. Spoiled => Spoiled'
        BY <2>2, <3>2 DEF Spoiled, Circular, vars, history
      <3>4. Threaded'
        BY <3>2, <3>3, IdleThreads DEF Threaded
      <3> QED  BY <3>1, <3>4
    <2> QED  BY <2>1, <2>2
  <1>3. IInv /\ Threaded => (changed = {} => ThreadsConsistent)
    <2> SUFFICES ASSUME IInv, Threaded, changed = {}, op = Idle, redo = {}, ~Circular, NEW i \in DOMAIN recs
                 PROVE  ThreadId(i) = Top(i) /\ (i = Top(i) \/ i \in recs[Top(i)].thread)
      BY DEF ThreadsConsistent
    <2>1. Pending = {}
      BY DEF Pending
    <2>2. Clean(DOMAIN recs, Roots, Column, Lists)
      BY <2>1 DEF Threaded, Spoiled
    <2>3. Column[i] = ThreadId(i) /\ Roots[i] = Top(i)
      BY DEF Column, Roots
    <2>4. Top(i) \in DOMAIN recs
      BY TreesHold DEF Trees
    <2>5. Lists[Top(i)] = recs[Top(i)].thread
      BY <2>4 DEF Lists
    <2> QED  BY <2>2, <2>3, <2>5 DEF Clean
  <1> QED  BY <1>1, <1>2, <1>3, Invariance, PTL DEF Spec

=============================================================================
