------------------------------ MODULE CronProofs ------------------------------
(***************************************************************************)
(* Proofs about the scheduler, for any jobs, periods, crontabs, edits,     *)
(* kills, ticks that raise and one hour that comes twice: no job but those *)
(* runs twice for the same time, and a job that may not be skipped has run *)
(* for every time it was due.                                              *)
(***************************************************************************)
EXTENDS Cron, SequenceTheorems, WellFoundedInduction, TLAPS

Row == [job : AllJobs, src : {"app.core", "crontab"}, next : Nat, made : Nat]
Copy == [id : Nat, job : AllJobs, next : Nat]
Running == [stage : {"due", "yielded"}, now : Nat, ahead : Copy \cup {NoRow},
            reruns : Nat, row : Copy \cup {NoRow}, ts : Nat, joins : BOOLEAN]

\* The table: each source names jobs of its own.
TableOK ==
    /\ id_counter \in Nat
    /\ \A i \in DOMAIN tab :
          /\ i \in Nat \ {0} /\ i <= id_counter /\ tab[i] \in Row
          /\ tab[i].src = "app.core" <=> tab[i].job = Loader
          /\ tab[i].made <= now
    /\ \A i, k \in DOMAIN tab : tab[i].job = tab[k].job => i = k

\* A tick and the loader run only while the app is up.
InTick == tick.stage \in {"due", "yielded"}
StageOK ==
    /\ InTick => state = "up" /\ tick \in Running /\ tick.now <= now
    /\ loader # "no" => state = "up"
    /\ tick.stage = "yielded" => tick.row # NoRow
    /\ tick.stage \in {"no", "internal", "save", "crontab", "started", "due", "yielded"}
    /\ tick.stage = "save" => tick.then \in {"crontab", "started"}
    /\ state = "down" => tick = NoTick

\* A cut file means a save in progress or a kill.
FileOK ==
    /\ now \in Nat /\ kills \in Nat /\ text \in Texts
    /\ file = "cut" => saving # "no" \/ kills > 0
    /\ state = "down" => saving = "no"

\* A run that is not excused: no tick raised at the job, and the time does not
\* come twice.
Settled(j, t) == j \notin raised /\ t \notin Repeated
\* No time up to u is n or later, but for those that come twice.
Clear(u, n) == \A t \in Nat : t \notin Repeated /\ t <= u => t < n

\* A row that the tick has read is as it was, or it was deleted; another row
\* for its job was made since, and is due later than the tick.
Others(rows, u, r) == \A i \in DOMAIN rows : rows[i].job = r.job => i = r.id \/ Clear(u, rows[i].next)
AheadOK ==
    InTick /\ tick.ahead # NoRow =>
        /\ tick.ahead.next <= tick.now /\ Others(tab, tick.now, tick.ahead)
        /\ tick.ahead.id \in DOMAIN tab =>
              tab[tick.ahead.id].job = tick.ahead.job /\ tab[tick.ahead.id].next = tick.ahead.next
        /\ tick.ahead.id <= id_counter
        /\ \A t \in Nat : <<tick.ahead.job, t>> \in ran /\ Settled(tick.ahead.job, t) => t < tick.ahead.next
\* Two rows for one job are in a tick's hands only if the first is deleted.
Distinct(row, a) ==
    a # NoRow => a.id # row.id /\ (a.job = row.job => row.id \notin DOMAIN tab /\ Clear(tick.now, a.next))
RowOK ==
    tick.stage = "yielded" =>
        /\ tick.ts <= tick.now /\ Others(tab, tick.now, tick.row)
        /\ tick.row.id \in DOMAIN tab => tab[tick.row.id].job = tick.row.job
        /\ tick.row.id <= id_counter
        /\ \A t \in Nat : <<tick.row.job, t>> \in ran /\ Settled(tick.row.job, t) => t <= tick.ts
        /\ Distinct(tick.row, tick.ahead)

\* The row that is being run.
AtWork(i) == tick.stage = "yielded" /\ i = tick.row.id

\* Jobs ran before the time they are next due, and not in the future.
RanOK ==
    /\ \A j \in AllJobs, t \in Nat : <<j, t>> \in ran => t <= now
    /\ \A i \in DOMAIN tab : ~AtWork(i) =>
          \A t \in Nat : <<tab[i].job, t>> \in ran /\ Settled(tab[i].job, t) => t < tab[i].next

\* A no-skip job ran at all of its times from t up to but without u.
Caught(j, t, u) == j \in NoSkip => \A v \in Times(j, t, u) : <<j, v>> \in ran
CaughtUp ==
    \A i \in DOMAIN tab :
        /\ Caught(tab[i].job, tab[i].made, tab[i].next)
        /\ AtWork(i) => Caught(tab[i].job, tab[i].made, tick.ts + 1)

\* The inductive invariant.
IInv == TypeOK /\ TableOK /\ StageOK /\ FileOK /\ AheadOK /\ RowOK /\ RanOK /\ CaughtUp /\ RunsOnce
-----------------------------------------------------------------------------
\* A multiple of p strictly between - p and 0 there is not.
LEMMA NoMultiple ==
    ASSUME NEW p \in Nat, p > 0, NEW k \in Int, NEW e \in Int, e = p * k, e < 0
    PROVE  e <= 0 - p
  <1>1. CASE k >= 0
    <2>1. p * k >= 0
      BY <1>1
    <2> QED  BY <2>1
  <1>2. CASE k <= -1
    <2>1. p * k <= p * (-1)
      BY <1>2
    <2>2. p * (-1) = 0 - p
      OBVIOUS
    <2> QED  BY <2>1, <2>2
  <1> QED  BY <1>1, <1>2

\* The next local time of a job, with none in between.
LEMMA NextLocalTime ==
    ASSUME NEW j \in AllJobs, NEW t \in Nat
    PROVE  /\ NextLocal(j, t) \in Nat /\ NextLocal(j, t) > t
           /\ \A v \in Nat : t < v /\ v < NextLocal(j, t) => v % Period[j] # Phase[j]
  <1> DEFINE p == Period[j]
             f == Phase[j]
             d == (f - (t + 1)) % p
  <1>1. p \in Nat /\ p > 0 /\ f \in Nat /\ f < p
    BY JobsAssumption
  <1>2. NextLocal(j, t) = t + 1 + d
    BY DEF NextLocal
  <1> HIDE DEF p, f
  <1>3. d \in Nat /\ d < p
    BY <1>1
  <1>4. ASSUME NEW v \in Nat, t < v, v < t + 1 + d, v % p = f PROVE FALSE
    <2> DEFINE q == v \div p
               r == (f - (t + 1)) \div p
    <2>1. q \in Int /\ v = p * q + f
      BY <1>1, <1>4
    <2>2. r \in Int /\ f - (t + 1) = p * r + d
      BY <1>1
    <2>3. p * (q + r) = p * q + p * r
      BY <1>1, <2>1, <2>2
    <2> HIDE DEF q, r, d
    <2>4. p * q \in Int /\ p * r \in Int
      BY <1>1, <2>1, <2>2
    <2>5. v - (t + 1) - d = p * (q + r)
      BY <1>1, <1>3, <2>1, <2>2, <2>3, <2>4
    <2>6. v - (t + 1) - d < 0 /\ v - (t + 1) - d > 0 - p
      BY <1>1, <1>3, <1>4
    <2>7. v - (t + 1) - d \in Int /\ q + r \in Int
      BY <1>3, <2>1, <2>2
    <2>8. v - (t + 1) - d <= 0 - p
      BY <1>1, <2>5, <2>6, <2>7, NoMultiple
    <2> QED  BY <1>1, <1>3, <2>6, <2>8
  <1>5. t + 1 + d \in Nat /\ t + 1 + d > t
    BY <1>3
  <1> QED  BY <1>2, <1>4, <1>5 DEF p, f

\* calculate_next(): the next time of a job, with none in between; it is later
\* than t but in the hour that comes twice.
LEMMA NextTime ==
    ASSUME NEW j \in AllJobs, NEW t \in Nat
    PROVE  /\ CalculateNext(j, t) \in Nat /\ Clear(t, CalculateNext(j, t))
           /\ \A v \in Nat : t < v /\ v < CalculateNext(j, t) /\ v \notin SecondPass
                              => Local(v) % Period[j] # Phase[j]
  <1> DEFINE l == Local(t)
             n == NextLocal(j, l)
  <1>1. Back \in Nat /\ Shift \in Nat /\ Shift <= Back
    BY ClockAssumption
  <1>2. l \in Nat /\ (t < Back => l = t) /\ (t >= Back => l = t - Shift)
    BY <1>1 DEF Local
  <1>3. n \in Nat /\ n > l /\ \A v \in Nat : l < v /\ v < n => v % Period[j] # Phase[j]
    <2> HIDE DEF l
    <2> QED  BY <1>2, NextLocalTime
  <1>4. CalculateNext(j, t) = IF n < Back THEN n ELSE n + Shift
    BY DEF CalculateNext, Timestamp
  <1> HIDE DEF l, n
  <1>5. CalculateNext(j, t) \in Nat
    BY <1>1, <1>3, <1>4
  <1>6. Clear(t, CalculateNext(j, t))
    <2>1. ASSUME NEW v \in Nat, v < Back - Shift \/ v >= Back + Shift, v <= t PROVE v < CalculateNext(j, t)
      BY <1>1, <1>2, <1>3, <1>4, <2>1
    <2>2. ASSUME NEW v \in Nat, v \notin Repeated PROVE v < Back - Shift \/ v >= Back + Shift
      BY <1>1, <2>2 DEF Repeated
    <2> QED  BY <2>1, <2>2 DEF Clear
  <1>7. ASSUME NEW v \in Nat, t < v, v < CalculateNext(j, t), v \notin SecondPass
        PROVE  Local(v) % Period[j] # Phase[j]
    <2>1. v < Back \/ v >= Back + Shift
      BY <1>1, <1>7 DEF SecondPass
    <2>2. Local(v) \in Nat /\ l < Local(v) /\ Local(v) < n
      BY <1>1, <1>2, <1>3, <1>4, <1>7, <2>1 DEF Local
    <2> QED  BY <1>3, <2>2
  <1> QED  BY <1>5, <1>6, <1>7

\* A non-empty set of natural numbers has a least element.
LEMMA LeastOf == ASSUME NEW S, S \subseteq Nat, S # {} PROVE \E n \in S : \A m \in S : n <= m
  <1>1. PICK n \in S : \A m \in S : <<m, n>> \notin OpToRel(<, Nat)
    BY NatLessThanWellFounded, WFMin
  <1>2. \A m \in S : ~(m < n)
    BY <1>1 DEF OpToRel
  <1> QED  BY <1>2

\* The lines that are used are those before the first that does not parse.
LEMMA LinesFacts ==
    ASSUME NEW lines \in Seq(AllJobs \cup {Bad})
    PROVE  /\ Len(Lines(lines)) \in Nat /\ Len(Lines(lines)) <= Len(lines)
           /\ \A i \in 1 .. Len(Lines(lines)) : /\ Lines(lines)[i] = lines[i] /\ i \in DOMAIN lines
                                                /\ lines[i] # Bad /\ lines[i] \in AllJobs
  <1> DEFINE Good(n) == /\ \A i \in 1 .. n : ~Unusable(lines[i])
                        /\ n < Len(lines) => Unusable(lines[n + 1])
  <1>1. Len(lines) \in Nat /\ DOMAIN lines = 1 .. Len(lines)
    BY LenProperties
  <1>2. \E n \in 0 .. Len(lines) : Good(n)
    <2> DEFINE S == {i \in 1 .. Len(lines) : Unusable(lines[i])}
    <2>1. CASE S = {}
      <3>1. Good(Len(lines))
        BY <1>1, <2>1
      <3> QED  BY <1>1, <3>1
    <2>2. CASE S # {}
      <3>1. PICK i \in S : \A k \in S : i <= k
        <4>1. S \subseteq Nat
          BY <1>1
        <4> QED  BY <2>2, <4>1, LeastOf
      <3>2. i \in Nat /\ i >= 1 /\ i <= Len(lines) /\ Unusable(lines[i])
        BY <1>1
      <3>4. Good(i - 1)
        BY <1>1, <3>1, <3>2
      <3>5. i - 1 \in 0 .. Len(lines)
        BY <1>1, <3>2
      <3> HIDE DEF Good
      <3> QED  BY <3>4, <3>5
    <2> QED  BY <2>1, <2>2
  <1> DEFINE n == CHOOSE n \in 0 .. Len(lines) : Good(n)
  <1>3. n \in 0 .. Len(lines) /\ Good(n)
    <2> HIDE DEF Good
    <2> QED  BY <1>2
  <1>4. Lines(lines) = SubSeq(lines, 1, n)
    BY DEF Lines
  <1> HIDE DEF n
  <1>5. n \in Nat /\ n <= Len(lines)
    BY <1>1, <1>3
  <1>6. Len(SubSeq(lines, 1, n)) = n /\ \A i \in 1 .. n : SubSeq(lines, 1, n)[i] = lines[i]
    <2>1. \A k \in 1 .. n : k \in 1 .. Len(lines)
      BY <1>1, <1>5
    <2> QED  BY <1>5, <1>1, <2>1, SubSeqProperties
  <1>8. \A i \in 1 .. n : lines[i] # Bad
    BY <1>3 DEF Unusable
  <1>7. \A i \in 1 .. n : lines[i] \in AllJobs
    BY <1>1, <1>3, <1>5, <1>8, ElementOfSeq
  <1> QED  BY <1>1, <1>3, <1>4, <1>5, <1>6, <1>7, <1>8
-----------------------------------------------------------------------------
\* Every row of the next table was there before, or is made now.
Grown ==
    /\ id_counter <= id_counter' /\ id_counter' \in Nat
    /\ \A i \in DOMAIN tab' :
          \/ i \in DOMAIN tab /\ tab'[i] = tab[i]
          \/ /\ i > id_counter /\ i \in Nat /\ tab'[i].made = now /\ tab'[i].job \in AllJobs
             /\ tab'[i].next = CalculateNext(tab'[i].job, now)

\* parse_crontab(): the rows of a source are replaced.
LEMMA ParseFacts ==
    ASSUME TableOK, now \in Nat, now' = now, NEW src \in {"app.core", "crontab"},
           NEW lines \in Seq(AllJobs \cup {Bad}), Parse(src, lines),
           \A i, k \in DOMAIN lines : lines[i] = lines[k] /\ lines[i] # Bad => i = k,
           \A i \in DOMAIN lines : lines[i] # Bad => (lines[i] = Loader <=> src = "app.core")
    PROVE  TableOK' /\ Grown
  <1> DEFINE new == Lines(lines)
             n == Len(new)
             row(j) == [job |-> j, src |-> src, next |-> CalculateNext(j, now), made |-> now]
  <1>1. /\ n \in Nat
        /\ \A i \in 1 .. n : /\ new[i] = lines[i] /\ i \in DOMAIN lines
                             /\ lines[i] # Bad /\ lines[i] \in AllJobs
    BY LinesFacts
  <1>2. /\ tab' = [i \in Kept(src) \cup (id_counter + 1 .. id_counter + n) |->
                    IF i \in Kept(src) THEN tab[i] ELSE row(new[i - id_counter])]
        /\ id_counter' = id_counter + n
    BY DEF Parse
  <1> HIDE DEF new, n
  <1>3. id_counter \in Nat /\ id_counter' \in Nat /\ id_counter <= id_counter'
    BY <1>1, <1>2 DEF TableOK
  <1>4. ASSUME NEW i \in Kept(src)
        PROVE  /\ i \in DOMAIN tab /\ tab'[i] = tab[i] /\ tab[i].src # src
               /\ i \in Nat \ {0} /\ i <= id_counter
    BY <1>2 DEF Kept, TableOK
  <1>5. ASSUME NEW i \in DOMAIN tab', i \notin Kept(src)
        PROVE  /\ i \in Nat /\ i > id_counter /\ i <= id_counter' /\ i - id_counter \in 1 .. n
               /\ tab'[i] = row(new[i - id_counter])
    <2>1. i \in id_counter + 1 .. id_counter + n /\ tab'[i] = row(new[i - id_counter])
      BY <1>2, <1>5
    <2> QED  BY <1>1, <1>2, <1>3, <2>1
  <1>6. ASSUME NEW i \in DOMAIN tab', i \notin Kept(src)
        PROVE  /\ tab'[i] \in Row /\ tab'[i].src = src /\ tab'[i].made = now
               /\ tab'[i].job = lines[i - id_counter] /\ tab'[i].job \in AllJobs
               /\ tab'[i].next = CalculateNext(tab'[i].job, now)
               /\ (tab'[i].job = Loader <=> src = "app.core")
    <2>1. i - id_counter \in 1 .. n /\ tab'[i] = row(new[i - id_counter])
      BY <1>5, <1>6
    <2>2. /\ new[i - id_counter] = lines[i - id_counter] /\ lines[i - id_counter] \in AllJobs
          /\ (lines[i - id_counter] = Loader <=> src = "app.core")
      BY <1>1, <2>1
    <2>3. CalculateNext(lines[i - id_counter], now) \in Nat
      BY <2>2, NextTime
    <2> QED  BY <2>1, <2>2, <2>3 DEF Row
  <1>7. Grown
    BY <1>3, <1>4, <1>5, <1>6 DEF Grown
  <1>8. ASSUME NEW i \in DOMAIN tab'
        PROVE  /\ i \in Nat \ {0} /\ i <= id_counter' /\ tab'[i] \in Row
               /\ (tab'[i].src = "app.core" <=> tab'[i].job = Loader)
               /\ tab'[i].made <= now'
    <2>1. CASE i \in Kept(src)
      BY <1>3, <1>4, <2>1 DEF TableOK
    <2>2. CASE i \notin Kept(src)
      <3>1. i \in Nat \ {0} /\ i <= id_counter'
        BY <1>3, <1>5, <2>2
      <3> QED  BY <1>6, <2>2, <3>1
    <2> QED  BY <2>1, <2>2
  <1>9. ASSUME NEW i \in DOMAIN tab', NEW k \in DOMAIN tab', tab'[i].job = tab'[k].job
        PROVE  i = k
    <2>1. CASE i \in Kept(src) /\ k \in Kept(src)
      BY <1>4, <1>9, <2>1 DEF TableOK
    <2>s. tab'[i].src = tab'[k].src
      BY <1>8, <1>9 DEF Row
    <2>2. CASE i \in Kept(src) /\ k \notin Kept(src)
      BY <1>4, <1>6, <2>s, <2>2
    <2>3. CASE i \notin Kept(src) /\ k \in Kept(src)
      BY <1>4, <1>6, <2>s, <2>3
    <2>4. CASE i \notin Kept(src) /\ k \notin Kept(src)
      <3>1. lines[i - id_counter] = lines[k - id_counter]
            /\ i - id_counter \in 1 .. n /\ k - id_counter \in 1 .. n /\ i \in Nat /\ k \in Nat
        BY <1>5, <1>6, <1>9, <2>4
      <3>2. i - id_counter = k - id_counter
        BY <1>1, <3>1
      <3> QED  BY <1>3, <3>1, <3>2
    <2> QED  BY <2>1, <2>2, <2>3, <2>4
  <1>10. TableOK'
    BY <1>3, <1>8, <1>9 DEF TableOK
  <1> QED  BY <1>7, <1>10

\* A new row is due later than now, but for times that come twice, so the tick and its runs do not notice.
LEMMA ParseKeeps ==
    ASSUME TableOK, StageOK, now \in Nat, AheadOK, RowOK, RanOK, CaughtUp, Grown,
           UNCHANGED <<now, ran, raised>>, UNCHANGED tick \/ (~InTick /\ ~InTick')
    PROVE  AheadOK' /\ RowOK' /\ RanOK' /\ CaughtUp'
  <1>1. ASSUME NEW i \in DOMAIN tab', ~(i \in DOMAIN tab /\ tab'[i] = tab[i])
        PROVE  /\ i > id_counter /\ i \in Nat /\ tab'[i].made = now /\ tab'[i].job \in AllJobs
               /\ tab'[i].next \in Nat /\ Clear(now, tab'[i].next)
               /\ \A v \in Nat : now < v /\ v < tab'[i].next /\ v \notin SecondPass =>
                     Local(v) % Period[tab'[i].job] # Phase[tab'[i].job]
    <2>1. /\ i > id_counter /\ i \in Nat /\ tab'[i].made = now /\ tab'[i].job \in AllJobs
          /\ tab'[i].next = CalculateNext(tab'[i].job, now)
      BY <1>1 DEF Grown
    <2> QED  BY <2>1, NextTime
  <1>2. id_counter \in Nat /\ id_counter' \in Nat /\ id_counter <= id_counter'
    BY DEF Grown, TableOK
  <1>3. ASSUME InTick', NEW r \in Copy, Others(tab, tick.now, r) PROVE Others(tab', tick.now, r)
    <2>1. tick.now \in Nat /\ tick.now <= now /\ tick' = tick
      BY <1>3 DEF InTick, StageOK, Running
    <2>2. \A n : Clear(now, n) => Clear(tick.now, n)
      BY <2>1 DEF Clear
    <2> QED  BY <1>1, <1>3, <2>1, <2>2 DEF Others
  <1>4. AheadOK'
    <2>1. SUFFICES ASSUME InTick', tick'.ahead # NoRow
          PROVE  /\ tick.ahead.next <= tick.now /\ Others(tab', tick.now, tick.ahead)
                 /\ tick.ahead.id \in DOMAIN tab' =>
                       tab'[tick.ahead.id].job = tick.ahead.job /\ tab'[tick.ahead.id].next = tick.ahead.next
                 /\ tick.ahead.id <= id_counter'
                 /\ \A t \in Nat : <<tick.ahead.job, t>> \in ran /\ Settled(tick.ahead.job, t) => t < tick.ahead.next
      BY DEF AheadOK, Settled
    <2>2. tick' = tick /\ InTick /\ tick.ahead \in Copy
      BY <2>1 DEF InTick, StageOK, Running
    <2>3. tick.ahead.id \in Nat /\ tick.ahead.id <= id_counter
      BY <2>1, <2>2 DEF AheadOK, Copy
    <2>4. tick.ahead.id <= id_counter' /\ ~(tick.ahead.id > id_counter)
      BY <1>2, <2>3
    <2> QED  BY <1>1, <1>3, <2>1, <2>2, <2>4 DEF AheadOK
  <1>5. RowOK'
    <2>1. SUFFICES ASSUME tick'.stage = "yielded"
          PROVE  /\ tick.ts <= tick.now /\ Others(tab', tick.now, tick.row)
                 /\ tick.row.id \in DOMAIN tab' => tab'[tick.row.id].job = tick.row.job
                 /\ tick.row.id <= id_counter'
                 /\ \A t \in Nat : <<tick.row.job, t>> \in ran /\ Settled(tick.row.job, t) => t <= tick.ts
                 /\ Distinct(tick.row, tick.ahead)'
                 /\ tick' = tick
      BY DEF RowOK, Settled
    <2>2. tick' = tick /\ InTick' /\ tick.stage = "yielded" /\ tick.row \in Copy
      BY <2>1 DEF InTick, StageOK, Running
    <2>3. tick.row.id \in Nat /\ tick.row.id <= id_counter
      BY <2>2 DEF RowOK, Copy
    <2>4. tick.row.id <= id_counter' /\ ~(tick.row.id > id_counter)
      BY <1>2, <2>3
    <2>5. Distinct(tick.row, tick.ahead)'
      <3>1. Distinct(tick.row, tick.ahead) /\ (tick.row.id \notin DOMAIN tab => tick.row.id \notin DOMAIN tab')
        BY <1>1, <2>2, <2>4 DEF RowOK
      <3> QED  BY <2>2, <3>1 DEF Distinct, Clear
    <2> QED  BY <1>1, <1>3, <2>2, <2>4, <2>5 DEF RowOK
  <1>6. ASSUME NEW i \in DOMAIN tab', AtWork(i)'
        PROVE  AtWork(i) /\ i \in DOMAIN tab /\ tab'[i] = tab[i] /\ tick' = tick
    <2>1. tick' = tick /\ AtWork(i)
      BY <1>6 DEF AtWork, InTick
    <2>2. i \in Nat /\ i <= id_counter
      BY <2>1 DEF AtWork, RowOK, StageOK, InTick, Running, Copy
    <2> QED  BY <1>1, <1>2, <2>1, <2>2
  <1>7. RanOK'
    <2>1. ASSUME NEW i \in DOMAIN tab', ~AtWork(i)', NEW t \in Nat, <<tab'[i].job, t>> \in ran,
                 Settled(tab'[i].job, t)
          PROVE  t < tab'[i].next
      <3>1. CASE i \in DOMAIN tab /\ tab'[i] = tab[i]
        <4>1. CASE ~AtWork(i)
          BY <2>1, <3>1, <4>1 DEF RanOK
        <4>2. CASE AtWork(i)
          BY <2>1, <4>2 DEF AtWork, InTick
        <4> QED  BY <4>1, <4>2
      <3>2. CASE ~(i \in DOMAIN tab /\ tab'[i] = tab[i])
        <4>1. t <= now
          BY <1>1, <2>1, <3>2 DEF RanOK
        <4> QED  BY <1>1, <2>1, <3>2, <4>1 DEF Clear, Settled
      <3> QED  BY <3>1, <3>2
    <2> QED  BY <2>1 DEF RanOK, Settled
  <1>8. CaughtUp'
    <2>1. ASSUME NEW i \in DOMAIN tab' PROVE Caught(tab[i].job, tab[i].made, tab[i].next)'
      <3>1. CASE i \in DOMAIN tab /\ tab'[i] = tab[i]
        BY <3>1 DEF CaughtUp, Caught
      <3>2. CASE ~(i \in DOMAIN tab /\ tab'[i] = tab[i])
        <4>1. Times(tab'[i].job, tab'[i].made, tab'[i].next) = {}
          BY <1>1, <3>2 DEF Times
        <4> QED  BY <4>1 DEF Caught
      <3> QED  BY <3>1, <3>2
    <2>2. ASSUME NEW i \in DOMAIN tab', AtWork(i)'
          PROVE  Caught(tab[i].job, tab[i].made, tick.ts + 1)'
      BY <1>6, <2>2 DEF CaughtUp, Caught
    <2> QED  BY <2>1, <2>2 DEF CaughtUp, Caught
  <1> QED  BY <1>4, <1>5, <1>7, <1>8
-----------------------------------------------------------------------------
\* What TypeOK says of the variables other than the table.
PlainTypes ==
    /\ now \in 0 .. MaxTime /\ state \in {"down", "start", "up", "broken"}
    /\ file \in {"whole", "cut"} /\ saving \in {"no", "start", "tick", "loader"}
    /\ loader \in {"no", "load", "save"}
    /\ state = "broken" => kills > 0

\* What the tick and the table have to do with the jobs that ran.
Runs == TableOK /\ AheadOK /\ RowOK /\ RanOK /\ CaughtUp /\ RunsOnce

\* The steps that leave the table and the runs alone.
LEMMA RunsKept ==
    ASSUME IInv, UNCHANGED <<now, tab, id_counter, ran, twice, raised>>,
           UNCHANGED tick \/ (tick.stage # "yielded" /\ ~InTick')
    PROVE  Runs'
  <1>1. TableOK' /\ RunsOnce'
    BY DEF IInv, TableOK, RunsOnce
  <1>2. CASE UNCHANGED tick
    BY <1>1, <1>2 DEF IInv, Runs, AheadOK, RowOK, RanOK, CaughtUp, Caught, AtWork, Others, InTick,
                        Settled, Distinct, Clear
  <1>3. CASE tick.stage # "yielded" /\ ~InTick'
    <2>1. ~AtWork(0) /\ \A i : ~AtWork(i) /\ ~AtWork(i)'
      BY <1>3 DEF AtWork, InTick
    <2>2. AheadOK' /\ RowOK'
      BY <1>3 DEF AheadOK, RowOK, InTick
    <2>3. RanOK' /\ CaughtUp'
      BY <2>1 DEF IInv, RanOK, CaughtUp, Caught, Settled
    <2> QED  BY <1>1, <2>2, <2>3 DEF Runs
  <1> QED  BY <1>2, <1>3

\* A crontab, or the one line of crontab_internal, is parsed.
LEMMA RunsParse ==
    ASSUME IInv, ParseInternal \/ ParseCrontab \/ LoadCrontab
    PROVE  Runs'
  <1>1. /\ TableOK /\ StageOK /\ now \in Nat /\ text \in Texts /\ AheadOK /\ RowOK /\ RanOK
        /\ CaughtUp /\ RunsOnce
    BY DEF IInv, FileOK
  <1>2. UNCHANGED <<now, ran, twice, raised>> /\ (UNCHANGED tick \/ (~InTick /\ ~InTick'))
    BY DEF ParseInternal, ParseCrontab, LoadCrontab, history, InTick
  <1>3. CASE Parse("app.core", <<Loader>>)
    <2>1. <<Loader>> \in Seq(AllJobs \cup {Bad}) /\ DOMAIN <<Loader>> = {1} /\ <<Loader>>[1] = Loader
      BY DEF AllJobs
    <2>2. TableOK' /\ Grown
      BY <1>1, <1>2, <1>3, <2>1, ParseFacts
    <2> QED  BY <1>1, <1>2, <2>2, ParseKeeps DEF Runs, RunsOnce
  <1>4. CASE Parse("crontab", text)
    <2>1. text \in Seq(Jobs \cup {Bad})
      BY <1>1, JobsAssumption
    <2>2. text \in Seq(AllJobs \cup {Bad}) /\ \A i \in DOMAIN text : text[i] \in Jobs \cup {Bad}
      BY <2>1 DEF AllJobs
    <2>3. \A i, k \in DOMAIN text : text[i] = text[k] /\ text[i] # Bad => i = k
      BY <1>1, LinesAssumption
    <2>4. \A i \in DOMAIN text : text[i] # Bad => text[i] # Loader
      BY <2>2, JobsAssumption
    <2>5. TableOK' /\ Grown
      BY <1>1, <1>2, <1>4, <2>2, <2>3, <2>4, ParseFacts
    <2> QED  BY <1>1, <1>2, <2>5, ParseKeeps DEF Runs, RunsOnce
  <1> QED  BY <1>3, <1>4 DEF ParseInternal, ParseCrontab, LoadCrontab

\* The cursor hands out a row that is due and that the tick has not passed.
LEMMA AheadFacts ==
    ASSUME TableOK, NEW last \in Nat, NEW t \in Nat
    PROVE  \/ Ahead(last, t) = NoRow
           \/ /\ Ahead(last, t) \in Copy /\ Ahead(last, t).id \in DOMAIN tab
              /\ Ahead(last, t).id > last /\ Ahead(last, t).next <= t
              /\ Ahead(last, t).id <= id_counter
              /\ Ahead(last, t).job = tab[Ahead(last, t).id].job
              /\ Ahead(last, t).next = tab[Ahead(last, t).id].next
  <1> DEFINE S == DueAfter(last, t)
             i == CHOOSE i \in S : \A k \in S : i <= k
  <1>1. CASE S = {}
    BY <1>1 DEF Ahead
  <1>2. CASE S # {}
    <2>1. S \subseteq Nat
      BY DEF DueAfter, TableOK
    <2>2. i \in S
      BY <1>2, <2>1, LeastOf
    <2>3. i \in DOMAIN tab /\ i > last /\ tab[i].next <= t
      BY <2>2 DEF DueAfter
    <2>4. Ahead(last, t) = [id |-> i, job |-> tab[i].job, next |-> tab[i].next]
      BY <1>2 DEF Ahead
    <2>5. i \in Nat /\ i <= id_counter /\ tab[i].job \in AllJobs /\ tab[i].next \in Nat
      BY <2>3 DEF TableOK, Row
    <2> HIDE DEF i
    <2> QED  BY <2>3, <2>4, <2>5 DEF Copy
  <1> QED  BY <1>1, <1>2

\* A row that is handed out is a copy, with more to it than no row.
LEMMA CopyIsRow == ASSUME NEW r \in Copy PROVE r # NoRow
  <1>1. DOMAIN r = {"id", "job", "next"} /\ DOMAIN NoRow = {"id"}
    BY DEF Copy, NoRow
  <1> QED  BY <1>1
-----------------------------------------------------------------------------
\* A tick begins, and reads its first row.
LEMMA RunsBegin == ASSUME IInv, BeginTick PROVE Runs'
  <1>1. TableOK /\ RanOK /\ CaughtUp /\ RunsOnce /\ now \in Nat
    BY DEF IInv, FileOK
  <1>2. /\ tick = NoTick /\ UNCHANGED <<now, tab, id_counter, ran, twice, raised>>
        /\ tick'.stage = "due" /\ tick'.now = now /\ tick'.ahead = Ahead(0, now)
    BY DEF BeginTick, history
  <1>3. \A i : ~AtWork(i) /\ ~AtWork(i)'
    BY <1>2 DEF AtWork, NoTick
  <1>4. TableOK' /\ RunsOnce' /\ RowOK' /\ RanOK' /\ CaughtUp'
    BY <1>1, <1>2, <1>3 DEF TableOK, RunsOnce, RowOK, RanOK, CaughtUp, Caught, Settled
  <1>5. AheadOK'
    <2> DEFINE a == Ahead(0, now)
    <2>1. SUFFICES ASSUME a # NoRow
          PROVE  /\ a.next <= now /\ Others(tab, now, a)
                 /\ a.id \in DOMAIN tab => tab[a.id].job = a.job /\ tab[a.id].next = a.next
                 /\ a.id <= id_counter
                 /\ \A t \in Nat : <<a.job, t>> \in ran /\ Settled(a.job, t) => t < a.next
      BY <1>2 DEF AheadOK, Settled
    <2>2. /\ a \in Copy /\ a.id \in DOMAIN tab /\ a.next <= now /\ a.id <= id_counter
          /\ a.job = tab[a.id].job /\ a.next = tab[a.id].next
      BY <1>1, <2>1, AheadFacts
    <2> HIDE DEF a
    <2>3. Others(tab, now, a)
      BY <1>1, <1>2, <2>2 DEF Others, TableOK
    <2>4. \A t \in Nat : <<a.job, t>> \in ran /\ Settled(a.job, t) => t < a.next
      BY <1>1, <1>3, <2>2 DEF RanOK
    <2> QED  BY <2>2, <2>3, <2>4
  <1> QED  BY <1>4, <1>5 DEF Runs

\* A job that the tick runs, for a time it did not run for or is excused.
LEMMA RunOnce ==
    ASSUME RunsOnce, NEW j, NEW t, Settled(j, t) => <<j, t>> \notin ran, Run(j, t)
    PROVE  RunsOnce' /\ ran' = ran \cup {<<j, t>>} /\ raised' = raised
  BY DEF RunsOnce, Run, Settled

\* The tick runs the job of a row, as of its time or of now.
LEMMA RunsYield == ASSUME IInv, YieldDue PROVE Runs'
  <1> DEFINE row == tick.ahead
             t == IF row.job \in NoSkip THEN row.next ELSE tick.now
             a == Ahead(row.id, tick.now)
  <1>1. TableOK /\ RanOK /\ CaughtUp /\ RunsOnce /\ now \in Nat /\ AheadOK /\ StageOK
    BY DEF IInv, FileOK
  <1>2. /\ tick.stage = "due" /\ row # NoRow /\ Run(row.job, t)
        /\ UNCHANGED <<now, tab, id_counter>>
        /\ tick' = [tick EXCEPT !.stage = "yielded", !.row = row, !.ts = t, !.ahead = a,
                               !.joins = @ \/ row.job = Loader]
    BY DEF YieldDue
  <1>3. InTick /\ tick \in Running /\ row \in Copy /\ tick.now \in Nat /\ tick.now <= now
    BY <1>1, <1>2 DEF InTick, StageOK, Running
  <1>4. /\ row.next <= tick.now /\ Others(tab, tick.now, row) /\ row.id <= id_counter
        /\ row.id \in DOMAIN tab => tab[row.id].job = row.job /\ tab[row.id].next = row.next
        /\ \A u \in Nat : <<row.job, u>> \in ran /\ Settled(row.job, u) => u < row.next
    BY <1>1, <1>2, <1>3 DEF AheadOK
  <1>5. /\ tick'.stage = "yielded" /\ tick'.row = row /\ tick'.ts = t /\ tick'.ahead = a
        /\ tick'.now = tick.now
    BY <1>2, <1>3 DEF Running
  <1>r. row.id \in Nat /\ row.job \in AllJobs /\ row.next \in Nat
    BY <1>3 DEF Copy
  <1>6. t \in Nat /\ row.next <= t /\ t <= tick.now /\ t <= now /\ (row.job \in NoSkip => t = row.next)
    <2>1. CASE row.job \in NoSkip
      <3>1. t = row.next
        BY <2>1
      <3> HIDE DEF t
      <3> QED  BY <1>1, <1>3, <1>4, <1>r, <3>1
    <2>2. CASE row.job \notin NoSkip
      <3>1. t = tick.now
        BY <2>2
      <3> HIDE DEF t
      <3> QED  BY <1>1, <1>3, <1>4, <1>r, <2>2, <3>1
    <2> QED  BY <2>1, <2>2
  <1> HIDE DEF t
  <1>7. RunsOnce' /\ ran' = ran \cup {<<row.job, t>>} /\ raised' = raised
    <2>1. Settled(row.job, t) => <<row.job, t>> \notin ran
      BY <1>4, <1>6, <1>r
    <2> QED  BY <1>1, <1>2, <2>1, RunOnce
  <1>8. \A i : ~AtWork(i) /\ (AtWork(i)' <=> i = row.id)
    BY <1>2, <1>5 DEF AtWork
  <1>9. \A u \in Nat : <<row.job, u>> \in ran' /\ Settled(row.job, u) => u <= t
    <2>1. ASSUME NEW u \in Nat, <<row.job, u>> \in ran', Settled(row.job, u) PROVE u <= t
      BY <1>4, <1>6, <1>7, <1>r, <2>1
    <2> QED  BY <2>1
  <1>11. RowOK' /\ AheadOK'
    <2>1. a = NoRow \/ /\ a \in Copy /\ a.id \in DOMAIN tab /\ a.id > row.id /\ a.next <= tick.now
                       /\ a.id <= id_counter /\ a.job = tab[a.id].job /\ a.next = tab[a.id].next
      BY <1>1, <1>3, <1>r, AheadFacts
    <2> HIDE DEF a
    <2>2. a # NoRow => a.id # row.id /\ (a.job = row.job => row.id \notin DOMAIN tab /\ Clear(tick.now, a.next))
      <3>1. ASSUME a # NoRow PROVE a.id # row.id
        BY <1>r, <2>1, <3>1 DEF Copy
      <3>2. ASSUME a # NoRow, a.job = row.job PROVE row.id \notin DOMAIN tab /\ Clear(tick.now, a.next)
        BY <1>1, <1>4, <2>1, <3>1, <3>2 DEF Others, TableOK
      <3> QED  BY <3>1, <3>2
    <2>3. RowOK'
      <3>1. Distinct(tick.row, tick.ahead)'
        BY <1>2, <1>5, <2>2 DEF Distinct, Clear
      <3>2. Others(tab, tick.now, tick.row)'
        BY <1>2, <1>4, <1>5 DEF Others, Clear
      <3>3. ASSUME NEW u \in Nat, <<row.job, u>> \in ran', Settled(tick.row.job, u)' PROVE u <= t
        BY <1>5, <1>7, <1>9, <3>3 DEF Settled
      <3> QED  BY <1>2, <1>4, <1>5, <1>6, <3>1, <3>2, <3>3 DEF RowOK
    <2>4. ASSUME a # NoRow
          PROVE  /\ Others(tab, tick.now, a)
                 /\ \A u \in Nat : <<a.job, u>> \in ran' /\ Settled(a.job, u) => u < a.next
      <3>1. Others(tab, tick.now, a)
        BY <1>1, <1>2, <2>1, <2>4 DEF Others, TableOK
      <3>2. ASSUME NEW u \in Nat, <<a.job, u>> \in ran', Settled(a.job, u) PROVE u < a.next
        <4>1. CASE <<a.job, u>> \in ran
          BY <1>1, <1>8, <2>1, <2>4, <3>2, <4>1 DEF RanOK
        <4>2. CASE a.job = row.job /\ u = t
          BY <1>6, <2>2, <2>4, <3>2, <4>2 DEF Clear, Settled
        <4> QED  BY <1>7, <3>2, <4>1, <4>2
      <3> QED  BY <3>1, <3>2
    <2>5. AheadOK'
      BY <1>2, <1>5, <1>7, <2>1, <2>4 DEF AheadOK, Settled
    <2> QED  BY <2>3, <2>5
  <1>12. RanOK'
    <2>1. ASSUME NEW j \in AllJobs, NEW u \in Nat, <<j, u>> \in ran' PROVE u <= now'
      BY <1>1, <1>2, <1>6, <1>7, <2>1 DEF RanOK
    <2>2. ASSUME NEW i \in DOMAIN tab, i # row.id, NEW u \in Nat, <<tab[i].job, u>> \in ran',
                 Settled(tab[i].job, u)
          PROVE  u < tab[i].next
      <3>1. CASE <<tab[i].job, u>> \in ran
        BY <1>1, <1>8, <2>2, <3>1 DEF RanOK
      <3>2. CASE tab[i].job = row.job /\ u = t
        <4>1. Clear(tick.now, tab[i].next)
          BY <1>4, <2>2, <3>2 DEF Others
        <4> QED  BY <1>6, <2>2, <3>2, <4>1 DEF Clear, Settled
      <3> QED  BY <1>7, <2>2, <3>1, <3>2
    <2> QED  BY <1>2, <1>7, <1>8, <2>1, <2>2 DEF RanOK, Settled
  <1>13. CaughtUp'
    <2>1. ASSUME NEW i \in DOMAIN tab PROVE Caught(tab[i].job, tab[i].made, tab[i].next)'
      BY <1>1, <1>2, <1>7 DEF CaughtUp, Caught
    <2>2. ASSUME row.id \in DOMAIN tab, row.job \in NoSkip,
                 NEW v \in Times(row.job, tab[row.id].made, t + 1)
          PROVE  <<row.job, v>> \in ran'
      <3>1. v \in Nat /\ v > tab[row.id].made /\ v <= t /\ v \notin SecondPass /\ Local(v) % Period[row.job] = Phase[row.job]
            /\ tab[row.id].made \in Nat
        BY <1>1, <1>6, <2>2 DEF Times, TableOK, Row
      <3>2. CASE v = t
        BY <1>7, <3>2
      <3>3. CASE v # t
        <4>1. v < row.next
          BY <1>6, <1>r, <2>2, <3>1, <3>3
        <4>2. v \in Times(row.job, tab[row.id].made, row.next)
          BY <1>r, <3>1, <4>1 DEF Times
        <4> QED  BY <1>1, <1>4, <1>7, <2>2, <4>2 DEF CaughtUp, Caught
      <3> QED  BY <3>2, <3>3
    <2>3. ASSUME NEW i \in DOMAIN tab', AtWork(i)' PROVE Caught(tab[i].job, tab[i].made, tick.ts + 1)'
      BY <1>2, <1>4, <1>5, <1>8, <2>2, <2>3 DEF Caught
    <2> QED  BY <1>2, <2>1, <2>3 DEF CaughtUp
  <1>14. TableOK'
    BY <1>1, <1>2 DEF TableOK
  <1> QED  BY <1>7, <1>11, <1>12, <1>13, <1>14 DEF Runs

\* The next time of the job at work.
LEMMA NextRunFacts ==
    ASSUME StageOK, RowOK, tick.stage = "yielded"
    PROVE  /\ tick \in Running /\ tick.row \in Copy /\ tick.ts \in Nat /\ tick.now \in Nat
           /\ tick.row.id \in Nat /\ tick.row.job \in AllJobs /\ tick.now <= now
           /\ NextRun \in Nat /\ Clear(tick.ts, NextRun)
           /\ \A v \in Nat : tick.ts < v /\ v < NextRun /\ v \notin SecondPass =>
                 Local(v) % Period[tick.row.job] # Phase[tick.row.job]
  <1>1. tick \in Running /\ tick.row \in Copy /\ tick.ts \in Nat /\ tick.now \in Nat /\ tick.now <= now
    BY DEF StageOK, InTick, Running
  <1>2. tick.row.id \in Nat /\ tick.row.job \in AllJobs
    BY <1>1 DEF Copy
  <1> QED  BY <1>1, <1>2, NextTime DEF NextRun

\* A job catches up with a time it missed.
LEMMA RunsRerun == ASSUME IInv, Rerun PROVE Runs'
  <1> DEFINE row == tick.row
             u == NextRun
  <1>1. TableOK /\ RanOK /\ CaughtUp /\ RunsOnce /\ now \in Nat /\ AheadOK /\ RowOK /\ StageOK
    BY DEF IInv, FileOK
  <1>2. /\ tick.stage = "yielded" /\ u <= tick.now /\ Run(row.job, u)
        /\ UNCHANGED <<now, tab, id_counter>>
        /\ tick' = [tick EXCEPT !.ts = u, !.reruns = @ - 1]
    BY DEF Rerun, Missed
  <1>3. /\ tick \in Running /\ row \in Copy /\ tick.ts \in Nat /\ tick.now \in Nat /\ tick.now <= now
        /\ row.id \in Nat /\ row.job \in AllJobs
        /\ u \in Nat /\ Clear(tick.ts, u)
        /\ \A v \in Nat : tick.ts < v /\ v < u /\ v \notin SecondPass =>
              Local(v) % Period[row.job] # Phase[row.job]
    BY <1>1, <1>2, NextRunFacts
  <1> HIDE DEF u
  <1>4. /\ Others(tab, tick.now, row) /\ row.id <= id_counter
        /\ row.id \in DOMAIN tab => tab[row.id].job = row.job
        /\ \A t \in Nat : <<row.job, t>> \in ran /\ Settled(row.job, t) => t <= tick.ts
        /\ Distinct(row, tick.ahead)
    BY <1>1, <1>2 DEF RowOK
  <1>5. /\ tick'.stage = "yielded" /\ tick'.row = row /\ tick'.ts = u /\ tick'.ahead = tick.ahead
        /\ tick'.now = tick.now
    BY <1>2, <1>3 DEF Running
  <1>6. RunsOnce' /\ ran' = ran \cup {<<row.job, u>>} /\ raised' = raised
    <2>1. Settled(row.job, u) => <<row.job, u>> \notin ran
      BY <1>3, <1>4 DEF Clear, Settled
    <2> QED  BY <1>1, <1>2, <2>1, RunOnce
  <1>7. \A i : AtWork(i) <=> AtWork(i)'
    BY <1>2, <1>5 DEF AtWork
  <1>8. RowOK'
    <2>1. \A t \in Nat : <<row.job, t>> \in ran' /\ Settled(row.job, t) => t <= u
      <3>1. ASSUME NEW t \in Nat, <<row.job, t>> \in ran', Settled(row.job, t) PROVE t <= u
        BY <1>3, <1>4, <1>6, <3>1 DEF Clear, Settled
      <3> QED  BY <3>1
    <2>2. Distinct(tick.row, tick.ahead)' /\ Others(tab, tick.now, tick.row)'
      BY <1>2, <1>4, <1>5 DEF Distinct, Others, Clear
    <2> QED  BY <1>2, <1>4, <1>5, <1>6, <2>1, <2>2 DEF RowOK, Settled
  <1>9. AheadOK'
    <2>1. ASSUME tick.ahead # NoRow, NEW t \in Nat, <<tick.ahead.job, t>> \in ran', Settled(tick.ahead.job, t)
          PROVE  t < tick.ahead.next
      <3>1. CASE <<tick.ahead.job, t>> \in ran
        BY <1>1, <1>2, <2>1, <3>1 DEF AheadOK, InTick
      <3>2. CASE tick.ahead.job = row.job /\ t = u
        BY <1>2, <1>4, <2>1, <3>2 DEF Distinct, Clear, Settled
      <3> QED  BY <1>6, <2>1, <3>1, <3>2
    <2> QED  BY <1>1, <1>2, <1>5, <1>6, <2>1 DEF AheadOK, InTick, Settled
  <1>10. RanOK'
    <2>1. ASSUME NEW j \in AllJobs, NEW t \in Nat, <<j, t>> \in ran' PROVE t <= now'
      BY <1>1, <1>2, <1>3, <1>6, <2>1 DEF RanOK
    <2>2. ASSUME NEW i \in DOMAIN tab, ~AtWork(i), NEW t \in Nat, <<tab[i].job, t>> \in ran',
                 Settled(tab[i].job, t)
          PROVE  t < tab[i].next
      <3>1. CASE <<tab[i].job, t>> \in ran
        BY <1>1, <2>2, <3>1 DEF RanOK
      <3>2. CASE tab[i].job = row.job /\ t = u
        <4>1. Clear(tick.now, tab[i].next)
          BY <1>2, <1>4, <2>2, <3>2 DEF Others, AtWork
        <4> QED  BY <1>2, <1>3, <2>2, <3>2, <4>1 DEF Clear, Settled
      <3> QED  BY <1>6, <2>2, <3>1, <3>2
    <2> QED  BY <1>2, <1>6, <1>7, <2>1, <2>2 DEF RanOK, Settled
  <1>11. CaughtUp'
    <2>1. ASSUME NEW i \in DOMAIN tab PROVE Caught(tab[i].job, tab[i].made, tab[i].next)'
      BY <1>1, <1>2, <1>6 DEF CaughtUp, Caught
    <2>2. ASSUME row.id \in DOMAIN tab, row.job \in NoSkip,
                 NEW v \in Times(row.job, tab[row.id].made, u + 1)
          PROVE  <<row.job, v>> \in ran'
      <3>1. v \in Nat /\ v > tab[row.id].made /\ v <= u /\ v \notin SecondPass /\ Local(v) % Period[row.job] = Phase[row.job]
            /\ tab[row.id].made \in Nat
        BY <1>1, <1>3, <2>2 DEF Times, TableOK, Row
      <3>2. CASE v = u
        BY <1>6, <3>2
      <3>3. CASE v # u
        <4>1. v <= tick.ts
          BY <1>3, <3>1, <3>3
        <4>2. v \in Times(row.job, tab[row.id].made, tick.ts + 1)
          BY <1>3, <3>1, <4>1 DEF Times
        <4>3. AtWork(row.id)
          BY <1>2 DEF AtWork
        <4> QED  BY <1>1, <1>4, <1>6, <2>2, <4>2, <4>3 DEF CaughtUp, Caught
      <3> QED  BY <3>2, <3>3
    <2>3. ASSUME NEW i \in DOMAIN tab', AtWork(i)' PROVE Caught(tab[i].job, tab[i].made, tick.ts + 1)'
      <3>1. i = row.id
        BY <1>5, <2>3 DEF AtWork
      <3> QED  BY <1>2, <1>4, <1>5, <2>2, <2>3, <3>1 DEF Caught
    <2> QED  BY <1>2, <2>1, <2>3 DEF CaughtUp
  <1>12. TableOK'
    BY <1>1, <1>2 DEF TableOK
  <1> QED  BY <1>6, <1>8, <1>9, <1>10, <1>11, <1>12 DEF Runs

\* The row gets its next time, if it is still there.
LEMMA RunsReschedule == ASSUME IInv, Reschedule PROVE Runs'
  <1> DEFINE row == tick.row
             u == NextRun
  <1>1. TableOK /\ RanOK /\ CaughtUp /\ RunsOnce /\ now \in Nat /\ AheadOK /\ RowOK /\ StageOK
    BY DEF IInv, FileOK
  <1>2. /\ tick.stage = "yielded"
        /\ tab' = (IF row.id \in DOMAIN tab THEN [tab EXCEPT ![row.id] = [tab[row.id] EXCEPT !.next = u]]
                   ELSE tab)
        /\ UNCHANGED <<now, id_counter, ran, twice, raised>>
        /\ tick' = [tick EXCEPT !.stage = "due", !.row = NoRow, !.ts = 0]
    BY DEF Reschedule, Rescheduled, history
  <1>3. /\ tick \in Running /\ row \in Copy /\ tick.ts \in Nat /\ tick.now \in Nat /\ tick.now <= now
        /\ row.id \in Nat /\ row.job \in AllJobs
        /\ u \in Nat /\ Clear(tick.ts, u)
        /\ \A v \in Nat : tick.ts < v /\ v < u /\ v \notin SecondPass =>
              Local(v) % Period[row.job] # Phase[row.job]
    BY <1>1, <1>2, NextRunFacts
  <1> HIDE DEF u
  <1>4. /\ Others(tab, tick.now, row)
        /\ row.id \in DOMAIN tab => tab[row.id].job = row.job
        /\ \A t \in Nat : <<row.job, t>> \in ran /\ Settled(row.job, t) => t <= tick.ts
        /\ Distinct(row, tick.ahead)
    BY <1>1, <1>2 DEF RowOK
  <1>5. tick'.stage = "due" /\ tick'.ahead = tick.ahead /\ tick'.now = tick.now
    BY <1>2, <1>3 DEF Running
  <1>6. DOMAIN tab' = DOMAIN tab /\ \A i \in DOMAIN tab : i # row.id => tab'[i] = tab[i]
    BY <1>2
  <1>7. ASSUME row.id \in DOMAIN tab
        PROVE  /\ tab'[row.id] \in Row /\ tab'[row.id].next = u /\ tab'[row.id].job = tab[row.id].job
               /\ tab'[row.id].made = tab[row.id].made /\ tab'[row.id].src = tab[row.id].src
    <2>1. tab'[row.id] = [tab[row.id] EXCEPT !.next = u] /\ tab[row.id] \in Row
      BY <1>1, <1>2, <1>7 DEF TableOK
    <2> QED  BY <1>3, <2>1 DEF Row
  <1>8. \A i : ~AtWork(i)' /\ (AtWork(i) <=> i = row.id)
    BY <1>2, <1>5 DEF AtWork
  <1>9. TableOK'
    <2>1. ASSUME NEW i \in DOMAIN tab'
          PROVE  /\ i \in Nat \ {0} /\ i <= id_counter' /\ tab'[i] \in Row
                 /\ (tab'[i].src = "app.core" <=> tab'[i].job = Loader)
                 /\ tab'[i].made <= now' /\ tab'[i].job = tab[i].job
      BY <1>1, <1>2, <1>6, <1>7 DEF TableOK
    <2> QED  BY <1>1, <1>2, <1>6, <2>1 DEF TableOK
  <1>10. RowOK' /\ RunsOnce'
    BY <1>1, <1>2, <1>5 DEF RowOK, RunsOnce
  <1>11. AheadOK'
    <2>1. ASSUME tick.ahead # NoRow PROVE Others(tab', tick.now, tick.ahead)
      <3>1. Others(tab, tick.now, tick.ahead)
        BY <1>1, <1>2, <2>1 DEF AheadOK, InTick
      <3>2. \A i \in DOMAIN tab' : tab'[i].job = tick.ahead.job => tab'[i] = tab[i]
        BY <1>4, <1>6, <1>7, <2>1 DEF Distinct
      <3> QED  BY <1>6, <3>1, <3>2 DEF Others
    <2>2. tick.ahead # NoRow => tick.ahead.id # row.id
      BY <1>4 DEF Distinct
    <2> QED  BY <1>1, <1>2, <1>5, <1>6, <2>1, <2>2 DEF AheadOK, InTick, Settled
  <1>12. RanOK'
    <2>1. ASSUME NEW i \in DOMAIN tab', NEW t \in Nat, <<tab'[i].job, t>> \in ran, Settled(tab'[i].job, t)
          PROVE  t < tab'[i].next
      <3>1. CASE i = row.id
        <4>1. t <= tick.ts /\ tab'[i].next = u
          BY <1>4, <1>6, <1>7, <2>1, <3>1
        <4> QED  BY <1>3, <2>1, <4>1 DEF Clear, Settled
      <3>2. CASE i # row.id
        BY <1>1, <1>6, <1>8, <2>1, <3>2 DEF RanOK
      <3> QED  BY <3>1, <3>2
    <2> QED  BY <1>1, <1>2, <2>1 DEF RanOK, Settled
  <1>13. CaughtUp'
    <2>1. ASSUME NEW i \in DOMAIN tab' PROVE Caught(tab[i].job, tab[i].made, tab[i].next)'
      <3>1. CASE i # row.id
        BY <1>1, <1>2, <1>6, <3>1 DEF CaughtUp, Caught
      <3>2. CASE i = row.id
        <4>1. ASSUME row.job \in NoSkip, NEW v \in Times(row.job, tab[i].made, u)
              PROVE  <<row.job, v>> \in ran
          <5>1. v \in Nat /\ v > tab[i].made /\ v < u /\ v \notin SecondPass /\ Local(v) % Period[row.job] = Phase[row.job]
                /\ tab[i].made \in Nat
            BY <1>1, <1>3, <1>6, <2>1, <4>1 DEF Times, TableOK, Row
          <5>2. v <= tick.ts
            BY <1>3, <5>1
          <5>3. v \in Times(row.job, tab[i].made, tick.ts + 1)
            BY <1>3, <5>1, <5>2 DEF Times
          <5> QED  BY <1>1, <1>4, <1>6, <1>8, <2>1, <3>2, <4>1, <5>3 DEF CaughtUp, Caught
        <4> QED  BY <1>2, <1>4, <1>6, <1>7, <2>1, <3>2, <4>1 DEF Caught
      <3> QED  BY <3>1, <3>2
    <2> QED  BY <1>8, <2>1 DEF CaughtUp
  <1> QED  BY <1>9, <1>10, <1>11, <1>12, <1>13 DEF Runs

\* The tick raises: the row is as it was, and its job is no longer settled.
LEMMA RunsRaise == ASSUME IInv, Raise PROVE Runs'
  <1>1. TableOK /\ RanOK /\ CaughtUp /\ RunsOnce /\ now \in Nat /\ RowOK /\ StageOK
    BY DEF IInv, FileOK
  <1>2. /\ tick.stage = "yielded" /\ tick' = NoTick /\ raised' = raised \cup {tick.row.job}
        /\ UNCHANGED <<now, tab, id_counter, ran, twice>>
    BY DEF Raise
  <1>3. ~InTick' /\ tick'.stage = "no"
    BY <1>2 DEF NoTick, InTick
  <1>4. TableOK' /\ AheadOK' /\ RowOK' /\ RunsOnce'
    BY <1>1, <1>2, <1>3 DEF TableOK, AheadOK, RowOK, RunsOnce
  <1>5. CaughtUp'
    BY <1>1, <1>2, <1>3 DEF CaughtUp, Caught, AtWork
  <1>6. RanOK'
    <2>1. ASSUME NEW i \in DOMAIN tab, NEW t \in Nat, <<tab[i].job, t>> \in ran, Settled(tab[i].job, t)'
          PROVE  t < tab[i].next
      <3>1. Settled(tab[i].job, t) /\ tab[i].job # tick.row.job
        BY <1>2, <2>1 DEF Settled
      <3>2. ~AtWork(i)
        BY <1>1, <1>2, <2>1, <3>1 DEF AtWork, RowOK
      <3> QED  BY <1>1, <2>1, <3>1, <3>2 DEF RanOK
    <2> QED  BY <1>1, <1>2, <2>1 DEF RanOK, Settled
  <1> QED  BY <1>4, <1>5, <1>6 DEF Runs

\* Time passes, or the app is killed.
LEMMA RunsPass == ASSUME IInv, Pass \/ Kill PROVE Runs'
  <1>1. TableOK /\ RanOK /\ CaughtUp /\ RunsOnce /\ now \in Nat /\ AheadOK /\ RowOK
    BY DEF IInv, FileOK
  <1>2. CASE Pass
    <2>1. now' = now + 1 /\ UNCHANGED <<tab, id_counter, tick, ran, twice, raised>>
      BY <1>2 DEF Pass, history
    <2>2. TableOK'
      <3>1. \A i \in DOMAIN tab : tab[i].made <= now'
        BY <1>1, <2>1 DEF TableOK, Row
      <3> QED  BY <1>1, <2>1, <3>1 DEF TableOK
    <2>3. RanOK'
      <3>1. \A j \in AllJobs, t \in Nat : <<j, t>> \in ran => t <= now'
        BY <1>1, <2>1 DEF RanOK
      <3> QED  BY <1>1, <2>1, <3>1 DEF RanOK, AtWork, Settled
    <2>4. AheadOK' /\ RowOK' /\ CaughtUp' /\ RunsOnce'
      BY <1>1, <2>1 DEF AheadOK, RowOK, CaughtUp, Caught, RunsOnce, AtWork, InTick, Others,
                         Settled, Distinct, Clear
    <2> QED  BY <2>2, <2>3, <2>4 DEF Runs
  <1>3. CASE Kill
    <2>1. tick' = NoTick /\ tab' = NoRows /\ UNCHANGED <<now, id_counter, ran, twice, raised>>
      BY <1>3 DEF Kill
    <2>2. DOMAIN tab' = {} /\ ~InTick'
      BY <2>1 DEF NoRows, NoTick, InTick
    <2>3. TableOK' /\ AheadOK' /\ RowOK' /\ CaughtUp' /\ RunsOnce'
      BY <1>1, <2>1, <2>2 DEF TableOK, AheadOK, RowOK, CaughtUp, RunsOnce, InTick
    <2>4. RanOK'
      BY <1>1, <2>1, <2>2 DEF RanOK
    <2> QED  BY <2>3, <2>4 DEF Runs
  <1> QED  BY <1>2, <1>3

\* Every step keeps the table, the rows the tick holds and the runs in order.
LEMMA RunsStep == ASSUME IInv, [Next]_vars PROVE Runs'
  <1>1. CASE Load \/ StartSave \/ Started \/ EndTick \/ LoaderEnd \/ \E t \in Texts : Edit(t)
    <2>1. UNCHANGED <<now, tab, id_counter, ran, twice, raised>>
      BY <1>1 DEF Load, StartSave, Started, EndTick, LoaderEnd, Edit, history
    <2>2. UNCHANGED tick \/ (tick.stage # "yielded" /\ ~InTick')
      <3>1. CASE Load
        BY <3>1 DEF Load, InTick, IInv, StageOK, NoTick
      <3>2. CASE StartSave
        <4>1. tick.stage = "save" /\ (UNCHANGED tick \/ tick' = [stage |-> tick.then])
          BY <3>2 DEF StartSave
        <4> QED  BY <4>1 DEF InTick, IInv, StageOK
      <3>3. CASE Started \/ EndTick
        BY <3>3 DEF Started, EndTick, Joined, InTick, NoTick
      <3>4. CASE LoaderEnd \/ \E t \in Texts : Edit(t)
        BY <3>4 DEF LoaderEnd, Edit
      <3> QED  BY <1>1, <3>1, <3>2, <3>3, <3>4
    <2> QED  BY <2>1, <2>2, RunsKept
  <1>2. CASE UNCHANGED vars
    BY <1>2, RunsKept DEF vars
  <1> QED  BY <1>1, <1>2, RunsParse, RunsBegin, RunsYield, RunsRerun, RunsReschedule, RunsRaise, RunsPass
           DEF Next, Tick, LoaderThread

\* Every step keeps the stages of the tick in order.
LEMMA StageStep == ASSUME IInv, [Next]_vars PROVE StageOK'
  <1>1. StageOK /\ TableOK /\ now \in Nat /\ RowOK
    BY DEF IInv, FileOK
  <1>2. CASE Load \/ ParseInternal \/ ParseCrontab \/ StartSave \/ Started
    <2>1. ~InTick /\ loader = "no" /\ loader' = loader /\ state' # "down"
      BY <1>1, <1>2 DEF Load, ParseInternal, ParseCrontab, StartSave, Started, InTick, StageOK, NoTick
    <2>2. /\ tick'.stage \in {"no", "internal", "save", "crontab", "started"}
          /\ (tick'.stage = "save" => tick'.then \in {"crontab", "started"})
      <3>1. CASE StartSave
        BY <1>1, <3>1 DEF StartSave, StageOK
      <3>2. CASE ~StartSave
        BY <1>2, <3>2 DEF Load, ParseInternal, ParseCrontab, Started, NoTick
      <3> QED  BY <3>1, <3>2
    <2> QED  BY <2>1, <2>2 DEF StageOK, InTick
  <1>3. CASE BeginTick
    <2>1. /\ state = "up" /\ UNCHANGED <<state, now>>
          /\ tick' = [stage |-> "due", now |-> now, ahead |-> Ahead(0, now), reruns |-> Reruns,
                      row |-> NoRow, ts |-> 0, joins |-> FALSE] /\ UNCHANGED loader
      BY <1>3 DEF BeginTick
    <2>2. Ahead(0, now) \in Copy \cup {NoRow}
      BY <1>1, AheadFacts
    <2>3. tick' \in Running /\ tick'.stage = "due" /\ tick'.now = now
      <3> DEFINE a == Ahead(0, now)
      <3>1. tick' = [stage |-> "due", now |-> now, ahead |-> a, reruns |-> Reruns,
                      row |-> NoRow, ts |-> 0, joins |-> FALSE] /\ a \in Copy \cup {NoRow}
        BY <2>1, <2>2
      <3> HIDE DEF a
      <3> QED  BY <1>1, <3>1, BoundsAssumption DEF Running
    <2> QED  BY <1>1, <2>1, <2>3 DEF StageOK, InTick
  <1>4. CASE YieldDue
    <2> DEFINE row == tick.ahead
               t == IF row.job \in NoSkip THEN row.next ELSE tick.now
               a == Ahead(row.id, tick.now)
    <2>1. /\ tick.stage = "due" /\ row # NoRow /\ UNCHANGED <<state, now>>
          /\ tick' = [tick EXCEPT !.stage = "yielded", !.row = row, !.ts = t, !.ahead = a,
                               !.joins = @ \/ row.job = Loader]
      BY <1>4 DEF YieldDue
    <2>2. /\ InTick /\ tick \in Running /\ row \in Copy /\ tick.now \in Nat /\ tick.now <= now
          /\ state = "up"
      BY <1>1, <2>1 DEF InTick, StageOK, Running
    <2>3. row.id \in Nat /\ t \in Nat
      BY <2>2 DEF Copy
    <2>4. a \in Copy \cup {NoRow}
      BY <1>1, <2>2, <2>3, AheadFacts
    <2> HIDE DEF a, t
    <2>5. /\ tick' \in Running /\ tick'.stage = "yielded" /\ tick'.now = tick.now /\ tick'.row = row
      BY <2>1, <2>2, <2>3, <2>4 DEF Running
    <2> QED  BY <1>1, <2>1, <2>2, <2>5 DEF StageOK, InTick
  <1>5. CASE Rerun
    <2>1. /\ tick.stage = "yielded" /\ tick.reruns > 0 /\ UNCHANGED <<state, now>>
          /\ tick' = [tick EXCEPT !.ts = NextRun, !.reruns = @ - 1]
      BY <1>5 DEF Rerun, Missed
    <2>2. InTick /\ tick \in Running /\ tick.now <= now /\ state = "up" /\ NextRun \in Nat
      BY <1>1, <2>1, NextRunFacts DEF InTick, StageOK
    <2>3. tick.reruns - 1 \in Nat
      BY <2>1, <2>2 DEF Running
    <2>4. tick' \in Running /\ tick'.stage = "yielded" /\ tick'.now = tick.now /\ tick'.row = tick.row
      BY <2>1, <2>2, <2>3 DEF Running
    <2> QED  BY <1>1, <2>1, <2>2, <2>4 DEF StageOK, InTick
  <1>6. CASE Reschedule
    <2>1. /\ tick.stage = "yielded" /\ UNCHANGED <<state, now, loader>>
          /\ tick' = [tick EXCEPT !.stage = "due", !.row = NoRow, !.ts = 0]
      BY <1>6 DEF Reschedule
    <2>2. InTick /\ tick \in Running /\ tick.now <= now /\ state = "up"
      BY <1>1, <2>1 DEF InTick, StageOK
    <2>3. tick' \in Running /\ tick'.stage = "due" /\ tick'.now = tick.now
      BY <2>1, <2>2 DEF Running
    <2> QED  BY <1>1, <2>1, <2>2, <2>3 DEF StageOK, InTick
  <1>7. CASE EndTick
    <2>1. loader' = loader /\ tick.stage = "due" /\ UNCHANGED <<state, now>>
          /\ (UNCHANGED tick \/ tick' = NoTick)
      BY <1>7 DEF EndTick, Joined
    <2> QED  BY <1>1, <2>1 DEF StageOK, InTick, NoTick
  <1>8. CASE LoadCrontab \/ LoaderEnd
    <2>1. loader # "no" /\ UNCHANGED <<tick, state, now>>
      BY <1>8 DEF LoadCrontab, LoaderEnd
    <2> QED  BY <1>1, <2>1 DEF StageOK, InTick
  <1>9. CASE Pass
    <2>1. now' = now + 1 /\ UNCHANGED <<tick, state, loader>>
      BY <1>9 DEF Pass
    <2>2. InTick => tick.now <= now'
      BY <1>1, <2>1 DEF StageOK, Running
    <2> QED  BY <1>1, <2>1, <2>2 DEF StageOK, InTick
  <1>12. CASE Raise
    <2>1. tick.stage = "yielded" /\ tick' = NoTick /\ UNCHANGED <<state, now, loader>>
      BY <1>12 DEF Raise
    <2> QED  BY <1>1, <2>1 DEF StageOK, InTick, NoTick
  <1>10. CASE Kill
    BY <1>10 DEF Kill, StageOK, InTick, NoTick
  <1>11. CASE UNCHANGED vars \/ \E t \in Texts : Edit(t)
    <2>1. UNCHANGED <<tick, state, now, loader>>
      BY <1>11 DEF Edit, vars
    <2> QED  BY <1>1, <2>1 DEF StageOK, InTick
  <1> QED  BY <1>2, <1>3, <1>4, <1>5, <1>6, <1>7, <1>8, <1>9, <1>10, <1>11, <1>12 DEF Next, Tick, LoaderThread

\* Every step keeps the file whole, but for saves and kills.
LEMMA FileStep == ASSUME IInv, [Next]_vars PROVE FileOK' /\ PlainTypes'
  <1>1. FileOK /\ PlainTypes /\ StageOK
    BY DEF IInv, TypeOK, PlainTypes
  <1>2. CASE Load
    BY <1>1, <1>2 DEF Load, history, FileOK, PlainTypes
  <1>3. CASE ParseInternal \/ ParseCrontab \/ Started \/ BeginTick \/ Reschedule \/ Raise
    BY <1>1, <1>3 DEF ParseInternal, ParseCrontab, Started, BeginTick, Reschedule, Raise, history, FileOK,
                      PlainTypes, StageOK, InTick
  <1>4. CASE StartSave \/ EndTick
    <2>1. UNCHANGED <<now, state, kills, text, loader>>
      BY <1>4 DEF StartSave, EndTick, history
    <2>2. state # "down"
      BY <1>1, <1>4 DEF StartSave, EndTick, Joined, StageOK, InTick
    <2>3. \/ file' = "cut" /\ saving' \in {"start", "tick"}
          \/ file' = "whole" /\ saving' = "no"
          \/ UNCHANGED <<file, saving>>
      BY <1>4 DEF StartSave, EndTick, SaveBegin, SaveEnd, SaveNothing
    <2> QED  BY <1>1, <2>1, <2>2, <2>3 DEF FileOK, PlainTypes
  <1>5. CASE YieldDue \/ Rerun
    <2>1. UNCHANGED <<now, state, kills, text, file, saving>> /\ loader' \in {"load", loader}
      BY <1>5 DEF YieldDue, Rerun, Run
    <2> QED  BY <1>1, <2>1 DEF FileOK, PlainTypes
  <1>6. CASE LoadCrontab
    BY <1>1, <1>6 DEF LoadCrontab, history, FileOK, PlainTypes
  <1>7. CASE LoaderEnd
    <2>1. UNCHANGED <<now, state, kills, text>> /\ loader # "no" /\ loader' \in {"no", loader}
      BY <1>7 DEF LoaderEnd, history
    <2>2. state # "down"
      BY <1>1, <2>1 DEF StageOK
    <2>3. \/ file' = "cut" /\ saving' = "loader"
          \/ file' = "whole" /\ saving' = "no"
          \/ UNCHANGED <<file, saving>>
      BY <1>7 DEF LoaderEnd, SaveBegin, SaveEnd, SaveNothing
    <2> QED  BY <1>1, <2>1, <2>2, <2>3 DEF FileOK, PlainTypes
  <1>8. CASE Pass
    BY <1>1, <1>8, BoundsAssumption DEF Pass, history, FileOK, PlainTypes
  <1>9. CASE Kill
    BY <1>1, <1>9 DEF Kill, FileOK, PlainTypes
  <1>10. CASE UNCHANGED vars \/ \E t \in Texts : Edit(t)
    <2>1. UNCHANGED <<now, state, kills, file, saving, loader>> /\ text' \in Texts
      BY <1>1, <1>10 DEF Edit, vars, FileOK
    <2> QED  BY <1>1, <2>1 DEF FileOK, PlainTypes
  <1> QED  BY <1>2, <1>3, <1>4, <1>5, <1>6, <1>7, <1>8, <1>9, <1>10 DEF Next, Tick, LoaderThread
-----------------------------------------------------------------------------
\* The invariant holds of every state of the scheduler.
THEOREM Invariance == Spec => []IInv
  <1>1. Init => IInv
    <2> SUFFICES ASSUME Init PROVE IInv
      OBVIOUS
    <2>1. /\ now = 0 /\ state = "down" /\ DOMAIN tab = {} /\ id_counter = 0 /\ file = "whole"
          /\ text \in Texts /\ tick.stage = "no" /\ tick = NoTick /\ loader = "no" /\ saving = "no"
          /\ ran = {} /\ twice = {} /\ kills = 0
      BY DEF Init, NoRows, NoTick
    <2>2. TypeOK /\ TableOK /\ StageOK /\ FileOK
      BY <2>1, BoundsAssumption DEF TypeOK, TableOK, StageOK, FileOK, InTick
    <2>3. AheadOK /\ RowOK /\ RanOK /\ CaughtUp /\ RunsOnce
      BY <2>1 DEF AheadOK, RowOK, RanOK, CaughtUp, RunsOnce, InTick
    <2> QED  BY <2>2, <2>3 DEF IInv
  <1>2. IInv /\ [Next]_vars => IInv'
    <2> SUFFICES ASSUME IInv, [Next]_vars PROVE IInv'
      OBVIOUS
    <2>1. Runs' /\ StageOK' /\ FileOK' /\ PlainTypes'
      BY RunsStep, StageStep, FileStep
    <2>2. TypeOK'
      BY <2>1 DEF Runs, TableOK, PlainTypes, TypeOK, Row
    <2> QED  BY <2>1, <2>2 DEF Runs, IInv
  <1> QED  BY <1>1, <1>2, PTL DEF Spec

\* The table has one row for each job, however often crontabs are parsed, and
\* the app is broken, with a cut table, only after a kill.
THEOREM TypeCorrect == Spec => []TypeOK
  <1>1. IInv => TypeOK
    BY DEF IInv
  <1> QED  BY <1>1, Invariance, PTL

\* No job runs twice for the same time, though the tick works on rows that it
\* read ahead and that a reload of the crontab replaces under it: none but a
\* job at which a tick raised, or for a time of the hour that comes twice.
THEOREM JobsRunOnce == Spec => []RunsOnce
  <1>1. IInv => RunsOnce
    BY DEF IInv
  <1> QED  BY <1>1, Invariance, PTL

\* A no-skip job ran for every time it was due between the making of its row
\* and the time it is next due, for any limit on the reruns in a tick.
THEOREM NoTimeIsSkipped == Spec => []NothingSkipped
  <1>1. IInv => NothingSkipped
    BY DEF IInv, CaughtUp, Caught, NothingSkipped
  <1> QED  BY <1>1, Invariance, PTL
=============================================================================
