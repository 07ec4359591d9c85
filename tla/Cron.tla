--------------------------------- MODULE Cron ---------------------------------
(***************************************************************************)
(* moggie/app/cron.py, class Cron: the table of scheduled jobs, the tick   *)
(* of moggie/app/core.py that runs the ones that are due, the crontab file *)
(* that is loaded at startup and again by a job of its own, and the table  *)
(* in memory that is saved as one encrypted file (storage/sqlite_zip.py).  *)
(*                                                                         *)
(* A job runs at the local minutes congruent to its phase modulo its       *)
(* period, which stands for the fields of a crontab line.  The local clock *)
(* is set back once, so that an hour of it comes twice.  The job Loader    *)
(* runs in a thread beside the tick that started it, and ends before it is *)
(* due again; any other job is done when the tick goes on.  The crontab    *)
(* can be read, so that both sources of rows are parsed when the app       *)
(* starts, and the model keeps of the saved table only whether it is whole.*)
(***************************************************************************)
EXTENDS Integers, FiniteSets, Sequences

CONSTANTS
    Jobs,       \* the jobs a crontab may name
    Loader,     \* the job of crontab_internal, app.load_crontab()
    Bad,        \* a line that does not parse
    Period, Phase,
    Horizon,    \* how far calculate_next() looks, 366 days in the code
    Back,       \* when the local clock is set back, by Shift
    Shift,
    NoSkip,     \* the jobs flagged no-skip
    Texts,      \* what the crontab may say: sequences of lines
    Reruns,     \* the limit on reruns in a tick, 50 in the code
    MaxTime,    \* bound: minutes
    MaxEdits,   \* bound: changes of the crontab
    MaxFaults   \* bound: kills of the app, and jobs that cannot be started

AllJobs == Jobs \cup {Loader}

ASSUME JobsAssumption ==
    /\ Loader \notin Jobs /\ Bad \notin AllJobs /\ NoSkip \subseteq Jobs
    /\ \A j \in AllJobs : Period[j] \in Nat \ {0} /\ Phase[j] \in 0 .. Period[j] - 1
    /\ \A t \in Texts : t \in Seq(Jobs \cup {Bad})
\* A job stands for a line of the crontab, so no crontab has it twice.
ASSUME LinesAssumption ==
    \A t \in Texts : \A i, k \in DOMAIN t : t[i] = t[k] /\ t[i] # Bad => i = k
ASSUME BoundsAssumption ==
    /\ Reruns \in Nat /\ MaxTime \in Nat /\ MaxEdits \in Nat
    /\ MaxFaults \in Nat
ASSUME ClockAssumption ==
    /\ Horizon \in Nat /\ Period[Loader] <= Horizon
    /\ Back \in Nat /\ Shift \in 0 .. Back

VARIABLES
    now,        \* minutes
    state,      \* of the app: "down", "start", "up" or "broken"
    tab,        \* the table in memory: rows by id
    id_counter,
    dirty,      \* the table changed since it was saved
    file,       \* the saved table: "whole", or "cut"
    text,       \* the crontab
    fresh,      \* crontab_last_loaded is the time of the crontab
    tick,       \* start_encrypting_workers() or a tick in progress
    loader,     \* the thread that runs app.load_crontab()
    saving,     \* who is in save(), with db_lock
    ran,        \* history: job runs <<job, time>>
    twice,      \* history: job runs that happened again
    raised,     \* history: jobs at which a tick raised
    edits, kills, faults

history == <<ran, twice, raised, edits, kills, faults>>
vars == <<now, state, tab, id_counter, dirty, file, text, fresh, tick, loader, saving,
          ran, twice, raised, edits, kills, faults>>

NoRows == [i \in {} |-> 0]
NoTick == [stage |-> "no"]
NoRow == [id |-> 0]

\* fromtimestamp() and timestamp(): the second pass of the hour that comes
\* twice has the local times of the first, and those are taken for the first.
Local(t) == IF t < Back THEN t ELSE t - Shift
Timestamp(l) == IF l < Back THEN l ELSE l + Shift
NextLocal(j, l) == l + 1 + ((Phase[j] - (l + 1)) % Period[j])

\* Mutant: a job that is due now is next due now.
CalculateNext_Now(j, t) == Timestamp(Local(t) + ((Phase[j] - Local(t)) % Period[j]))
\* calculate_next(): the first local minute after t that the fields allow; it
\* raises ValueError unless Matches.
CalculateNext(j, t) == Timestamp(NextLocal(j, Local(t)))
Matches(j, t) == NextLocal(j, Local(t)) <= Local(t) + Horizon
-----------------------------------------------------------------------------
\* parse_crontab() deletes the rows of a source and adds a row for each line
\* before the first that does not parse, or has no time within the horizon.
Unusable(line) == line = Bad \/ ~Matches(line, now)
Failed(lines) == \E i \in DOMAIN lines : Unusable(lines[i])
Lines(lines) ==
    LET n == CHOOSE n \in 0 .. Len(lines) :
                /\ \A i \in 1 .. n : ~Unusable(lines[i])
                /\ n < Len(lines) => Unusable(lines[n + 1])
    IN SubSeq(lines, 1, n)
\* Mutant: the rows of the source are kept.
Kept_All(src) == DOMAIN tab
Kept(src) == {i \in DOMAIN tab : tab[i].src # src}
Parse(src, lines) ==
    LET new == Lines(lines)
        row(j) == [job |-> j, src |-> src, next |-> CalculateNext(j, now), made |-> now]
    IN /\ saving = "no"
       /\ tab' = [i \in Kept(src) \cup (id_counter + 1 .. id_counter + Len(new)) |->
                    IF i \in Kept(src) THEN tab[i] ELSE row(new[i - id_counter])]
       /\ id_counter' = id_counter + Len(new)
       /\ dirty' = TRUE

\* save(): nothing if nothing changed; else the file is opened, which empties
\* it, and then written.  The table cannot change meanwhile.
SaveBegin(who) == saving = "no" /\ dirty /\ saving' = who /\ dirty' = FALSE /\ file' = "cut"
SaveEnd(who) == saving = who /\ saving' = "no" /\ file' = "whole" /\ UNCHANGED dirty
SaveNothing == saving = "no" /\ ~dirty /\ UNCHANGED <<saving, file, dirty>>

\* The app starts: load() reads the file; a cut one raises BadZipFile, which
\* nothing catches.
Load ==
    /\ state = "down"
    /\ state' = IF file = "cut" THEN "broken" ELSE "start"
    /\ fresh' = FALSE /\ dirty' = FALSE
    /\ tick' = [stage |-> "internal"]
    /\ UNCHANGED <<now, tab, id_counter, file, text, loader, saving, history>>
ParseInternal ==
    /\ state = "start" /\ tick.stage = "internal"
    /\ Parse("app.core", <<Loader>>)
    /\ tick' = [stage |-> "save", then |-> "crontab"]
    /\ UNCHANGED <<now, state, file, text, fresh, loader, saving, history>>
ParseCrontab ==
    /\ state = "start" /\ tick.stage = "crontab"
    /\ Parse("crontab", text)
    /\ fresh' = TRUE
    /\ tick' = [stage |-> IF Failed(text) THEN "started" ELSE "save", then |-> "started"]
    /\ UNCHANGED <<now, state, file, text, loader, saving, history>>
StartSave ==
    /\ state = "start" /\ tick.stage = "save"
    /\ \/ SaveBegin("start") /\ UNCHANGED tick
       \/ SaveEnd("start") /\ tick' = [stage |-> tick.then]
    /\ UNCHANGED <<now, state, tab, id_counter, text, fresh, loader, history>>
Started ==
    /\ state = "start" /\ tick.stage = "started"
    /\ state' = "up" /\ tick' = NoTick
    /\ UNCHANGED <<now, tab, id_counter, dirty, file, text, fresh, loader, saving, history>>
-----------------------------------------------------------------------------
\* The cursor of _yield_due_and_reschedule(): rows in the order they were
\* made; it reads one row ahead of the one it hands out.
DueAfter(last, t) == {i \in DOMAIN tab : i > last /\ tab[i].next <= t}
Ahead(last, t) ==
    IF DueAfter(last, t) = {} THEN NoRow
    ELSE LET i == CHOOSE i \in DueAfter(last, t) : \A k \in DueAfter(last, t) : i <= k
         IN [id |-> i, job |-> tab[i].job, next |-> tab[i].next]
\* A tick that finds nothing due and nothing to save changes nothing.
BeginTick ==
    /\ state = "up" /\ tick = NoTick /\ (Ahead(0, now) # NoRow \/ dirty)
    /\ tick' = [stage |-> "due", now |-> now, ahead |-> Ahead(0, now), reruns |-> Reruns,
                row |-> NoRow, ts |-> 0, joins |-> FALSE]
    /\ UNCHANGED <<now, state, tab, id_counter, dirty, file, text, fresh, loader, saving,
                   history>>

Run(job, t) ==
    /\ ran' = ran \cup {<<job, t>>}
    /\ twice' = twice \cup ({<<job, t>>} \cap ran)
    /\ (job = Loader => loader = "no")
    /\ loader' = IF job = Loader THEN "load" ELSE loader
    /\ UNCHANGED <<raised, edits, kills, faults>>
\* A job that may not be skipped runs as of the time it was due.
YieldDue ==
    LET row == tick.ahead
        t == IF row.job \in NoSkip THEN row.next ELSE tick.now
    IN /\ tick.stage = "due" /\ row # NoRow
       /\ Run(row.job, t)
       /\ tick' = [tick EXCEPT !.stage = "yielded", !.row = row, !.ts = t,
                               !.ahead = Ahead(row.id, tick.now),
                               !.joins = @ \/ row.job = Loader]
       /\ UNCHANGED <<now, state, tab, id_counter, dirty, file, text, fresh, saving>>

\* The loop over a job's missed times.
NextRun == CalculateNext(tick.row.job, tick.ts)
HasNext == Matches(tick.row.job, tick.ts)
Missed == HasNext /\ NextRun <= tick.now /\ tick.reruns > 0
Rerun ==
    /\ tick.stage = "yielded" /\ Missed
    /\ Run(tick.row.job, NextRun)
    /\ tick' = [tick EXCEPT !.ts = NextRun, !.reruns = @ - 1]
    /\ UNCHANGED <<now, state, tab, id_counter, dirty, file, text, fresh, saving>>

\* Mutant: a job is always rescheduled from now.
Rescheduled_FromNow(row) == [row EXCEPT !.next = CalculateNext(row.job, tick.now)]
\* Mutant: a job is not rescheduled.
Rescheduled_Not(row) == row
\* UPDATE crontab, unless the loader has deleted the row.
Rescheduled(row) == [row EXCEPT !.next = NextRun]
Reschedule ==
    LET there == tick.row.id \in DOMAIN tab IN
    /\ tick.stage = "yielded" /\ HasNext /\ ~Missed /\ saving = "no"
    /\ tab' = IF there THEN [tab EXCEPT ![tick.row.id] = Rescheduled(@)] ELSE tab
    /\ dirty' = (dirty \/ there)
    /\ tick' = [tick EXCEPT !.stage = "due", !.row = NoRow, !.ts = 0]
    /\ UNCHANGED <<now, state, id_counter, file, text, fresh, loader, saving, history>>

\* calculate_next() raises, or the job that was handed out could not be
\* started: the tick ends there, the row stays as it is, no thread is joined
\* and nothing is saved.
Raise ==
    /\ tick.stage = "yielded"
    /\ raised' = raised \cup {tick.row.job}
    /\ tick' = NoTick
    /\ \/ ~HasNext /\ UNCHANGED faults
       \/ kills + faults < MaxFaults /\ faults' = faults + 1
    /\ UNCHANGED <<now, state, tab, id_counter, dirty, file, text, fresh, loader, saving,
                   ran, twice, edits, kills>>

\* The threads are joined, and the table is saved.
Joined == tick.stage = "due" /\ tick.ahead = NoRow /\ (tick.joins => loader = "no")
EndTick ==
    /\ Joined
    /\ \/ SaveBegin("tick") /\ UNCHANGED tick
       \/ (SaveEnd("tick") \/ SaveNothing) /\ tick' = NoTick
    /\ UNCHANGED <<now, state, tab, id_counter, text, fresh, loader, history>>

\* load_crontab(), in its thread.
LoadCrontab ==
    /\ loader = "load" /\ ~fresh
    /\ Parse("crontab", text)
    /\ fresh' = TRUE
    /\ loader' = IF Failed(text) THEN "no" ELSE "save"
    /\ UNCHANGED <<now, state, file, text, tick, saving, history>>
LoaderEnd ==
    /\ \/ loader = "load" /\ fresh /\ loader' = "no" /\ UNCHANGED <<saving, file, dirty>>
       \/ loader = "save" /\ SaveBegin("loader") /\ UNCHANGED loader
       \/ loader = "save" /\ (SaveEnd("loader") \/ SaveNothing) /\ loader' = "no"
    /\ UNCHANGED <<now, state, tab, id_counter, text, fresh, tick, history>>
-----------------------------------------------------------------------------
\* The user writes the crontab.
Edit(t) ==
    /\ edits < MaxEdits /\ t # text
    /\ edits' = edits + 1
    /\ text' = t /\ fresh' = FALSE
    /\ UNCHANGED <<now, state, tab, id_counter, dirty, file, tick, loader, saving,
                   ran, twice, raised, kills, faults>>

Pass ==
    /\ now < MaxTime
    /\ now' = now + 1
    /\ UNCHANGED <<state, tab, id_counter, dirty, file, text, fresh, tick, loader, saving,
                   history>>

Kill ==
    /\ state \in {"start", "up"} /\ kills + faults < MaxFaults
    /\ kills' = kills + 1
    /\ state' = "down" /\ tick' = NoTick /\ loader' = "no" /\ saving' = "no"
    /\ tab' = NoRows /\ dirty' = FALSE
    /\ UNCHANGED <<now, id_counter, file, text, fresh, ran, twice, raised, edits, faults>>

Init ==
    /\ now = 0 /\ state = "down"
    /\ tab = NoRows /\ id_counter = 0 /\ dirty = FALSE /\ file = "whole"
    /\ text \in Texts /\ fresh = FALSE
    /\ tick = NoTick /\ loader = "no" /\ saving = "no"
    /\ ran = {} /\ twice = {} /\ raised = {} /\ edits = 0 /\ kills = 0 /\ faults = 0

\* The steps of a tick, and of the thread that loads the crontab.
Tick == BeginTick \/ YieldDue \/ Rerun \/ Reschedule \/ Raise \/ EndTick
LoaderThread == LoadCrontab \/ LoaderEnd

Next ==
    \/ Load \/ ParseInternal \/ ParseCrontab \/ StartSave \/ Started
    \/ Tick \/ LoaderThread
    \/ \E t \in Texts : Edit(t)
    \/ Pass \/ Kill

\* The app's loop and the thread go on, and so does the clock.
Fairness == WF_vars(Tick) /\ WF_vars(LoaderThread) /\ WF_vars(Pass)
Spec == Init /\ [][Next]_vars /\ Fairness
-----------------------------------------------------------------------------
\* The minutes of the two passes of the hour that comes twice.
SecondPass == Back .. Back + Shift - 1
Repeated == Back - Shift .. Back + Shift - 1

\* The minutes strictly between t and u at which a job is due: a local time
\* that comes twice counts once.
Times(j, t, u) == {v \in t + 1 .. u - 1 : v \notin SecondPass /\ Local(v) % Period[j] = Phase[j]}

\* The variables have their types, and however often crontabs are parsed the
\* table holds one row for each job.
TypeOK ==
    /\ now \in 0 .. MaxTime /\ state \in {"down", "start", "up", "broken"}
    /\ file \in {"whole", "cut"} /\ saving \in {"no", "start", "tick", "loader"}
    /\ loader \in {"no", "load", "save"}
    /\ \A i \in DOMAIN tab : i <= id_counter /\ tab[i].job \in AllJobs
    /\ \A i, k \in DOMAIN tab : tab[i].job = tab[k].job => i = k
    /\ state = "broken" => kills > 0

\* A no-skip job has run for every time it was due since its row was made and
\* before the time it is next due, however long the app slept and however
\* often a tick raised.  A reload of the crontab makes new rows: what was
\* overdue then is forgotten.
NothingSkipped ==
    \A i \in DOMAIN tab : tab[i].job \in NoSkip =>
        \A t \in Times(tab[i].job, tab[i].made, tab[i].next) : <<tab[i].job, t>> \in ran

\* A job runs again for a time it ran for only if a tick raised at that job
\* and left it scheduled, or in the hour that comes twice; kills, reloads of
\* the crontab and what raises at other jobs make no job run twice.
RunsOnce == \A r \in twice : r[1] \in raised \/ r[2] \in Repeated

\* A job whose times lie further apart than calculate_next() looks.
Rare(j) == Period[j] > Horizon

\* A job that is due is run and rescheduled, or its row is replaced, unless it
\* or a due job before it is rare: there every tick raises.  The tick, the
\* loader and their saves never wait for each other for ever.
DueIsServed ==
    \A j \in AllJobs :
        LET Behind(i) == \E k \in DOMAIN tab : k <= i /\ tab[k].next <= now /\ Rare(tab[k].job)
            due == \E i \in DOMAIN tab : tab[i].job = j /\ tab[i].next <= now /\ ~Behind(i)
        IN (state = "up" /\ due) ~> (state # "up" \/ ~due)
=============================================================================
