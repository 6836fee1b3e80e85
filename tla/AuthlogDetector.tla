---- MODULE AuthlogDetector ----
(***************************************************************************)
(* The auth-log detector's live mode: every run fetches a day of auth-log  *)
(* lines from the index, buckets them into windows per host, fits a        *)
(* baseline on the older windows, scores those from its cursor on, stores  *)
(* an alert for each flagged one, and only then moves the cursor.  Lines   *)
(* are indexed all the while, and a run may die between the two commits.   *)
(* Time is counted in windows of five minutes.                             *)
(***************************************************************************)
EXTENDS Integers, Sequences, FiniteSets

CONSTANTS
    Host,         \* [1..N -> Nat], the host of the n-th line indexed
    Template,     \* [1..N -> templates], the template Drain gives the line
    Suspect,      \* the lines that may make the model flag their window
    Junk,         \* the lines that do not parse as syslog
    Fetch,        \* _FETCH_HOURS, in windows
    Page,         \* the search's limit of lines
    MinWindows,   \* _MIN_WINDOWS
    MaxTime,      \* bound: the last window there is
    Late,         \* how many windows a line may be indexed late
    Outage,       \* the longest time without a completed run
    Burst,        \* the most lines indexed within an outage
    None          \* no cursor yet

N == Len(Host)

ASSUME DetectorBounds ==
    /\ Host \in Seq(Nat) /\ Len(Template) = N
    /\ Suspect \subseteq 1..N /\ Junk \subseteq 1..N
    /\ Fetch \in Nat /\ Page \in Nat /\ Late \in Nat /\ Outage \in Nat /\ Burst \in Nat
    /\ MinWindows \in Nat /\ MinWindows >= 4   \* 10 in the code
    /\ MaxTime \in Nat
    /\ None \notin Nat

VARIABLES
    now,       \* the time, in windows
    log,       \* the index: when each line was indexed, and the window of its own time
    cursor,    \* DetectorCursor.last_ts, a window
    lastRun,   \* DetectorCursor.last_run_at
    alerts,    \* the detector's alerts: their id, and the lines they stand for
    pc,        \* "idle", "ingest" or "commit"
    run,       \* the run's locals: when it began, its page, its cursor
    scored,    \* lines that a completed run scored ...
    passed,    \* ... or saw without scoring: too few windows, or training data
    reported   \* rows that a completed run flagged

vars == <<now, log, cursor, lastRun, alerts, pc, run, scored, passed, reported>>

----
\* Windows and their features.  A row is a host and a window.

\* The page the search answers with: the oldest lines of the last day, in the order
\* they were indexed.
Hits(t) ==
    LET day == {n \in DOMAIN log : log[n].at > t - Fetch}
    IN  {n \in day : Cardinality({m \in day : m < n}) < Page}

First(page) == CHOOSE n \in page : \A m \in page : n <= m

RowOf(n) == <<Host[n], log[n].window>>

\* window_features: the rows of a page.
Rows(page) == {RowOf(n) : n \in page \ Junk}

LinesOf(row, page) == {n \in page \ Junk : RowOf(n) = row}

\* Rows come ordered by host, then by window.
Precedes(q, r) == q[1] < r[1] \/ (q[1] = r[1] /\ q[2] < r[2])

\* int(0.7 * n), but at least 2.
Cut(n) == IF (7 * n) \div 10 > 2 THEN (7 * n) \div 10 ELSE 2

\* Split by fraction: the first rows in their order are the baseline.
Head7(rows) == {r \in rows : Cardinality({q \in rows : Precedes(q, r)}) < Cut(Cardinality(rows))}

\* Below this there is not enough to model a baseline.
Enough(rows) == Cardinality(rows) >= MinWindows

\* Whether there is history enough before the cursor, and something after it.
HasHistory(rows, from) ==
    /\ from # None
    /\ Cardinality({r \in rows : r[2] < from}) >= 2
    /\ \E r \in rows : r[2] >= from

\* Mutant: the cursor's own window is not scored again.
AfterCursor(rows, from) ==
    IF HasHistory(rows, from) THEN {r \in rows : r[2] > from} ELSE rows \ Head7(rows)

\* _split: the rows to score.  The cursor's window is scored again, as it may have
\* been fetched half full.
Recent(rows, from) ==
    IF HasHistory(rows, from) THEN {r \in rows : r[2] >= from} ELSE rows \ Head7(rows)

\* Mutant: templates are numbered from the newest line.
TemplateIdNewest(k, page) ==
    LET last(j) == CHOOSE n \in page \ Junk :
                        Template[n] = j /\ \A m \in page \ Junk : Template[m] = j => n >= m
    IN  Cardinality({j \in {Template[n] : n \in page \ Junk} : last(j) >= last(k)})

\* Drain numbers templates in the order they first appear in the page.
FirstWith(k, page) ==
    CHOOSE n \in page \ Junk :
        Template[n] = k /\ \A m \in page \ Junk : Template[m] = k => n <= m

TemplateId(k, page) ==
    Cardinality({j \in {Template[n] : n \in page \ Junk} :
                    FirstWith(j, page) <= FirstWith(k, page)})

\* _alert_id: host, window and the set of template numbers.
AlertId(row, page) ==
    <<row, {TemplateId(Template[n], page) : n \in LinesOf(row, page)}>>

\* window_to_alert.  What the detector's alert says of its window is left out.
Alert(row, page) ==
    [id |-> AlertId(row, page), lines |-> LinesOf(row, page), first |-> First(page)]

\* The windows that the model may flag: whether one's score is far enough from the
\* baseline's is ECOD's word.
Flaggable(rows, page) == {r \in rows : LinesOf(r, page) \cap Suspect # {}}

----
Idle == [from |-> 0, page |-> {}, recent |-> {}, flagged |-> {}]

Init ==
    /\ now = 0
    /\ log = <<>>
    /\ cursor = None
    /\ lastRun = 0
    /\ alerts = {}
    /\ pc = "idle"
    /\ run = Idle
    /\ scored = {}
    /\ passed = {}
    /\ reported = {}

\* The next line is indexed, up to Late windows after its own time.
Index(w) ==
    /\ Len(log) < N
    /\ w \in Nat /\ now - Late <= w /\ w <= now
    /\ Cardinality({n \in DOMAIN log : log[n].at > now - Outage}) < Burst
    /\ log' = Append(log, [at |-> now, window |-> w])
    /\ UNCHANGED <<now, cursor, lastRun, alerts, pc, run, scored, passed, reported>>

Tick ==
    /\ now < MaxTime
    /\ now < lastRun + Outage
    /\ now' = now + 1
    /\ UNCHANGED <<log, cursor, lastRun, alerts, pc, run, scored, passed, reported>>

\* live_once reads the cursor, fetches, and scores.  Which of the rows that hold a
\* suspect line are flagged is the anomaly model's word.
Score ==
    /\ pc = "idle"
    /\ LET page == Hits(now)
           rows == Rows(page)
           recent == IF Enough(rows) THEN Recent(rows, cursor) ELSE {}
       IN  \E flagged \in SUBSET Flaggable(recent, page) :
            run' = [from |-> now, page |-> page, recent |-> recent, flagged |-> flagged]
    /\ pc' = "ingest"
    /\ UNCHANGED <<now, log, cursor, lastRun, alerts, scored, passed, reported>>

\* ingest_with_retry: an alert whose id is stored already is skipped.
Ingest ==
    /\ pc = "ingest"
    /\ alerts' = alerts \cup
            {a \in {Alert(r, run.page) : r \in run.flagged} : \A b \in alerts : b.id # a.id}
    /\ pc' = "commit"
    /\ UNCHANGED <<now, log, cursor, lastRun, run, scored, passed, reported>>

\* Mutant: the cursor goes to the end of the newest window.
WindowEnd(recent) == (CHOOSE w \in {r[2] : r \in recent} : \A r \in recent : r[2] <= w) + 1

Newest(recent) == CHOOSE w \in {r[2] : r \in recent} : \A r \in recent : r[2] <= w

MoveCursor ==
    /\ cursor' = IF run.recent = {} THEN cursor ELSE Newest(run.recent)
    /\ lastRun' = run.from
    /\ LET lines == {n \in run.page \ Junk : RowOf(n) \in run.recent}
       IN  /\ scored' = scored \cup lines
           /\ passed' = IF Enough(Rows(run.page)) /\ HasHistory(Rows(run.page), cursor)
                        THEN passed ELSE passed \cup (run.page \ lines)
    /\ reported' = reported \cup run.flagged
    /\ pc' = "idle"
    /\ run' = Idle
    /\ UNCHANGED <<now, log, alerts>>

\* Mutant: the cursor is committed before the alerts.
CommitFirst == pc = "ingest" /\ MoveCursor

\* The cursor moves to the newest window scored, if any was.
Commit == pc = "commit" /\ MoveCursor

\* The run raises (the search fails, the database stays locked) or its process dies.
Abort ==
    /\ pc # "idle"
    /\ pc' = "idle"
    /\ run' = Idle
    /\ UNCHANGED <<now, log, cursor, lastRun, alerts, scored, passed, reported>>

Next ==
    \/ \E w \in 0..MaxTime : Index(w)
    \/ Tick
    \/ Score \/ Ingest \/ Commit \/ Abort

Spec == Init /\ [][Next]_vars

----
\* The type invariant.
TypeOK ==
    /\ now \in 0..MaxTime /\ lastRun \in 0..now
    /\ log \in Seq([at : 0..now, window : 0..now]) /\ Len(log) <= N
    /\ cursor \in 0..now \cup {None}
    /\ \A a \in alerts : a.lines \subseteq DOMAIN log
    /\ pc \in {"idle", "ingest", "commit"}
    /\ run.from \in 0..now /\ run.page \subseteq DOMAIN log
    /\ run.recent \subseteq Rows(run.page) /\ run.flagged \subseteq run.recent
    /\ reported \subseteq Rows(DOMAIN log)
    /\ scored \subseteq DOMAIN log /\ passed \subseteq DOMAIN log

\* run.py: "scored up to here".  Every line of a window before the cursor was scored,
\* or seen by a run that by design scored none of its window: for want of history.
\* It needs lines indexed in time, runs often enough, and pages that outlast a burst.
ScoredUpToHere ==
    \A n \in DOMAIN log \ Junk :
        cursor # None /\ log[n].window < cursor => n \in scored \cup passed

\* A flagged window is stored before the cursor passes it, whatever run died: there
\* is an alert for its host and window (an older one, if the window grew by lines of
\* the same templates).
FlaggedIsStored == \A r \in reported : \E a \in alerts : a.id[1] = r

\* emit.py says that a re-run over the same window produces the same id.  It does as long
\* as no line has aged out of the page's front in between, which renumbers the templates.
RenumberedOnlyByAging ==
    \A a, b \in alerts : a.lines = b.lines /\ a.first = b.first => a.id = b.id
====
