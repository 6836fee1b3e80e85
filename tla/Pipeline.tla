---- MODULE Pipeline ----
(***************************************************************************)
(* The pipeline cycle: poll the Wazuh index from a timestamp cursor, store *)
(* what is new, triage a bounded number of alerts, and rebuild the derived *)
(* state if the cycle did anything.  Detectors store alerts of their own   *)
(* from other processes at any time.  The scheduler runs one cycle at once *)
(* (max_instances=1); a cycle may die at any point.                        *)
(***************************************************************************)
EXTENDS Integers, FiniteSets

CONSTANTS
    Alert,        \* every alert there will be
    Time,         \* [Alert -> Nat], when it happened, in UTC
    Local,        \* the alerts that detectors store themselves
    Malformed,    \* the documents normalize_alert raises on
    MayFail,      \* the alerts on which a triage attempt may raise
    Unstorable,   \* the alerts for which the model may give a verdict that cannot be stored
    Offset,       \* what the manager's local time adds to UTC
    Late,         \* how much older than an indexed alert a newly indexed one may be
    Lookback,     \* wazuh_poll_lookback_seconds
    Page,         \* the size of one search answer
    PerCycle,     \* _TRIAGE_PER_CYCLE
    MaxAttempts,  \* triage_max_attempts
    Answer,       \* what triage stores: "known" verdicts, or one that is "unknown" to _RANK
    MaxCrash,     \* bound: how many cycles may die
    None          \* no verdict

ASSUME PipelineBounds ==
    /\ Time \in [Alert -> Nat]
    /\ Local \subseteq Alert /\ Malformed \subseteq Alert \ Local
    /\ MayFail \subseteq Alert /\ Unstorable \subseteq Alert
    /\ Offset \in Int
    /\ Late \in Nat /\ Lookback \in Nat /\ Page \in Nat \ {0}
    /\ PerCycle \in Nat /\ MaxAttempts \in Nat /\ MaxCrash \in Nat
    /\ Answer \subseteq {"known", "unknown"}
    /\ None \notin {"known", "unknown"}

VARIABLES
    index,     \* the documents in the Wazuh index
    stored,    \* the rows of the alert table
    letters,   \* the malformed documents with a dead letter
    verdict,   \* [Alert -> Answer \cup {None}]
    attempts,  \* [Alert -> Nat], failed triage attempts in the dead letter table
    grouped,   \* the alerts that some incident holds
    pc,        \* "idle", "ingest", "pending", "triage" or "rebuild"
    page,      \* what is left to do of the search answer
    todo,      \* what is left to triage in this cycle
    news,      \* ingested or triaged
    crashes,   \* how many cycles have died
    cut        \* whether a cycle has ended before its rebuild, for any reason

vars == <<index, stored, letters, verdict, attempts, grouped, pc, page, todo, news, crashes, cut>>

Source == Alert \ Local

\* The timestamp column keeps the local time and drops the offset.
Stamp(e) == IF e \in Local THEN Time[e] ELSE Time[e] + Offset

\* Mutant: gt in place of gte, and no lookback.
AfterCursor(e, rows) == \A f \in rows : Time[e] > Stamp(f)

\* The search's range: at or after the newest stored timestamp less the lookback,
\* read as UTC; everything when nothing is stored.
InRange(e, rows) == \A f \in rows : Time[e] >= Stamp(f) - Lookback

\* normalize_alert raises on the document: a field it needs is missing.
Raises(e) == e \in Malformed

\* The n oldest of a set; alerts of one time may come in any order.
Oldest(S, n) ==
    {P \in SUBSET S :
        /\ Cardinality(P) = (IF Cardinality(S) < n THEN Cardinality(S) ELSE n)
        /\ \A e \in P, f \in S \ P : Time[e] <= Time[f]}

\* Mutant: the search answers with the newest first.
NewestPage(S) ==
    {P \in SUBSET S :
        /\ Cardinality(P) = (IF Cardinality(S) < Page THEN Cardinality(S) ELSE Page)
        /\ \A e \in P, f \in S \ P : Time[e] >= Time[f]}

\* One answer of the search: "size" hits, in ascending order of timestamp.
Answers(S) == Oldest(S, Page)

\* record: one more attempt in the alert's dead letter.
Recorded(e) == [attempts EXCEPT ![e] = @ + 1]

\* The alert is quarantined.
Exhausted(e) == attempts[e] >= MaxAttempts

\* The alerts without a verdict that are not quarantined.
Pending == {e \in stored : verdict[e] = None /\ ~Exhausted(e)}

----
Init ==
    /\ index = {}
    /\ stored = {}
    /\ letters = {}
    /\ verdict = [e \in Alert |-> None]
    /\ attempts = [e \in Alert |-> 0]
    /\ grouped = {}
    /\ pc = "idle"
    /\ page = {}
    /\ todo = {}
    /\ news = FALSE
    /\ crashes = 0
    /\ cut = FALSE

\* Wazuh indexes an alert, at most Late after a newer one.
Occur(e) ==
    /\ e \in Source \ index
    /\ \A f \in index : Time[f] <= Time[e] + Late
    /\ index' = index \cup {e}
    /\ UNCHANGED <<stored, letters, verdict, attempts, grouped, pc, page, todo, news, crashes, cut>>

\* A detector's own process stores an alert.
Emit(e) ==
    /\ e \in Local \ stored
    /\ stored' = stored \cup {e}
    /\ UNCHANGED <<index, letters, verdict, attempts, grouped, pc, page, todo, news, crashes, cut>>

\* A cycle begins: the cursor is read and the index is searched.  (A search that
\* fails ends the cycle and changes nothing.)
Poll ==
    /\ pc = "idle"
    /\ page' \in Answers({e \in index : InRange(e, stored)})
    /\ pc' = "ingest"
    /\ UNCHANGED <<index, stored, letters, verdict, attempts, grouped, todo, news, crashes, cut>>

\* A document that cannot be normalized gets a dead letter and is skipped.
SkipMalformed(e) ==
    /\ pc = "ingest"
    /\ e \in page /\ Raises(e)
    /\ letters' = letters \cup {e}
    /\ page' = page \ {e}
    /\ UNCHANGED <<index, stored, verdict, attempts, grouped, pc, todo, news, crashes, cut>>

\* What is new of the answer is stored, in one commit.
StorePage ==
    /\ pc = "ingest"
    /\ \A e \in page : ~Raises(e)
    /\ stored' = stored \cup page
    /\ news' = (page \ stored # {})
    /\ page' = {}
    /\ pc' = "pending"
    /\ UNCHANGED <<index, letters, verdict, attempts, grouped, todo, crashes, cut>>

\* triage_pending reads the alerts without a verdict, oldest first, up to the limit.
ReadPending ==
    /\ pc = "pending"
    /\ todo' \in Oldest(Pending, PerCycle)
    /\ pc' = "triage"
    /\ UNCHANGED <<index, stored, letters, verdict, attempts, grouped, page, news, crashes, cut>>

InTurn(e) == pc = "triage" /\ e \in todo /\ \A f \in todo : Time[e] <= Time[f]

\* triage_alert commits a verdict.
TriageOk(e, v) ==
    /\ InTurn(e)
    /\ verdict' = [verdict EXCEPT ![e] = v]
    /\ todo' = todo \ {e}
    /\ news' = TRUE
    /\ UNCHANGED <<index, stored, letters, attempts, grouped, pc, page, crashes, cut>>


\* triage_alert raises: the attempt is recorded and the loop goes on.
TriageFails(e) ==
    /\ InTurn(e) /\ e \in MayFail
    /\ attempts' = Recorded(e)
    /\ todo' = todo \ {e}
    /\ UNCHANGED <<index, stored, letters, verdict, grouped, pc, page, news, crashes, cut>>

\* The cycle ends here: nothing more is triaged and nothing is rebuilt.
EndEarly ==
    /\ pc' = "idle"
    /\ page' = {}
    /\ todo' = {}
    /\ news' = FALSE
    /\ cut' = TRUE
    /\ UNCHANGED <<index, stored, letters, verdict, attempts, grouped>>

\* triage_alert raises in its own commit, over a verdict the table cannot hold: the
\* session has to be rolled back first, so the record of the attempt raises as well.
TriageBreaks(e) ==
    /\ InTurn(e) /\ e \in Unstorable
    /\ EndEarly
    /\ UNCHANGED crashes

\* Mutant: the rebuild waits until everything stored is triaged.
GateShut ==
    /\ pc = "triage" /\ todo = {}
    /\ IF \E e \in stored : verdict[e] = None THEN pc' = "idle" ELSE pc' = "rebuild"
    /\ news' = FALSE
    /\ UNCHANGED <<index, stored, letters, verdict, attempts, grouped, page, todo, crashes, cut>>

\* The gate: nothing ingested and nothing triaged means nothing to rebuild.
Gate ==
    /\ pc = "triage" /\ todo = {}
    /\ pc' = IF news THEN "rebuild" ELSE "idle"
    /\ news' = FALSE
    /\ UNCHANGED <<index, stored, letters, verdict, attempts, grouped, page, todo, crashes, cut>>

Unrankable == {e \in stored : verdict[e] = "unknown"}

\* correlate() groups every stored alert.
Rebuild ==
    /\ pc = "rebuild"
    /\ Unrankable = {}
    /\ grouped' = stored
    /\ pc' = "idle"
    /\ UNCHANGED <<index, stored, letters, verdict, attempts, page, todo, news, crashes, cut>>

\* correlate() raises at the first group that holds an unrankable verdict: only
\* groups before it are written.
RebuildRaises ==
    /\ pc = "rebuild"
    /\ \E e \in Unrankable, S \in SUBSET (stored \ Unrankable) :
        grouped' = grouped \cup S
    /\ pc' = "idle"
    /\ UNCHANGED <<index, stored, letters, verdict, attempts, page, todo, news, crashes, cut>>

\* The process dies in the middle of a cycle, or a database error ends the cycle.
Crash ==
    /\ pc # "idle"
    /\ crashes < MaxCrash
    /\ crashes' = crashes + 1
    /\ EndEarly

Cycle ==
    \/ Poll
    \/ \E e \in Alert : SkipMalformed(e)
    \/ StorePage
    \/ ReadPending
    \/ \E e \in Alert, v \in Answer : TriageOk(e, v)
    \/ \E e \in Alert : TriageFails(e) \/ TriageBreaks(e)
    \/ Gate
    \/ Rebuild
    \/ RebuildRaises

Next ==
    \/ \E e \in Alert : Occur(e) \/ Emit(e)
    \/ Cycle
    \/ Crash

Spec == Init /\ [][Next]_vars

\* The scheduler starts a cycle every minute, and a cycle that does not die goes
\* on: every call in it has a timeout.
LiveSpec == Spec /\ WF_vars(Cycle)

----
\* The type invariant.
TypeOK ==
    /\ index \subseteq Source
    /\ stored \subseteq Local \cup (index \ Malformed)
    /\ letters \subseteq index \cap Malformed
    /\ verdict \in [Alert -> Answer \cup {None}]
    /\ attempts \in [Alert -> 0..MaxAttempts]
    /\ grouped \subseteq stored
    /\ pc \in {"idle", "ingest", "pending", "triage", "rebuild"}
    /\ page \subseteq index
    /\ todo \subseteq Pending
    /\ news \in BOOLEAN
    /\ crashes \in 0..MaxCrash
    /\ cut \in BOOLEAN

\* The cursor loses nothing, as long as no detector has stored an alert ahead of the
\* poller: an indexed alert that is neither stored nor dead lettered is still in the
\* range of the next search, although it was indexed late, a page was cut off before
\* it, or a cycle died.
NothingBehind ==
    stored \cap Local = {} =>
        \A e \in index : e \in stored \cup letters \/ InRange(e, stored)

\* Between cycles, as long as none has ended early or stored an unknown verdict, every
\* polled alert and every detector's alert with a verdict is in an incident: the
\* gate skips no rebuild that matters.
IdleIsGrouped ==
    pc = "idle" /\ ~cut /\ Unrankable = {} =>
        \A e \in stored : e \in Source \/ verdict[e] # None => e \in grouped


\* "The re-fetched overlap is harmless": every alert that is indexed is stored or dead
\* lettered in the end.  It is not, where the overlap alone fills a page.
EventuallyStored == \A e \in Source : e \in index ~> e \in stored \cup letters

\* A detector has stored an alert that is more than the lookback newer.
Overtaken(e) == \E f \in stored \cap Local : Time[e] < Stamp(f) - Lookback

\* The lookback holds a page of alerts that have been dealt with and are not newer.
Crowded(e) ==
    LET again == {f \in index \cap (stored \cup letters) :
                    Time[f] <= Time[e] /\ \A g \in stored : Time[f] >= Stamp(g) - Lookback}
    IN  Cardinality(again) >= Page


\* Every polled alert reaches an incident in the end, unless a cycle ends early or the
\* model answers with a verdict the program does not know.
EventuallyGrouped ==
    \A e \in Source : e \in stored ~> e \in grouped \/ cut \/ Unrankable # {}
====
