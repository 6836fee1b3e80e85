---- MODULE IncidentDesk ----
(***************************************************************************)
(* The analyst's side of an incident: opening its page, which proposes     *)
(* response tasks, and overriding a verdict, which recomputes the          *)
(* severity.  Requests run in threads beside the rebuild of Correlation    *)
(* and beside each other; each action is one statement or commit of one.   *)
(***************************************************************************)
EXTENDS Correlation

CONSTANTS
    Request,         \* the requests that may be in flight
    AnalystVerdict,  \* the verdicts analysts may choose
    Native,          \* [Alert -> SUBSET Title], playbooks its rule's techniques call for
    Guessed,         \* [Alert -> SUBSET Title], playbooks the verdict's technique calls for
    AttackRule,      \* the alerts of rules in the "attack" group
    Fallback         \* the title proposed when only that group is known

ASSUME DeskBounds ==
    /\ AnalystVerdict \subseteq Verdict
    /\ Native \in [Alert -> SUBSET Title]
    /\ Guessed \in [Alert -> SUBSET Title]
    /\ AttackRule \subseteq Alert
    /\ Fallback \in Title

VARIABLE request  \* [Request -> record], where each request stands and what it has read

vars == <<corrVars, request>>

NoRequest == [at |-> "done"]

DeskInit == CorrInit /\ request = [r \in Request |-> NoRequest]

Enter(r, step) == request' = [request EXCEPT ![r] = step]

----
\* POST /verdicts/{id}/override: the alert's link is read, if it has one.
BeginOverride(r, a, v) ==
    /\ request[r].at = "done"
    /\ verdict[a] # None
    /\ \E i \in Incident \cup {None} :
        /\ IF i = None THEN \A k \in Incident : a \notin members[k]
           ELSE a \in members[i]
        /\ Enter(r, [at |-> "record", alert |-> a, choice |-> v, incident |-> i])
    /\ UNCHANGED corrVars

\* record_override commits the feedback row.
RecordOverride(r) ==
    /\ request[r].at = "record"
    /\ analyst' = [analyst EXCEPT ![request[r].alert] = request[r].choice]
    /\ Enter(r, IF request[r].incident = None THEN NoRequest
                ELSE [at |-> "load", incident |-> request[r].incident])
    /\ UNCHANGED <<alerts, verdict, status, severity, members, tasks, locals>>

\* The incident row is loaded.
LoadIncident(r) ==
    /\ request[r].at = "load"
    /\ Enter(r, [at |-> "compute", incident |-> request[r].incident,
                 loaded |-> severity[request[r].incident]])
    /\ UNCHANGED corrVars

\* The links, verdicts and overrides are read and the severity is computed.
ComputeSeverity(r) ==
    /\ request[r].at = "compute"
    /\ Enter(r, [at |-> "save", incident |-> request[r].incident,
                 loaded |-> request[r].loaded,
                 computed |-> SeverityOf(members[request[r].incident], verdict, analyst)])
    /\ UNCHANGED corrVars

\* The commit: no UPDATE is issued when the value is the one that was loaded.
SaveSeverity(r) ==
    /\ request[r].at = "save"
    /\ severity' = IF request[r].computed = request[r].loaded THEN severity
                   ELSE [severity EXCEPT ![request[r].incident] = request[r].computed]
    /\ Enter(r, NoRequest)
    /\ UNCHANGED <<alerts, verdict, analyst, status, members, tasks, locals>>

----
\* suggest(): the titles called for, or the fallback when there is none.
Suggest(g) ==
    LET called == UNION {Native[a] : a \in g}
                  \cup UNION {Guessed[a] : a \in {b \in g : verdict[b] # None}}
    IN  IF called = {} /\ g \cap AttackRule # {} THEN {Fallback} ELSE called

\* GET /incidents/{id}: the links, alerts and verdicts are read.
OpenPage(r, i) ==
    /\ request[r].at = "done"
    /\ status[i] # "none"
    /\ Enter(r, [at |-> "titles", incident |-> i, wanted |-> Suggest(members[i])])
    /\ UNCHANGED corrVars

\* Mutant: every title called for is inserted.
ReadNoTitles(r) ==
    /\ request[r].at = "titles"
    /\ Enter(r, [at |-> "propose", incident |-> request[r].incident,
                 missing |-> request[r].wanted])
    /\ UNCHANGED corrVars

\* The titles the incident already has are read.
ReadTitles(r) ==
    /\ request[r].at = "titles"
    /\ Enter(r, [at |-> "propose", incident |-> request[r].incident,
                 missing |-> {t \in request[r].wanted : tasks[request[r].incident][t] = 0}])
    /\ UNCHANGED corrVars

\* The missing tasks are inserted, in one commit.
ProposeTasks(r) ==
    /\ request[r].at = "propose"
    /\ tasks' = [tasks EXCEPT ![request[r].incident] =
                    [t \in Title |-> @[t] + IF t \in request[r].missing THEN 1 ELSE 0]]
    /\ Enter(r, NoRequest)
    /\ UNCHANGED <<alerts, verdict, analyst, status, severity, members, locals>>

\* The request dies, or one of its statements fails: its commits stay.
RequestFails(r) ==
    /\ request[r].at # "done"
    /\ Enter(r, NoRequest)
    /\ UNCHANGED corrVars

BeginRequest(r) ==
    \/ \E a \in Alert, v \in AnalystVerdict : BeginOverride(r, a, v)
    \/ \E i \in Incident : OpenPage(r, i)

ContinueRequest(r) ==
    \/ RecordOverride(r)
    \/ LoadIncident(r)
    \/ ComputeSeverity(r)
    \/ SaveSeverity(r)
    \/ ReadTitles(r)
    \/ ProposeTasks(r)
    \/ RequestFails(r)

RequestNext(r) == BeginRequest(r) \/ ContinueRequest(r)

Rebuild ==
    \/ ReadAlerts
    \/ ReadIncidents
    \/ \E g \in DOMAIN home : UpdateIncident(g)
    \/ \E g \in DOMAIN home, i \in Incident : InsertIncident(g, i)
    \/ LinkIncident
    \/ \E i \in Incident : ReadTasks(i)
    \/ \E i \in Incident : RetireIncident(i)
    \/ ReturnSurvivors
    \/ AbortPass

Next ==
    \/ \E a \in Alert : Ingest(a) /\ UNCHANGED request
    \/ \E a \in Alert, v \in ModelVerdict : Triage(a, v) /\ UNCHANGED request
    \/ Rebuild /\ UNCHANGED request
    \/ \E r \in Request : RequestNext(r)

Spec == DeskInit /\ [][Next]_vars

\* What holds without overlap: a rebuild or a request begins only when no other
\* is under way.
Quiet == pc = "idle" /\ \A r \in Request : request[r].at = "done"

NextAlone ==
    \/ \E a \in Alert : Ingest(a) /\ UNCHANGED request
    \/ \E a \in Alert, v \in ModelVerdict : Triage(a, v) /\ UNCHANGED request
    \/ (pc = "idle" => Quiet) /\ Rebuild /\ UNCHANGED request
    \/ \E r \in Request : Quiet /\ BeginRequest(r)
    \/ \E r \in Request : ContinueRequest(r)

OneAtATime == DeskInit /\ [][NextAlone]_vars

----
\* What the rebuild's own steps read and write.
RebuildShape ==
    /\ alerts \subseteq Alert
    /\ status \in [Incident -> {"none", "open", "merged"}]
    /\ members \in [Incident -> SUBSET Alert]
    /\ pc \in {"idle", "match", "write", "link"}
    /\ seen.alerts \subseteq alerts
    /\ book.links \in [Incident -> SUBSET Alert]
    /\ owner \in [DOMAIN home -> Incident \cup {None}]
    /\ home \in [DOMAIN home -> Incident \cup {None}]
    /\ DOMAIN home = IF pc \in {"write", "link"} THEN Groups(seen.alerts) ELSE {}
    /\ IF pc = "link" THEN fresh \in DOMAIN home /\ home[fresh] # None ELSE fresh = None
    /\ sweep \subseteq {i \in Incident : status[i] # "none"}

\* The type invariant.
TypeOK ==
    /\ RebuildShape
    /\ {verdict, analyst, seen.verdict, seen.analyst} \subseteq [Alert -> Verdict \cup {None}]
    /\ {severity, book.severity} \subseteq [Incident -> Severity]
    /\ tasks \in [Incident -> [Title -> Nat]]
    /\ moved \in [Title -> Nat] \cup {None}
    /\ DOMAIN request = Request
    /\ \A r \in Request :
        /\ request[r].at \in {"done", "record", "load", "compute", "save", "titles", "propose"}
        /\ request[r].at \notin {"done", "record"} => request[r].incident \in Incident
        /\ request[r].at = "record" => /\ request[r].incident \in Incident \cup {None}
                                       /\ request[r].alert \in Alert
                                       /\ request[r].choice \in Verdict
        /\ request[r].at = "save" => request[r].computed \in Severity

----
\* The inductive invariant of the rebuild, in parts.

\* The alerts of an incident all belong to one group of the alerts S.
Related(links, S) ==
    \A i \in Incident : \A a \in links[i] : links[i] \subseteq Group(a, S)

\* Only an open incident has alerts.
OnlyOpenLinked == \A i \in Incident : members[i] # {} => status[i] = "open"

\* The matching is one to one, and misses no group that overlaps an incident.
Matched ==
    /\ Related(book.links, seen.alerts)
    /\ \A g \in DOMAIN home : owner[g] # None =>
        owner[g] \in sweep /\ status[owner[g]] = "open" /\ book.links[owner[g]] \cap g # {}
    /\ \A g, h \in DOMAIN home : owner[g] # None /\ owner[g] = owner[h] => g = h
    /\ \A g \in DOMAIN home, i \in Incident : book.links[i] \cap g # {} => owner[g] # None

\* A group that is written has an open incident to itself.
Placed ==
    /\ \A g \in DOMAIN home : home[g] # None =>
        /\ status[home[g]] = "open"
        /\ members[home[g]] = IF pc = "link" /\ g = fresh THEN {} ELSE g
        /\ owner[g] \in {None, home[g]}
    /\ \A g, h \in DOMAIN home : home[g] # None /\ home[g] \in {home[h], owner[h]} => g = h

\* Every other incident has the links that were read, or was retired.
Remaining ==
    \A i \in Incident \ Survivors :
        members[i] = IF i \in sweep THEN book.links[i] ELSE {}

RebuildInv ==
    /\ RebuildShape
    /\ OnlyOpenLinked
    /\ Related(members, IF pc = "idle" THEN alerts ELSE seen.alerts)
    /\ pc \in {"write", "link"} => Matched /\ Placed /\ Remaining

----
\* After the last commit of a rebuild every alert it read is in exactly one
\* incident, and the incidents are exactly the groups: whatever an earlier
\* crashed rebuild left behind (an unlinked incident, an alert in two) is gone.
PassPartitions ==
    PassComplete =>
        /\ {members[i] : i \in Incident} \ {{}} = Groups(seen.alerts)
        /\ \A i, k \in Incident : i # k => members[i] \cap members[k] = {}
        /\ \A i \in Incident : members[i] # {} => status[i] = "open"

\* At every commit of the rebuild, also one it dies after, an alert that has an
\* incident keeps one: links are never deleted before they are replaced.
LinkedStaysLinked ==
    [][UNION {members[i] : i \in Incident} \subseteq UNION {members'[i] : i \in Incident}]_vars

\* A merged incident is never reopened or given alerts again, so its id cannot
\* stand for a second intrusion.
MergedIsFinal ==
    [][\A i \in Incident : status[i] = "merged" =>
            status'[i] = "merged" /\ members'[i] = {}]_vars

\* When an incident with alerts is retired, its tasks go, in that commit, to an incident
\* that now holds all its alerts.  No task is lost or doubled, and what stays behind was
\* proposed after the rebuild had read the rows it moves.
TasksFollowAlerts ==
    [][\A i \in Incident :
            status[i] = "open" /\ status'[i] = "merged" /\ members[i] # {} =>
                \E k \in Incident \ {i} :
                    /\ members[i] \subseteq members'[k]
                    /\ \A t \in Title :
                        /\ tasks'[k][t] + tasks'[i][t] = tasks[k][t] + tasks[i][t]
                        /\ tasks'[i][t] = tasks[i][t] - moved[t]
                        /\ tasks'[i][t] >= 0]_vars

\* Of the incidents that meet in one group the one with the most alerts keeps
\* its id: what is retired into k had at most as many alerts as k had.
BiggestSurvives ==
    [][\A i \in Incident :
            status[i] = "open" /\ status'[i] = "merged" =>
                \A k \in Survivors :
                    members[i] # {} /\ members[i] \subseteq members[k] =>
                        Cardinality(members[i]) <= Cardinality(book.links[k])]_vars

\* The rebuild refines the ledger: incidents only grow, by related alerts.
Ledger == INSTANCE IncidentLedger WITH
    Alert <- Alert, Entity <- Entity, Time <- Time, Entities <- Entities, Window <- Window,
    Incident <- Incident, alerts <- alerts, status <- status, members <- members
LedgerSpec == Ledger!Spec

\* Without overlap, a completed rebuild leaves every incident with the severity
\* its alerts, verdicts and overrides now call for, although the session only
\* writes a severity that differs from the one it loaded.
RebuildExact ==
    PassComplete =>
        \A i \in Incident : members[i] # {} =>
            severity[i] = SeverityOf(members[i], verdict, analyst)

\* Without overlap, tasks are never left behind on a merged incident, where no
\* analyst working on the winner would see them.
NoTaskOnMerged ==
    pc = "idle" =>
        \A i \in Incident, t \in Title : status[i] = "merged" => tasks[i][t] = 0

\* Without overlap, proposing is idempotent: opening a page never adds a task the
\* incident has, also after a merge brought it the task of another.
ProposesOnce ==
    [][\A i \in Incident, t \in Title :
            tasks[i][t] > 0 /\ tasks'[i][t] > tasks[i][t] => UNCHANGED request]_vars

\* An override survives a rebuild: a rebuild that leaves the incident's alerts as they
\* are does not replace the severity the recorded overrides call for.  It does if the
\* override was recorded while it ran.
OverrideKept ==
    [][\A i \in Incident :
            /\ pc = "write" /\ UNCHANGED request
            /\ members'[i] = members[i]
            /\ \E a \in members[i] : analyst[a] # None
            /\ severity[i] = SeverityOf(members[i], verdict, analyst)
            => severity'[i] = severity[i]]_vars
====
