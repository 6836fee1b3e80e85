---- MODULE Correlation ----
(***************************************************************************)
(* The rebuild of the incidents: correlate() reads the alerts and their    *)
(* verdicts, then the incidents, matches groups to incidents in memory and *)
(* writes one commit per group and per retired incident.  Each action is   *)
(* one read or one commit, so a crash or another writer falls in between.  *)
(* IncidentDesk adds the web requests that work on the same tables.        *)
(***************************************************************************)
EXTENDS Grouping, Functions

CONSTANTS
    MaxIncident,   \* bound: how many incident rows may ever be inserted
    ModelVerdict,  \* the verdicts triage may store
    Title,         \* titles of response tasks
    None           \* no verdict, no incident, no alert, no task rows

Verdict == {"benign", "suspicious", "malicious"}
Severity == {"low", "medium", "high", "pending"}
Incident == 1..MaxIncident

ASSUME IncidentBounds ==
    /\ MaxIncident \in Nat
    /\ ModelVerdict \subseteq Verdict
    /\ None \notin Verdict
    /\ None \notin Incident
    /\ None \notin [Title -> Nat]

VARIABLES
    \* the tables
    alerts,    \* the stored alerts
    verdict,   \* [Alert -> Verdict \cup {None}], the model's
    analyst,   \* [Alert -> Verdict \cup {None}], the latest override
    status,    \* [Incident -> {"none", "open", "merged"}], "none": no such row
    severity,  \* [Incident -> Severity]
    members,   \* [Incident -> SUBSET Alert], the IncidentAlert links
    tasks,     \* [Incident -> [Title -> Nat]], task rows per incident and title
    \* what one call of correlate() holds in memory
    pc,        \* "idle", "match", "write" or "link"
    seen,      \* the alerts, verdicts and overrides it has read
    book,      \* the severities and links it has read
    owner,     \* [groups -> Incident \cup {None}], the incident a group takes
    home,      \* [groups -> Incident \cup {None}], the incident it is written to
    fresh,     \* the group whose new incident is inserted but not linked yet
    sweep,     \* the incidents read that the last loop has not visited
    moved      \* the task rows read from the incident it is about to retire, None before

tables == <<alerts, verdict, analyst, status, severity, members, tasks>>
locals == <<pc, seen, book, owner, home, fresh, sweep, moved>>
corrVars == <<tables, locals>>

----
\* The verdict that counts for an alert: an analyst's override wins.
Effective(model, override, a) ==
    IF override[a] # None THEN override[a] ELSE model[a]

\* incident_severity
SeverityOf(g, model, override) ==
    LET judged == {Effective(model, override, a) : a \in g}
    IN  IF "malicious" \in judged THEN "high"
        ELSE IF None \in judged THEN "pending"
        ELSE IF "suspicious" \in judged THEN "medium" ELSE "low"

\* The order in which groups claim incidents: largest first, then earliest.
ClaimsBefore(g, h) ==
    \/ Cardinality(g) > Cardinality(h)
    \/ Cardinality(g) = Cardinality(h) /\ Start(g) < Start(h)

\* The orders that respect it; rows that tie may come in any order.
ClaimOrders(gs) ==
    {o \in Bijection(gs, 1..Cardinality(gs)) :
        \A g, h \in gs : ClaimsBefore(g, h) => o[g] < o[h]}

\* Mutant: the first incident that overlaps at all is taken.
FirstOverlap(i, candidates, g, links) ==
    i \in candidates /\ \A k \in candidates : i <= k

\* i is the one of a set of incidents that shares most alerts with g, lowest id first.
BestOverlap(i, candidates, g, links) ==
    /\ i \in candidates
    /\ \A k \in candidates :
        LET mine == Cardinality(links[i] \cap g)
            its  == Cardinality(links[k] \cap g)
        IN  mine > its \/ (mine = its /\ i <= k)

\* The matching: each group in turn takes the best incident that overlaps it
\* and that no earlier group has taken.
Matchings(gs, links) ==
    {m \in [gs -> Incident \cup {None}] :
        \E o \in ClaimOrders(gs) : \A g \in gs :
            LET free == {i \in Incident :
                            /\ links[i] \cap g # {}
                            /\ \A h \in gs : o[h] < o[g] => m[h] # i}
            IN  IF free = {} THEN m[g] = None
                ELSE BestOverlap(m[g], free, g, links)}

----
NothingSeen == [alerts |-> {}, verdict |-> [a \in Alert |-> None],
                analyst |-> [a \in Alert |-> None]]
EmptyBook == [severity |-> [i \in Incident |-> "low"],
              links |-> [i \in Incident |-> {}]]
NoGroups == [g \in {} |-> None]

CorrInit ==
    /\ alerts = {}
    /\ verdict = [a \in Alert |-> None]
    /\ analyst = [a \in Alert |-> None]
    /\ status = [i \in Incident |-> "none"]
    /\ severity = [i \in Incident |-> "low"]
    /\ members = [i \in Incident |-> {}]
    /\ tasks = [i \in Incident |-> [t \in Title |-> 0]]
    /\ pc = "idle"
    /\ seen = NothingSeen
    /\ book = EmptyBook
    /\ owner = NoGroups
    /\ home = NoGroups
    /\ fresh = None
    /\ sweep = {}
    /\ moved = None

\* The poller or a detector, which runs in its own process, commits an alert.
Ingest(a) ==
    /\ a \notin alerts
    /\ alerts' = alerts \cup {a}
    /\ UNCHANGED <<verdict, analyst, status, severity, members, tasks, locals>>

\* triage_alert stores a verdict, on the thread that also correlates.
Triage(a, v) ==
    /\ pc = "idle"
    /\ a \in alerts
    /\ verdict[a] = None
    /\ verdict' = [verdict EXCEPT ![a] = v]
    /\ UNCHANGED <<alerts, analyst, status, severity, members, tasks, locals>>

\* The call begins: the alerts, the verdicts and the overrides are read.
ReadAlerts ==
    /\ pc = "idle"
    /\ pc' = "match"
    /\ seen' = [alerts |-> alerts, verdict |-> verdict, analyst |-> analyst]
    /\ UNCHANGED <<tables, book, owner, home, fresh, sweep, moved>>

\* The incidents and links are read and every group is matched, in memory.
ReadIncidents ==
    /\ pc = "match"
    /\ pc' = "write"
    /\ book' = [severity |-> severity, links |-> members]
    /\ owner' \in Matchings(Groups(seen.alerts), members)
    /\ home' = [g \in Groups(seen.alerts) |-> None]
    /\ sweep' = {i \in Incident : status[i] # "none"}
    /\ UNCHANGED <<tables, seen, fresh, moved>>

Unwritten == {g \in DOMAIN home : home[g] = None}

\* The groups are written in the order group_alerts returns them.
WritesNext(g) ==
    /\ pc = "write"
    /\ g \in Unwritten
    /\ \A h \in Unwritten : Start(g) <= Start(h)

\* Mutant: the overrides are left out of the rebuild.
ModelSeverity(g) == SeverityOf(g, seen.verdict, [a \in Alert |-> None])

SeenSeverity(g) == SeverityOf(g, seen.verdict, seen.analyst)

\* A matched group: its incident keeps its id and takes the group's alerts.  The
\* session issues no UPDATE for a severity equal to the one it has loaded.
UpdateIncident(g) ==
    /\ WritesNext(g)
    /\ owner[g] # None
    /\ home' = [home EXCEPT ![g] = owner[g]]
    /\ members' = [members EXCEPT ![owner[g]] = g]
    /\ severity' = IF SeenSeverity(g) = book.severity[owner[g]] THEN severity
                   ELSE [severity EXCEPT ![owner[g]] = SeenSeverity(g)]
    /\ UNCHANGED <<alerts, verdict, analyst, status, tasks, pc, seen, book, owner, fresh, sweep, moved>>

\* Mutant: the id of a retired incident is given out again.
InsertReusingId(g, i) ==
    /\ WritesNext(g)
    /\ owner[g] = None
    /\ status[i] \in {"none", "merged"}
    /\ \A k \in Incident : status[k] \in {"none", "merged"} => i <= k
    /\ status' = [status EXCEPT ![i] = "open"]
    /\ severity' = [severity EXCEPT ![i] = SeenSeverity(g)]
    /\ home' = [home EXCEPT ![g] = i]
    /\ fresh' = g
    /\ pc' = "link"
    /\ UNCHANGED <<alerts, verdict, analyst, members, tasks, seen, book, owner, sweep, moved>>

\* An unmatched group: the new incident is committed before its links are.
InsertIncident(g, i) ==
    /\ WritesNext(g)
    /\ owner[g] = None
    /\ status[i] = "none"
    /\ \A k \in Incident : status[k] = "none" => i <= k
    /\ status' = [status EXCEPT ![i] = "open"]
    /\ severity' = [severity EXCEPT ![i] = SeenSeverity(g)]
    /\ home' = [home EXCEPT ![g] = i]
    /\ fresh' = g
    /\ pc' = "link"
    /\ UNCHANGED <<alerts, verdict, analyst, members, tasks, seen, book, owner, sweep, moved>>

LinkIncident ==
    /\ pc = "link"
    /\ members' = [members EXCEPT ![home[fresh]] = fresh]
    /\ fresh' = None
    /\ pc' = "write"
    /\ UNCHANGED <<alerts, verdict, analyst, status, severity, tasks, seen, book, owner, home, sweep, moved>>

Survivors == {home[g] : g \in DOMAIN home}
Retiring == sweep \ Survivors

\* The first group that overlaps incident i and was matched, if there is one.
Absorbs(g, i) == book.links[i] \cap g # {} /\ owner[g] # None
FirstAbsorbing(g, i) ==
    /\ Absorbs(g, i)
    /\ \A h \in DOMAIN owner : Absorbs(h, i) => Start(g) <= Start(h)

\* The next incident to retire: one that is no group's, the loop goes by id.
RetiresNext(i) ==
    /\ pc = "write"
    /\ Unwritten = {}
    /\ i \in Retiring
    /\ \A k \in Retiring : i <= k

\* Mutants: the winner's own tasks are overwritten; the tasks stay where they are.
OverwriteTasks(i, k) == [tasks EXCEPT ![k] = tasks[i], ![i] = [t \in Title |-> 0]]
LeaveTasks(i, k) == tasks

\* The task rows read from incident i are re-pointed to incident k; a row that a page
\* has inserted since is not among them.
MoveTasks(i, k) ==
    [tasks EXCEPT ![k] = [t \in Title |-> tasks[k][t] + moved[t]],
                  ![i] = [t \in Title |-> tasks[i][t] - moved[t]]]

\* Mutant: incidents are retired before the groups are written.
RetireFirst(i) ==
    /\ pc = "write"
    /\ i \in sweep \ {owner[g] : g \in DOMAIN owner}
    /\ status' = [status EXCEPT ![i] = "merged"]
    /\ members' = [members EXCEPT ![i] = {}]
    /\ sweep' = sweep \ {i}
    /\ UNCHANGED <<alerts, verdict, analyst, severity, tasks, pc, seen, book, owner, home, fresh, moved>>

\* Mutant: the retired incident keeps its links.
RetireLinked(i) ==
    /\ pc = "write"
    /\ Unwritten = {}
    /\ i \in Retiring
    /\ status' = [status EXCEPT ![i] = "merged"]
    /\ sweep' = sweep \ {i}
    /\ UNCHANGED <<alerts, verdict, analyst, severity, members, tasks, pc, seen, book, owner, home, fresh, moved>>

\* An incident whose alerts a group has taken: its task rows are read.
ReadTasks(i) ==
    /\ RetiresNext(i)
    /\ moved = None
    /\ \E g \in DOMAIN owner : Absorbs(g, i)
    /\ moved' = tasks[i]
    /\ UNCHANGED <<tables, pc, seen, book, owner, home, fresh, sweep>>

\* The rows that were read go to the incident of the first group that took its alerts,
\* if there is one, and it is marked merged, in one commit.
RetireIncident(i) ==
    /\ RetiresNext(i)
    /\ \/ \E g \in DOMAIN owner :
            FirstAbsorbing(g, i) /\ moved # None /\ tasks' = MoveTasks(i, owner[g])
       \/ ~(\E g \in DOMAIN owner : Absorbs(g, i)) /\ UNCHANGED tasks
    /\ status' = [status EXCEPT ![i] = "merged"]
    /\ members' = [members EXCEPT ![i] = {}]
    /\ sweep' = sweep \ {i}
    /\ moved' = None
    /\ UNCHANGED <<alerts, verdict, analyst, severity, pc, seen, book, owner, home, fresh>>

Forget ==
    /\ pc' = "idle"
    /\ seen' = NothingSeen
    /\ book' = EmptyBook
    /\ owner' = NoGroups
    /\ home' = NoGroups
    /\ fresh' = None
    /\ sweep' = {}
    /\ moved' = None

PassComplete == pc = "write" /\ Unwritten = {} /\ Retiring = {}

ReturnSurvivors == PassComplete /\ Forget /\ UNCHANGED tables

\* The process dies, or an exception ends the cycle (_poll_cycle logs it): what
\* was committed stays, the rest of the pass is lost.
AbortPass == pc # "idle" /\ Forget /\ UNCHANGED tables
====
