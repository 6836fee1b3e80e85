---- MODULE Approval ----
(***************************************************************************)
(* Approving a response task: the incident page with its forms, the        *)
(* approve_task handler, and the Wazuh active-response API behind it.      *)
(* Handlers run in threads, so a double click is two of them at once; the  *)
(* API call takes up to half a minute and its answer may never arrive.     *)
(* A form that another tab or the browser's history still holds can be     *)
(* posted at any time: the handler never looks at the task's status.       *)
(***************************************************************************)
EXTENDS Integers, FiniteSets

CONSTANTS
    Task,        \* the tasks of the incident whose page is open
    Action,      \* [Task -> {"none", "block-ip", "disable-user"}]
    Request,     \* the handlers that may run at once
    Gap,         \* response_rate_limit_seconds, in ticks
    MaxEffects,  \* bound: how often an action takes effect on the agent
    MaxStale,    \* bound: how often a form is posted that the current page does not show
    Answers,     \* what the API may do: subset of {"accept", "reject", "noauth", "lost"}
    Restarts     \* the dry-run settings the process may be restarted with

\* Each handler is a thread of one pool.
ASSUME RequestsFinite == IsFiniteSet(Request)

ASSUME ApprovalBounds ==
    /\ Action \in [Task -> {"none", "block-ip", "disable-user"}]
    /\ Gap \in Nat \ {0}
    /\ MaxEffects \in Nat
    /\ MaxStale \in Nat
    /\ Answers \subseteq {"accept", "reject", "noauth", "lost"}
    /\ Restarts \subseteq BOOLEAN

VARIABLES
    status,    \* [Task -> {"todo", "done", "failed"}]
    dryLog,    \* the tasks with a dry-run row in the audit table
    okRows,    \* [Task -> Nat], its live audit rows with ok = True
    latest,    \* [Task -> {"none", "ok", "rejected"}], what its latest audit row says
    sinceRow,  \* ticks since the latest live row, Gap if that long or never
    dryRun,    \* settings.response_dry_run of the running process
    request,   \* [Request -> record], where each handler stands
    page,      \* [Task -> {"none", "plain", "confirm"}], the form the last loaded page shows
    kept,      \* [Task -> SUBSET {"plain", "confirm"}], the forms any tab or history holds
    stale,     \* how often a form was posted that the last loaded page did not show
    effects,   \* [Task -> Nat], how often the agent carried the action out
    sincePut,  \* ticks since the latest effect, Gap if that long or never
    warned     \* the tasks for which the second confirmation was asked

tabs == <<page, kept>>
world == <<effects, sincePut>>
audit == <<dryLog, okRows, latest, sinceRow>>
vars == <<status, audit, dryRun, request, tabs, stale, world, warned>>

Idle == [at |-> "idle"]
NeedsConfirm(t) == Action[t] = "disable-user"

----
\* Mutant: a failed task has no form.
FormNoRetry(t, st, asked) ==
    IF st # "todo" THEN "none" ELSE IF asked THEN "confirm" ELSE "plain"

\* The form of a task on the page: Retry comes before the confirmation asked for.
Form(t, st, asked) ==
    IF st = "done" THEN "none"
    ELSE IF st = "failed" THEN "plain"
    ELSE IF asked THEN "confirm" ELSE "plain"

\* The browser follows the redirect to the page, which asks to confirm the asked.
\* The forms it has shown before remain in its history and in other tabs.
ShowPage(asked) ==
    /\ page' = [t \in Task |-> Form(t, status[t], t \in asked)]
    /\ kept' = [t \in Task |-> kept[t] \cup ({Form(t, status[t], t \in asked)} \ {"none"})]
\* The browser shows an error answer, which has no forms.
ShowError == page' = [t \in Task |-> "none"] /\ UNCHANGED kept

Enter(r, step) == request' = [request EXCEPT ![r] = step]
Leave(r) == Enter(r, Idle)

----
Init ==
    /\ status = [t \in Task |-> "todo"]
    /\ dryLog = {}
    /\ okRows = [t \in Task |-> 0]
    /\ latest = [t \in Task |-> "none"]
    /\ sinceRow = Gap
    /\ dryRun \in BOOLEAN
    /\ request = [r \in Request |-> Idle]
    /\ page = [t \in Task |-> "plain"]
    /\ kept = [t \in Task |-> {"plain"}]
    /\ stale = 0
    /\ effects = [t \in Task |-> 0]
    /\ sincePut = Gap
    /\ warned = {}

\* A form of task t is posted: the one on the current page, or one that is still open
\* elsewhere, whatever the task's status has become.
Submits(r, t, form) ==
    /\ request[r].at = "idle"
    /\ \/ form = page[t] /\ form # "none" /\ UNCHANGED stale
       \/ form # page[t] /\ form \in kept[t] /\ stale < MaxStale /\ stale' = stale + 1

\* A task without an action has only its status to write.
ApprovePlain(r, t, form) ==
    /\ Submits(r, t, form)
    /\ Action[t] = "none"
    /\ Enter(r, [at |-> "save", task |-> t, loaded |-> status[t], row |-> "none", ok |-> TRUE])
    /\ UNCHANGED <<status, audit, dryRun, tabs, world, warned>>

\* A destructive action without confirm=1 is sent back to the page to ask.
AskConfirm(r, t, form) ==
    /\ Submits(r, t, form)
    /\ NeedsConfirm(t) /\ form # "confirm"
    /\ warned' = warned \cup {t}
    /\ ShowPage({t})
    /\ UNCHANGED <<status, audit, dryRun, request, world>>

\* Mutant: only the button's text asks, the handler does not look at confirm.
ClearedUnasked(t, form) == Action[t] # "none"

\* The form that was posted is enough for the task's action.
Cleared(t, form) == Action[t] # "none" /\ (NeedsConfirm(t) => form = "confirm")

\* Dry-run: nothing is sent, the row says so.
ApproveDry(r, t, form) ==
    /\ Submits(r, t, form)
    /\ Cleared(t, form)
    /\ dryRun
    /\ Enter(r, [at |-> "save", task |-> t, loaded |-> status[t], row |-> "dry", ok |-> TRUE])
    /\ UNCHANGED <<status, audit, dryRun, tabs, world, warned>>

ApproveLive(r, t, form) ==
    /\ Submits(r, t, form)
    /\ Cleared(t, form)
    /\ ~dryRun
    /\ Enter(r, [at |-> "limit", task |-> t, loaded |-> status[t]])
    /\ UNCHANGED <<status, audit, dryRun, tabs, world, warned>>

\* _check_rate_limit raises: the answer is 429.
RateLimited(r) ==
    /\ request[r].at = "limit"
    /\ sinceRow < Gap
    /\ Leave(r)
    /\ ShowError
    /\ UNCHANGED <<status, audit, dryRun, stale, world, warned>>

\* Mutant: the limit lets an action through one tick early.
PassLimitEarly(r) ==
    /\ request[r].at = "limit"
    /\ sinceRow >= Gap - 1
    /\ Enter(r, [request[r] EXCEPT !.at = "put"])
    /\ UNCHANGED <<status, audit, dryRun, tabs, stale, world, warned>>

PassLimit(r) ==
    /\ request[r].at = "limit"
    /\ sinceRow >= Gap
    /\ Enter(r, [request[r] EXCEPT !.at = "put"])
    /\ UNCHANGED <<status, audit, dryRun, tabs, stale, world, warned>>

\* The agent carries the action out.
Effect(t) ==
    /\ effects[t] < MaxEffects
    /\ effects' = [effects EXCEPT ![t] = @ + 1]
    /\ sincePut' = 0

Answered(r, ok) ==
    Enter(r, [at |-> "save", task |-> request[r].task, loaded |-> request[r].loaded,
              row |-> "live", ok |-> ok])

\* Mutant: an answer of any kind counts as success.
PutRejectedAsOk(r) ==
    /\ request[r].at = "put" /\ "reject" \in Answers
    /\ Answered(r, TRUE)
    /\ UNCHANGED <<status, audit, dryRun, tabs, stale, world, warned>>

PutAccepted(r) ==
    /\ request[r].at = "put" /\ "accept" \in Answers
    /\ Effect(request[r].task)
    /\ Answered(r, TRUE)
    /\ UNCHANGED <<status, audit, dryRun, tabs, stale, warned>>

PutRejected(r) ==
    /\ request[r].at = "put" /\ "reject" \in Answers
    /\ Answered(r, FALSE)
    /\ UNCHANGED <<status, audit, dryRun, tabs, stale, world, warned>>

\* The login fails, or a timeout or a lost connection raises: no row is written,
\* whether or not the action took effect.
PutRaises(r) ==
    /\ request[r].at = "put"
    /\ \/ "noauth" \in Answers /\ UNCHANGED world
       \/ "lost" \in Answers /\ (Effect(request[r].task) \/ UNCHANGED world)
    /\ Leave(r)
    /\ ShowError
    /\ UNCHANGED <<status, audit, dryRun, stale, warned>>

\* Mutant: a live failure is committed as done.
SaveDone(r) ==
    /\ request[r].at = "save"
    /\ status' = [status EXCEPT ![request[r].task] = "done"]
    /\ Enter(r, [request[r] EXCEPT !.at = "reply"])
    /\ UNCHANGED <<audit, dryRun, tabs, stale, world, warned>>

\* Mutant: a retry of a failed task writes no row.
SaveUnlogged(r) ==
    LET q == request[r]
        st == IF q.ok THEN "done" ELSE "failed"
    IN  /\ q.at = "save"
        /\ status' = [status EXCEPT ![q.task] = st]
        /\ okRows' = IF q.row = "live" /\ q.ok /\ q.loaded = "todo" THEN [okRows EXCEPT ![q.task] = @ + 1]
                     ELSE okRows
        /\ Enter(r, [q EXCEPT !.at = "reply"])
        /\ UNCHANGED <<dryLog, latest, sinceRow, dryRun, tabs, stale, world, warned>>

\* Mutant: a task that is done is not opened again by a later failure.
SaveKeepsDone(r) ==
    LET q == request[r]
        t == q.task
        st == IF q.ok \/ q.loaded = "done" THEN "done" ELSE "failed"
    IN  /\ q.at = "save"
        /\ status' = IF st = q.loaded THEN status ELSE [status EXCEPT ![t] = st]
        /\ dryLog' = IF q.row = "dry" THEN dryLog \cup {t} ELSE dryLog
        /\ okRows' = IF q.row = "live" /\ q.ok THEN [okRows EXCEPT ![t] = @ + 1] ELSE okRows
        /\ latest' = IF q.row = "none" THEN latest
                     ELSE [latest EXCEPT ![t] = IF q.ok THEN "ok" ELSE "rejected"]
        /\ sinceRow' = IF q.row = "live" THEN 0 ELSE sinceRow
        /\ Enter(r, [q EXCEPT !.at = "reply"])
        /\ UNCHANGED <<dryRun, tabs, stale, world, warned>>

\* The commit of the row and the status; the session writes the status only if
\* it differs from the one it loaded.
Save(r) ==
    LET q == request[r]
        t == q.task
        st == IF q.ok THEN "done" ELSE "failed"
    IN  /\ q.at = "save"
        /\ status' = IF st = q.loaded THEN status ELSE [status EXCEPT ![t] = st]
        /\ dryLog' = IF q.row = "dry" THEN dryLog \cup {t} ELSE dryLog
        /\ okRows' = IF q.row = "live" /\ q.ok THEN [okRows EXCEPT ![t] = @ + 1] ELSE okRows
        /\ latest' = IF q.row = "none" THEN latest
                     ELSE [latest EXCEPT ![t] = IF q.ok THEN "ok" ELSE "rejected"]
        /\ sinceRow' = IF q.row = "live" THEN 0 ELSE sinceRow
        /\ Enter(r, [q EXCEPT !.at = "reply"])
        /\ UNCHANGED <<dryRun, tabs, stale, world, warned>>

\* The redirect back to the incident's page.
Reply(r) ==
    /\ request[r].at = "reply"
    /\ Leave(r)
    /\ ShowPage({})
    /\ UNCHANGED <<status, audit, dryRun, stale, world, warned>>

\* The analyst loads the page again.
Reload ==
    /\ ShowPage({})
    /\ UNCHANGED <<status, audit, dryRun, request, stale, world, warned>>

\* Time passes, also while requests are under way.
Tick ==
    /\ sinceRow < Gap \/ sincePut < Gap
    /\ sinceRow' = IF sinceRow < Gap THEN sinceRow + 1 ELSE Gap
    /\ sincePut' = IF sincePut < Gap THEN sincePut + 1 ELSE Gap
    /\ UNCHANGED <<status, dryLog, okRows, latest, dryRun, request, tabs, stale, effects, warned>>

\* The process dies and comes back, possibly with another setting.
Restart(dry) ==
    /\ dryRun' = dry
    /\ request' = [r \in Request |-> Idle]
    /\ UNCHANGED <<status, audit, tabs, stale, world, warned>>

Posts(r, t, form) ==
    \/ ApprovePlain(r, t, form) \/ AskConfirm(r, t, form)
    \/ ApproveDry(r, t, form) \/ ApproveLive(r, t, form)

Proceeds(r) == RateLimited(r) \/ PassLimit(r) \/ PutAccepted(r) \/ PutRejected(r) \/ PutRaises(r)
                \/ Save(r) \/ Reply(r)

Next ==
    \/ \E r \in Request, t \in Task, form \in {"plain", "confirm"} : Posts(r, t, form)
    \/ \E r \in Request : Proceeds(r)
    \/ Reload
    \/ Tick
    \/ \E dry \in Restarts : Restart(dry)

Spec == Init /\ [][Next]_vars

\* Requests, time and page loads take their course; the analyst presses the
\* button of the current page again as long as there is one, and the API does not
\* reject for ever.
Persistent ==
    /\ WF_vars(Tick)
    /\ WF_vars(Reload)
    /\ \A t \in Task, r \in Request : SF_vars(Posts(r, t, page[t]))
    /\ \A r \in Request : WF_vars(Proceeds(r)) /\ SF_vars(PutAccepted(r))

LiveSpec == Spec /\ Persistent

----
\* The type invariant.
TypeOK ==
    /\ status \in [Task -> {"todo", "done", "failed"}]
    /\ dryLog \subseteq Task
    /\ okRows \in [Task -> Nat]
    /\ latest \in [Task -> {"none", "ok", "rejected"}]
    /\ effects \in [Task -> 0..MaxEffects]
    /\ {sinceRow, sincePut} \subseteq 0..Gap
    /\ dryRun \in BOOLEAN
    /\ page \in [Task -> {"none", "plain", "confirm"}]
    /\ kept \in [Task -> SUBSET {"plain", "confirm"}]
    /\ stale \in 0..MaxStale
    /\ warned \subseteq Task
    /\ DOMAIN request = Request
    /\ \A r \in Request :
        /\ request[r].at \in {"idle", "limit", "put", "save", "reply"}
        /\ request[r].at # "idle" => request[r].task \in Task
                                     /\ request[r].loaded \in {"todo", "done", "failed"}
        /\ request[r].at = "save" => request[r].row \in {"none", "dry", "live"}
                                     /\ request[r].ok \in BOOLEAN

\* A task with an action reads done only if the audit table holds a row that
\* says why: a dry-run, or a dispatch the API accepted, however requests overlap.
DoneIsAudited ==
    \A t \in Task : status[t] = "done" /\ Action[t] # "none" => t \in dryLog \/ okRows[t] > 0

\* The audit table never claims more than happened: each live row marked ok
\* stands for one effect on the agent.
RowsAreTrue == \A t \in Task : okRows[t] <= effects[t]

\* A destructive action takes effect only on a task for which the analyst was
\* sent back to confirm, also when it is retried or its form is posted twice.
ConfirmedBeforeEffect == \A t \in Task : NeedsConfirm(t) /\ effects[t] > 0 => t \in warned

\* With one request at a time, a task with an action has the status its latest audit row
\* calls for, also after a form that was still open has dispatched a finished task again:
\* "A failed live dispatch leaves the task open so the analyst can see it and retry."
StatusOf == [none |-> "todo", ok |-> "done", rejected |-> "failed"]
StatusIsLatest == \A t \in Task : Action[t] # "none" => status[t] = StatusOf[latest[t]]

\* "A double-click or a loop can't fire a burst of real actions": two effects are at
\* least Gap apart.  It holds with one request at a time, each answered, although the
\* limit looks at rows and not at effects.
EffectsApart ==
    [][\A t \in Task : effects'[t] > effects[t] => sincePut = Gap]_vars

\* "Every Approve is logged": each effect has its row once the request is over, as long
\* as every dispatch is answered; with RowsAreTrue the rows count the effects.
EffectsAreAudited ==
    (\A r \in Request : request[r].at = "idle") => \A t \in Task : effects[t] <= okRows[t]

\* A task whose dispatch was rejected can be retried from its page until it succeeds,
\* also when a form that was still open has failed it after it was done.
FailedIsRetried == \A t \in Task : status[t] = "failed" ~> status[t] = "done"
====
