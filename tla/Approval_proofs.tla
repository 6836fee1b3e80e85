---- MODULE Approval_proofs ----
(***************************************************************************)
(* For any tasks, any number of requests and any behaviour of the API: a   *)
(* task that reads done has its audit row, a row of success stands for an  *)
(* effect, and a destructive effect was confirmed.                         *)
(***************************************************************************)
EXTENDS Approval, FiniteSetTheorems, TLAPS

Status == {"todo", "done", "failed"}

\* The shapes of a handler's record, by how far it has come.
Steps ==
    {Idle}
    \cup [at : {"limit", "put"}, task : Task, loaded : Status]
    \cup [at : {"save", "reply"}, task : Task, loaded : Status, row : {"none", "dry", "live"},
          ok : BOOLEAN]

Typed ==
    /\ status \in [Task -> Status]
    /\ dryLog \in SUBSET Task
    /\ okRows \in [Task -> Nat]
    /\ latest \in [Task -> {"none", "ok", "rejected"}]
    /\ effects \in [Task -> 0..MaxEffects]
    /\ sinceRow \in 0..Gap
    /\ sincePut \in 0..Gap
    /\ dryRun \in BOOLEAN
    /\ page \in [Task -> {"none", "plain", "confirm"}]
    /\ kept \in [Task -> SUBSET {"plain", "confirm"}]
    /\ stale \in 0..MaxStale
    /\ warned \in SUBSET Task
    /\ request \in [Request -> Steps]

LEMMA FormTyped ==
    ASSUME NEW t, NEW st, NEW asked
    PROVE  Form(t, st, asked) \in {"none", "plain", "confirm"}
BY DEF Form

LEMMA TypedStep == Typed /\ [Next]_vars => Typed'
<1> SUFFICES ASSUME Typed, [Next]_vars PROVE Typed'
  OBVIOUS
<1> USE DEF Typed
<1> DEFINE TabsTyped == /\ page \in [Task -> {"none", "plain", "confirm"}]
                       /\ kept \in [Task -> SUBSET {"plain", "confirm"}]
<1>1. ASSUME NEW asked, ShowPage(asked) PROVE TabsTyped'
  <2>1. \A t \in Task : Form(t, status[t], t \in asked) \in {"none", "plain", "confirm"}
    BY FormTyped
  <2> QED BY <1>1, <2>1 DEF ShowPage
<1>2. ASSUME ShowError PROVE TabsTyped'
  BY <1>2 DEF ShowError
<1>22. ASSUME NEW r, NEW t, NEW form, Submits(r, t, form) PROVE stale' \in 0..MaxStale
  BY <1>22, ApprovalBounds DEF Submits
<1>3. ASSUME NEW r \in Request, NEW step \in Steps, Enter(r, step)
      PROVE  request' \in [Request -> Steps]
  BY <1>3 DEF Enter
<1>4. Idle \in Steps
  BY DEF Steps
<1>5. ASSUME NEW r \in Request, NEW t \in Task, NEW form, ApprovePlain(r, t, form)
      PROVE  Typed'
  <2>1. [at |-> "save", task |-> t, loaded |-> status[t], row |-> "none", ok |-> TRUE] \in Steps
    BY DEF Steps
  <2> QED BY <1>3, <1>5, <1>22, <2>1 DEF ApprovePlain, audit, tabs, world
<1>6. ASSUME NEW r \in Request, NEW t \in Task, NEW form, AskConfirm(r, t, form)
      PROVE  Typed'
  BY <1>1, <1>6, <1>22 DEF AskConfirm, audit, world
<1>7. ASSUME NEW r \in Request, NEW t \in Task, NEW form, ApproveDry(r, t, form)
      PROVE  Typed'
  <2>1. [at |-> "save", task |-> t, loaded |-> status[t], row |-> "dry", ok |-> TRUE] \in Steps
    BY DEF Steps
  <2> QED BY <1>3, <1>7, <1>22, <2>1 DEF ApproveDry, audit, tabs, world
<1>8. ASSUME NEW r \in Request, NEW t \in Task, NEW form, ApproveLive(r, t, form)
      PROVE  Typed'
  <2>1. [at |-> "limit", task |-> t, loaded |-> status[t]] \in Steps
    BY DEF Steps
  <2> QED BY <1>3, <1>8, <1>22, <2>1 DEF ApproveLive, audit, tabs, world
<1>9. ASSUME NEW r \in Request, RateLimited(r) PROVE Typed'
  BY <1>2, <1>3, <1>4, <1>9 DEF RateLimited, Leave, audit, world
<1>10. ASSUME NEW r \in Request, PassLimit(r) PROVE Typed'
  <2>1. [request[r] EXCEPT !.at = "put"] \in Steps
    BY <1>10 DEF PassLimit, Steps, Idle
  <2> QED BY <1>3, <1>10, <2>1 DEF PassLimit, audit, world, tabs
<1>11. ASSUME NEW r \in Request, request[r].at = "put", NEW ok \in BOOLEAN, Answered(r, ok)
       PROVE  request' \in [Request -> Steps]
  <2>1. request[r].task \in Task /\ request[r].loaded \in Status
    BY <1>11 DEF Steps, Idle
  <2>2. [at |-> "save", task |-> request[r].task, loaded |-> request[r].loaded,
         row |-> "live", ok |-> ok] \in Steps
    BY <2>1 DEF Steps
  <2> QED BY <1>3, <1>11, <2>2 DEF Answered
<1>12. ASSUME NEW t \in Task, Effect(t)
       PROVE  effects' \in [Task -> 0..MaxEffects] /\ sincePut' \in 0..Gap
  <2>1. effects[t] + 1 \in 0..MaxEffects
    BY <1>12, ApprovalBounds DEF Effect
  <2>2. 0 \in 0..Gap
    BY ApprovalBounds
  <2> QED BY <1>12, <2>1, <2>2 DEF Effect
<1>13. ASSUME NEW r \in Request, PutAccepted(r) PROVE Typed'
  <2>1. request[r].task \in Task
    BY <1>13 DEF PutAccepted, Steps, Idle
  <2> QED BY <1>11, <1>12, <1>13, <2>1 DEF PutAccepted, audit, tabs
<1>14. ASSUME NEW r \in Request, PutRejected(r) PROVE Typed'
  BY <1>11, <1>14 DEF PutRejected, audit, world, tabs
<1>15. ASSUME NEW r \in Request, PutRaises(r) PROVE Typed'
  <2>1. request[r].task \in Task
    BY <1>15 DEF PutRaises, Steps, Idle
  <2>2. effects' \in [Task -> 0..MaxEffects] /\ sincePut' \in 0..Gap
    BY <1>12, <1>15, <2>1 DEF PutRaises, world
  <2> QED BY <1>2, <1>3, <1>4, <1>15, <2>2 DEF PutRaises, Leave, audit
<1>16. ASSUME NEW r \in Request, Save(r) PROVE Typed'
  <2>1. request[r] \in [at : {"save", "reply"}, task : Task, loaded : Status,
                        row : {"none", "dry", "live"}, ok : BOOLEAN]
    BY <1>16 DEF Save, Steps, Idle
  <2>2. [request[r] EXCEPT !.at = "reply"] \in Steps
    BY <2>1 DEF Steps
  <2>3. request' \in [Request -> Steps]
    BY <1>3, <1>16, <2>2 DEF Save
  <2>4. /\ status' \in [Task -> Status] /\ dryLog' \in SUBSET Task /\ okRows' \in [Task -> Nat]
        /\ latest' \in [Task -> {"none", "ok", "rejected"}]
    BY <1>16, <2>1 DEF Save, Status
  <2>5. sinceRow' \in 0..Gap
    BY <1>16, ApprovalBounds DEF Save
  <2> QED BY <1>16, <2>3, <2>4, <2>5 DEF Save, world, tabs
<1>17. ASSUME NEW r \in Request, Reply(r) PROVE Typed'
  BY <1>1, <1>3, <1>4, <1>17 DEF Reply, Leave, audit, world
<1>18. CASE Reload
  BY <1>1, <1>18 DEF Reload, audit, world
<1>19. CASE Tick
  <2>1. sinceRow' \in 0..Gap /\ sincePut' \in 0..Gap
    BY <1>19, ApprovalBounds DEF Tick
  <2> QED BY <1>19, <2>1 DEF Tick, tabs
<1>20. ASSUME NEW dry \in Restarts, Restart(dry) PROVE Typed'
  BY <1>4, <1>20, ApprovalBounds DEF Restart, audit, tabs, world
<1>21. CASE UNCHANGED vars
  BY <1>21 DEF vars, audit, tabs, world
<1> QED
  BY <1>5, <1>6, <1>7, <1>8, <1>9, <1>10, <1>13, <1>14, <1>15, <1>16, <1>17, <1>18, <1>19, <1>20,
     <1>21
  DEF Next, Posts, Proceeds

LEMMA TypedInvariant == Spec => []Typed
<1>1. Init => Typed
  BY ApprovalBounds DEF Init, Typed, Steps, Status
<1> QED BY <1>1, TypedStep, PTL DEF Spec

\* Every variable keeps its type, with requests at each step of approve_task.
THEOREM ApprovalTypeCorrect == Spec => []TypeOK
<1>1. Typed => TypeOK
  BY DEF Typed, TypeOK, Steps, Status, Idle
<1> QED BY <1>1, TypedInvariant, PTL

----
\* A request about to commit without an audit row is one of a task without an action.
AuditInv ==
    /\ DoneIsAudited
    /\ \A r \in Request :
        request[r].at = "save" /\ request[r].row = "none" => Action[request[r].task] = "none"

LEMMA AuditStep == Typed /\ AuditInv /\ [Next]_vars => AuditInv'
<1> SUFFICES ASSUME Typed, AuditInv, [Next]_vars PROVE AuditInv'
  OBVIOUS
<1> USE DEF AuditInv
<1>1. ASSUME status' = status, dryLog' = dryLog, okRows' = okRows PROVE DoneIsAudited'
  BY <1>1 DEF DoneIsAudited
<1>2. ASSUME NEW r \in Request, NEW step, Enter(r, step),
             step.at = "save" /\ step.row = "none" => Action[step.task] = "none"
      PROVE  \A q \in Request : request'[q].at = "save" /\ request'[q].row = "none"
                                  => Action[request'[q].task] = "none"
  BY <1>2 DEF Enter, Typed
<1>3. ASSUME NEW r \in Request, NEW t \in Task, NEW form, Posts(r, t, form) PROVE AuditInv'
  <2>1. CASE ApprovePlain(r, t, form)
    BY <1>1, <1>2, <2>1 DEF ApprovePlain, audit
  <2>2. CASE AskConfirm(r, t, form)
    BY <1>1, <2>2 DEF AskConfirm, audit
  <2>3. CASE ApproveDry(r, t, form)
    BY <1>1, <1>2, <2>3 DEF ApproveDry, audit
  <2>4. CASE ApproveLive(r, t, form)
    BY <1>1, <1>2, <2>4 DEF ApproveLive, audit
  <2> QED BY <1>3, <2>1, <2>2, <2>3, <2>4 DEF Posts
<1>4. ASSUME NEW r \in Request, Leave(r), UNCHANGED <<status, audit>> PROVE AuditInv'
  BY <1>1, <1>2, <1>4 DEF Leave, Idle, audit
<1>5. ASSUME NEW r \in Request, PassLimit(r) PROVE AuditInv'
  <2>1. [request[r] EXCEPT !.at = "put"].at # "save"
    BY <1>5 DEF PassLimit, Typed, Steps, Idle
  <2> QED BY <1>1, <1>2, <1>5, <2>1 DEF PassLimit, audit
<1>6. ASSUME NEW r \in Request, PutAccepted(r) \/ PutRejected(r) PROVE AuditInv'
  <2>1. UNCHANGED <<status, audit>> /\ \E ok \in BOOLEAN : Answered(r, ok)
    BY <1>6 DEF PutAccepted, PutRejected
  <2>2. PICK ok \in BOOLEAN : Answered(r, ok)
    BY <2>1
  <2> QED BY <1>1, <1>2, <2>1, <2>2 DEF Answered, audit
<1>7. ASSUME NEW r \in Request, Save(r) PROVE AuditInv'
  <2>1. request[r] \in [at : {"save", "reply"}, task : Task, loaded : Status,
                        row : {"none", "dry", "live"}, ok : BOOLEAN]
    BY <1>7 DEF Save, Typed, Steps, Idle
  <2>2. [request[r] EXCEPT !.at = "reply"].at # "save"
    BY <2>1
  <2>3. ASSUME NEW t \in Task, status'[t] = "done", Action[t] # "none"
        PROVE  t \in dryLog' \/ okRows'[t] > 0
    <3>1. dryLog \subseteq dryLog'
      BY <1>7 DEF Save
    <3>2. okRows[t] > 0 => okRows'[t] > 0
      BY <1>7, <2>1 DEF Save, Typed
    <3>3. CASE status[t] = "done"
      BY <2>3, <3>1, <3>2, <3>3 DEF DoneIsAudited
    <3>4. CASE status[t] # "done"
      <4>1. t = request[r].task /\ request[r].ok /\ request[r].row # "none"
        BY <1>7, <2>1, <2>3, <3>4 DEF Save, Typed
      <4>2. CASE request[r].row = "dry"
        BY <1>7, <4>1, <4>2 DEF Save
      <4>3. CASE request[r].row = "live"
        BY <1>7, <4>1, <4>3 DEF Save, Typed
      <4> QED BY <2>1, <4>1, <4>2, <4>3
    <3> QED BY <3>3, <3>4
  <2> QED BY <1>2, <1>7, <2>2, <2>3 DEF Save, DoneIsAudited
<1>8. ASSUME NEW r \in Request, Proceeds(r) PROVE AuditInv'
  <2>1. RateLimited(r) \/ PutRaises(r) \/ Reply(r) => Leave(r) /\ UNCHANGED <<status, audit>>
    BY DEF RateLimited, PutRaises, Reply
  <2> QED BY <1>4, <1>5, <1>6, <1>7, <1>8, <2>1 DEF Proceeds
<1>9. CASE Reload
  BY <1>1, <1>9 DEF Reload, audit
<1>10. CASE Tick
  BY <1>1, <1>10 DEF Tick
<1>11. ASSUME NEW dry \in Restarts, Restart(dry) PROVE AuditInv'
  BY <1>1, <1>11 DEF Restart, Idle, audit
<1>12. CASE UNCHANGED vars
  BY <1>1, <1>12 DEF vars, audit, world
<1> QED BY <1>3, <1>8, <1>9, <1>10, <1>11, <1>12 DEF Next

\* A task with an action reads done only with an audit row that says why, whatever
\* requests approve_task runs at once, restarts included.
THEOREM DoneTasksAreAudited == Spec => []DoneIsAudited
<1>1. Init => AuditInv
  BY DEF Init, AuditInv, DoneIsAudited, Idle
<1>2. AuditInv => DoneIsAudited
  BY DEF AuditInv
<1> QED BY <1>1, <1>2, AuditStep, TypedInvariant, PTL DEF Spec

----
\* Only a warned task offers the confirming form, and only a confirmed one is dispatched.
ConfirmInv ==
    /\ ConfirmedBeforeEffect
    /\ \A t \in Task : page[t] = "confirm" \/ "confirm" \in kept[t] => t \in warned
    /\ \A r \in Request :
        request[r].at \in {"limit", "put"} /\ NeedsConfirm(request[r].task)
          => request[r].task \in warned

LEMMA ConfirmStep == Typed /\ ConfirmInv /\ [Next]_vars => ConfirmInv'
<1> SUFFICES ASSUME Typed, ConfirmInv, [Next]_vars PROVE ConfirmInv'
  OBVIOUS
<1> USE DEF ConfirmInv
<1>1. ASSUME NEW asked, ShowPage(asked), asked \subseteq warned', warned \subseteq warned'
      PROVE  \A t \in Task : page'[t] = "confirm" \/ "confirm" \in kept'[t] => t \in warned'
  BY <1>1 DEF ShowPage, Form
<1>2. ASSUME ShowError, UNCHANGED warned
      PROVE  \A t \in Task : page'[t] = "confirm" \/ "confirm" \in kept'[t] => t \in warned'
  BY <1>2 DEF ShowError
<1>3. ASSUME NEW r \in Request, NEW step, Enter(r, step), warned \subseteq warned',
             step.at \in {"limit", "put"} /\ NeedsConfirm(step.task) => step.task \in warned
      PROVE  \A q \in Request : request'[q].at \in {"limit", "put"} /\ NeedsConfirm(request'[q].task)
                                  => request'[q].task \in warned'
  BY <1>3 DEF Enter, Typed
<1>4. ASSUME UNCHANGED effects, warned \subseteq warned' PROVE ConfirmedBeforeEffect'
  BY <1>4 DEF ConfirmedBeforeEffect, NeedsConfirm
<1>5. ASSUME NEW r \in Request, NEW t \in Task, NEW form, Posts(r, t, form) PROVE ConfirmInv'
  <2>1. CASE ApprovePlain(r, t, form)
    BY <1>3, <1>4, <2>1 DEF ApprovePlain, tabs, world
  <2>2. CASE AskConfirm(r, t, form)
    <3>1. {t} \subseteq warned' /\ warned \subseteq warned' /\ request' = request
      BY <2>2 DEF AskConfirm
    <3> QED BY <1>1, <1>4, <2>2, <3>1 DEF AskConfirm, world, NeedsConfirm
  <2>3. CASE ApproveDry(r, t, form)
    BY <1>3, <1>4, <2>3 DEF ApproveDry, tabs, world
  <2>4. CASE ApproveLive(r, t, form)
    BY <1>3, <1>4, <2>4 DEF ApproveLive, Submits, Cleared, NeedsConfirm, tabs, world
  <2> QED BY <1>5, <2>1, <2>2, <2>3, <2>4 DEF Posts
<1>6. ASSUME NEW r \in Request, Leave(r), UNCHANGED warned
      PROVE  \A q \in Request : request'[q].at \in {"limit", "put"} /\ NeedsConfirm(request'[q].task)
                                  => request'[q].task \in warned'
  BY <1>3, <1>6 DEF Leave, Idle
<1>7. ASSUME NEW r \in Request, request[r].at = "put", Effect(request[r].task), UNCHANGED warned
      PROVE  ConfirmedBeforeEffect'
  BY <1>7 DEF ConfirmedBeforeEffect, Effect, NeedsConfirm, Typed
<1>8. ASSUME NEW r \in Request, RateLimited(r) PROVE ConfirmInv'
  BY <1>2, <1>4, <1>6, <1>8 DEF RateLimited, world
<1>9. ASSUME NEW r \in Request, PassLimit(r) PROVE ConfirmInv'
  <2>1. [request[r] EXCEPT !.at = "put"].task = request[r].task
    BY <1>9 DEF PassLimit, Typed, Steps, Idle
  <2> QED BY <1>3, <1>4, <1>9, <2>1 DEF PassLimit, tabs, world
<1>10. ASSUME NEW r \in Request, PutAccepted(r) \/ PutRejected(r) PROVE ConfirmInv'
  <2>1. UNCHANGED <<tabs, warned>> /\ \E ok \in BOOLEAN : Answered(r, ok)
    BY <1>10 DEF PutAccepted, PutRejected
  <2>2. ConfirmedBeforeEffect'
    BY <1>4, <1>7, <1>10 DEF PutAccepted, PutRejected, world
  <2>3. PICK ok \in BOOLEAN : Answered(r, ok)
    BY <2>1
  <2> QED BY <1>3, <2>1, <2>2, <2>3 DEF Answered, tabs
<1>11. ASSUME NEW r \in Request, PutRaises(r) PROVE ConfirmInv'
  BY <1>2, <1>4, <1>6, <1>7, <1>11 DEF PutRaises, world
<1>12. ASSUME NEW r \in Request, Save(r) PROVE ConfirmInv'
  <2>1. [request[r] EXCEPT !.at = "reply"].at = "reply"
    BY <1>12 DEF Save, Typed, Steps, Idle
  <2> QED BY <1>3, <1>4, <1>12, <2>1 DEF Save, tabs, world
<1>13. ASSUME NEW r \in Request, Reply(r) PROVE ConfirmInv'
  BY <1>1, <1>4, <1>6, <1>13 DEF Reply, world
<1>14. CASE Reload
  BY <1>1, <1>4, <1>14 DEF Reload, world, NeedsConfirm
<1>15. CASE Tick
  BY <1>4, <1>15 DEF Tick, tabs, NeedsConfirm
<1>16. ASSUME NEW dry \in Restarts, Restart(dry) PROVE ConfirmInv'
  BY <1>4, <1>16 DEF Restart, Idle, tabs, world
<1>17. CASE UNCHANGED vars
  BY <1>4, <1>17 DEF vars, audit, tabs, world, NeedsConfirm
<1> QED
  BY <1>5, <1>8, <1>9, <1>10, <1>11, <1>12, <1>13, <1>14, <1>15, <1>16, <1>17 DEF Next, Proceeds

\* A destructive action takes effect only after the page asked to confirm it, however
\* often its form is posted, retried or left open over a restart.
THEOREM EffectsAreConfirmed == Spec => []ConfirmedBeforeEffect
<1>1. Init => ConfirmInv
  BY DEF Init, ConfirmInv, ConfirmedBeforeEffect, Idle
<1>2. ConfirmInv => ConfirmedBeforeEffect
  BY DEF ConfirmInv
<1> QED BY <1>1, <1>2, ConfirmStep, TypedInvariant, PTL DEF Spec

----
\* The requests whose accepted dispatch of task t has no row yet.
Unwritten(t) ==
    {r \in Request : /\ request[r].at = "save" /\ request[r].task = t
                     /\ request[r].row = "live" /\ request[r].ok}

\* Each effect pays for at most one row, written or still to be written.
RowsInv == \A t \in Task : okRows[t] + Cardinality(Unwritten(t)) <= effects[t]

LEMMA UnwrittenFinite == \A t : IsFiniteSet(Unwritten(t)) /\ Cardinality(Unwritten(t)) \in Nat
BY RequestsFinite, FS_Subset, FS_CardinalityType DEF Unwritten

\* A step that writes no row and adds no accepted dispatch.
LEMMA RowsKept ==
    ASSUME Typed, Typed', RowsInv, okRows' = okRows,
           \A t \in Task : effects'[t] >= effects[t] /\ Unwritten(t)' \subseteq Unwritten(t)
    PROVE  RowsInv'
<1> SUFFICES ASSUME NEW t \in Task
             PROVE  okRows'[t] + Cardinality(Unwritten(t)') <= effects'[t]
  BY DEF RowsInv
<1>1. Cardinality(Unwritten(t)') \in Nat /\ Cardinality(Unwritten(t)') <= Cardinality(Unwritten(t))
  BY UnwrittenFinite, FS_Subset, FS_CardinalityType
<1>2. okRows[t] + Cardinality(Unwritten(t)) <= effects[t]
  BY DEF RowsInv
<1> QED BY <1>1, <1>2, UnwrittenFinite DEF Typed

\* A handler that moves on without an accepted dispatch adds none.
LEMMA UnwrittenShrinks ==
    ASSUME Typed, NEW r \in Request, NEW step, Enter(r, step),
           ~(step.at = "save" /\ step.row = "live" /\ step.ok), NEW t
    PROVE  Unwritten(t)' \subseteq Unwritten(t)
BY DEF Typed, Enter, Unwritten

LEMMA RowsStep == Typed /\ Typed' /\ RowsInv /\ [Next]_vars => RowsInv'
<1> SUFFICES ASSUME Typed, Typed', RowsInv, [Next]_vars PROVE RowsInv'
  OBVIOUS
<1>1. ASSUME UNCHANGED <<okRows, effects>>, \A t \in Task : Unwritten(t)' \subseteq Unwritten(t)
      PROVE  RowsInv'
  <2>1. \A t \in Task : effects'[t] >= effects[t]
    BY <1>1 DEF Typed
  <2> QED BY <1>1, <2>1, RowsKept
<1>2. ASSUME UNCHANGED <<okRows, effects, request>> PROVE RowsInv'
  BY <1>1, <1>2 DEF Unwritten
<1>3. ASSUME NEW r \in Request, NEW t \in Task, NEW form, Posts(r, t, form) PROVE RowsInv'
  <2>1. CASE ApprovePlain(r, t, form)
    BY <1>1, <2>1, UnwrittenShrinks DEF ApprovePlain, audit, world
  <2>2. CASE AskConfirm(r, t, form)
    BY <1>2, <2>2 DEF AskConfirm, audit, world
  <2>3. CASE ApproveDry(r, t, form)
    BY <1>1, <2>3, UnwrittenShrinks DEF ApproveDry, audit, world
  <2>4. CASE ApproveLive(r, t, form)
    BY <1>1, <2>4, UnwrittenShrinks DEF ApproveLive, audit, world
  <2> QED BY <1>3, <2>1, <2>2, <2>3, <2>4 DEF Posts
<1>4. ASSUME NEW r \in Request, Leave(r), NEW t PROVE Unwritten(t)' \subseteq Unwritten(t)
  BY <1>4, UnwrittenShrinks DEF Leave, Idle
<1>5. ASSUME NEW r \in Request, PassLimit(r) PROVE RowsInv'
  <2>1. [request[r] EXCEPT !.at = "put"].at # "save"
    BY <1>5 DEF PassLimit, Typed, Steps, Idle
  <2> QED BY <1>1, <1>5, <2>1, UnwrittenShrinks DEF PassLimit, audit, world
<1>6. ASSUME NEW r \in Request, PutAccepted(r) PROVE RowsInv'
  <2> SUFFICES ASSUME NEW t \in Task
               PROVE  okRows'[t] + Cardinality(Unwritten(t)') <= effects'[t]
    BY DEF RowsInv
  <2>1. request[r].task \in Task /\ request[r].at = "put"
    BY <1>6 DEF PutAccepted, Typed, Steps, Idle
  <2>2. okRows' = okRows /\ okRows[t] + Cardinality(Unwritten(t)) <= effects[t]
    BY <1>6 DEF PutAccepted, audit, RowsInv
  <2>3. CASE t = request[r].task
    <3>1. r \notin Unwritten(t) /\ Unwritten(t)' = Unwritten(t) \cup {r}
      BY <1>6, <2>1, <2>3 DEF PutAccepted, Answered, Enter, Unwritten, Typed
    <3>2. Cardinality(Unwritten(t)') = Cardinality(Unwritten(t)) + 1
      BY <3>1, UnwrittenFinite, FS_AddElement
    <3>3. effects'[t] = effects[t] + 1
      BY <1>6, <2>3 DEF PutAccepted, Effect, Typed
    <3> QED BY <2>2, <3>2, <3>3, UnwrittenFinite DEF Typed
  <2>4. CASE t # request[r].task
    <3>1. Unwritten(t)' = Unwritten(t)
      BY <1>6, <2>1, <2>4 DEF PutAccepted, Answered, Enter, Unwritten, Typed
    <3>2. effects'[t] = effects[t]
      BY <1>6, <2>4 DEF PutAccepted, Effect, Typed
    <3> QED BY <2>2, <3>1, <3>2
  <2> QED BY <2>3, <2>4
<1>7. ASSUME NEW r \in Request, PutRejected(r) PROVE RowsInv'
  BY <1>1, <1>7, UnwrittenShrinks DEF PutRejected, Answered, audit, world
<1>8. ASSUME NEW r \in Request, PutRaises(r) PROVE RowsInv'
  <2>1. effects' \in [Task -> 0..MaxEffects] /\ effects \in [Task -> 0..MaxEffects]
    BY DEF Typed
  <2>2. UNCHANGED world \/ Effect(request[r].task)
    BY <1>8 DEF PutRaises
  <2>3. ASSUME NEW t \in Task PROVE effects'[t] >= effects[t]
    BY <2>1, <2>2 DEF Effect, world
  <2> QED BY <1>4, <1>8, <2>3, RowsKept DEF PutRaises, audit
<1>9. ASSUME NEW r \in Request, Save(r) PROVE RowsInv'
  <2>1. request[r] \in [at : {"save", "reply"}, task : Task, loaded : Status,
                        row : {"none", "dry", "live"}, ok : BOOLEAN]
    BY <1>9 DEF Save, Typed, Steps, Idle
  <2>2. [request[r] EXCEPT !.at = "reply"].at # "save"
    BY <2>1
  <2>3. effects' = effects /\ \A t : Unwritten(t)' \subseteq Unwritten(t)
    BY <1>9, <2>2, UnwrittenShrinks DEF Save, world
  <2>4. CASE ~(request[r].row = "live" /\ request[r].ok)
    BY <1>1, <1>9, <2>3, <2>4 DEF Save
  <2>5. CASE request[r].row = "live" /\ request[r].ok
    <3> SUFFICES ASSUME NEW t \in Task
                 PROVE  okRows'[t] + Cardinality(Unwritten(t)') <= effects'[t]
      BY DEF RowsInv
    <3>1. okRows[t] + Cardinality(Unwritten(t)) <= effects[t]
      BY DEF RowsInv
    <3>2. Cardinality(Unwritten(t)') \in Nat
           /\ Cardinality(Unwritten(t)') <= Cardinality(Unwritten(t))
      BY <2>3, UnwrittenFinite, FS_Subset, FS_CardinalityType
    <3>3. CASE t = request[r].task
      <4>1. r \in Unwritten(t) /\ r \notin Unwritten(t)'
        BY <1>9, <2>1, <2>5, <3>3 DEF Save, Enter, Unwritten, Typed
      <4>2. Unwritten(t)' \subseteq Unwritten(t) \ {r}
        BY <2>3, <4>1
      <4>3. IsFiniteSet(Unwritten(t) \ {r})
             /\ Cardinality(Unwritten(t) \ {r}) = Cardinality(Unwritten(t)) - 1
        BY <4>1, UnwrittenFinite, FS_RemoveElement
      <4>4. Cardinality(Unwritten(t)') <= Cardinality(Unwritten(t)) - 1
        BY <4>2, <4>3, FS_Subset
      <4>5. okRows'[t] = okRows[t] + 1
        BY <1>9, <2>1, <2>5, <3>3 DEF Save, Typed
      <4> QED BY <2>3, <3>1, <3>2, <4>4, <4>5, UnwrittenFinite DEF Typed
    <3>4. CASE t # request[r].task
      <4>1. okRows'[t] = okRows[t]
        BY <1>9, <2>5, <3>4 DEF Save, Typed
      <4> QED BY <2>3, <3>1, <3>2, <4>1, UnwrittenFinite DEF Typed
    <3> QED BY <3>3, <3>4
  <2> QED BY <2>4, <2>5
<1>10. ASSUME NEW r \in Request, RateLimited(r) \/ Reply(r) PROVE RowsInv'
  BY <1>1, <1>4, <1>10 DEF RateLimited, Reply, audit, world
<1>11. CASE Reload
  BY <1>2, <1>11 DEF Reload, audit, world
<1>12. CASE Tick
  BY <1>2, <1>12 DEF Tick
<1>13. ASSUME NEW dry \in Restarts, Restart(dry) PROVE RowsInv'
  BY <1>1, <1>13 DEF Restart, Unwritten, Idle, audit, world
<1>14. CASE UNCHANGED vars
  BY <1>2, <1>14 DEF vars, audit, world
<1> QED
  BY <1>3, <1>5, <1>6, <1>7, <1>8, <1>9, <1>10, <1>11, <1>12, <1>13, <1>14 DEF Next, Proceeds

\* The audit table never shows more accepted dispatches of a task than there were
\* effects on the agent, for any number of overlapping requests.
THEOREM SuccessRowsAreTrue == Spec => []RowsAreTrue
<1>1. Init => RowsInv
  <2> SUFFICES ASSUME Init, NEW t \in Task PROVE okRows[t] + Cardinality(Unwritten(t)) <= effects[t]
    BY DEF RowsInv
  <2>1. Unwritten(t) = {}
    BY DEF Init, Unwritten, Idle
  <2> QED BY <2>1, FS_EmptySet DEF Init
<1>2. Typed /\ RowsInv => RowsAreTrue
  BY UnwrittenFinite DEF RowsInv, RowsAreTrue, Typed
<1> QED BY <1>1, <1>2, RowsStep, TypedInvariant, PTL DEF Spec

----
\* With every dispatch answered and no restart, the rows, written and still to be
\* written, are as many as the effects.
BalanceInv == \A t \in Task : okRows[t] + Cardinality(Unwritten(t)) = effects[t]

\* A handler that moves on, from before its commit, without an accepted dispatch.
LEMMA UnwrittenStays ==
    ASSUME Typed, NEW r \in Request, request[r].at # "save", NEW step, Enter(r, step),
           ~(step.at = "save" /\ step.row = "live" /\ step.ok), NEW t
    PROVE  Unwritten(t)' = Unwritten(t)
BY DEF Typed, Enter, Unwritten

LEMMA BalanceStep ==
    ASSUME "lost" \notin Answers, Restarts = {}
    PROVE  Typed /\ Typed' /\ BalanceInv /\ [Next]_vars => BalanceInv'
<1> SUFFICES ASSUME Typed, Typed', BalanceInv, [Next]_vars PROVE BalanceInv'
  OBVIOUS
<1>1. ASSUME UNCHANGED <<okRows, effects>>, \A t \in Task : Unwritten(t)' = Unwritten(t)
      PROVE  BalanceInv'
  BY <1>1 DEF BalanceInv
<1>2. ASSUME UNCHANGED <<okRows, effects, request>> PROVE BalanceInv'
  BY <1>1, <1>2 DEF Unwritten
<1>3. ASSUME NEW r \in Request, NEW t \in Task, NEW form, Posts(r, t, form) PROVE BalanceInv'
  <2>1. CASE ApprovePlain(r, t, form)
    BY <1>1, <2>1, UnwrittenStays DEF ApprovePlain, Submits, audit, world
  <2>2. CASE AskConfirm(r, t, form)
    BY <1>2, <2>2 DEF AskConfirm, audit, world
  <2>3. CASE ApproveDry(r, t, form)
    BY <1>1, <2>3, UnwrittenStays DEF ApproveDry, Submits, audit, world
  <2>4. CASE ApproveLive(r, t, form)
    BY <1>1, <2>4, UnwrittenStays DEF ApproveLive, Submits, audit, world
  <2> QED BY <1>3, <2>1, <2>2, <2>3, <2>4 DEF Posts
<1>4. ASSUME NEW r \in Request, request[r].at # "save", Leave(r), UNCHANGED <<audit, world>>
      PROVE  BalanceInv'
  BY <1>1, <1>4, UnwrittenStays DEF Leave, Idle, audit, world
<1>5. ASSUME NEW r \in Request, PassLimit(r) PROVE BalanceInv'
  <2>1. [request[r] EXCEPT !.at = "put"].at # "save"
    BY <1>5 DEF PassLimit, Typed, Steps, Idle
  <2> QED BY <1>1, <1>5, <2>1, UnwrittenStays DEF PassLimit, audit, world
<1>6. ASSUME NEW r \in Request, PutAccepted(r) PROVE BalanceInv'
  <2> SUFFICES ASSUME NEW t \in Task
               PROVE  okRows'[t] + Cardinality(Unwritten(t)') = effects'[t]
    BY DEF BalanceInv
  <2>1. request[r].task \in Task /\ request[r].at = "put"
    BY <1>6 DEF PutAccepted, Typed, Steps, Idle
  <2>2. okRows' = okRows /\ okRows[t] + Cardinality(Unwritten(t)) = effects[t]
    BY <1>6 DEF PutAccepted, audit, BalanceInv
  <2>3. CASE t = request[r].task
    <3>1. r \notin Unwritten(t) /\ Unwritten(t)' = Unwritten(t) \cup {r}
      BY <1>6, <2>1, <2>3 DEF PutAccepted, Answered, Enter, Unwritten, Typed
    <3>2. Cardinality(Unwritten(t)') = Cardinality(Unwritten(t)) + 1
      BY <3>1, UnwrittenFinite, FS_AddElement
    <3>3. effects'[t] = effects[t] + 1
      BY <1>6, <2>3 DEF PutAccepted, Effect, Typed
    <3> QED BY <2>2, <3>2, <3>3, UnwrittenFinite DEF Typed
  <2>4. CASE t # request[r].task
    <3>1. Unwritten(t)' = Unwritten(t)
      BY <1>6, <2>1, <2>4 DEF PutAccepted, Answered, Enter, Unwritten, Typed
    <3>2. effects'[t] = effects[t]
      BY <1>6, <2>4 DEF PutAccepted, Effect, Typed
    <3> QED BY <2>2, <3>1, <3>2
  <2> QED BY <2>3, <2>4
<1>7. ASSUME NEW r \in Request, PutRejected(r) PROVE BalanceInv'
  BY <1>1, <1>7, UnwrittenStays DEF PutRejected, Answered, audit, world
<1>8. ASSUME NEW r \in Request, PutRaises(r) PROVE BalanceInv'
  BY <1>4, <1>8 DEF PutRaises
<1>9. ASSUME NEW r \in Request, Save(r) PROVE BalanceInv'
  <2>1. request[r] \in [at : {"save", "reply"}, task : Task, loaded : Status,
                        row : {"none", "dry", "live"}, ok : BOOLEAN]
         /\ request[r].at = "save" /\ effects' = effects
    BY <1>9 DEF Save, Typed, Steps, Idle, world
  <2>2. [request[r] EXCEPT !.at = "reply"].at # "save"
    BY <2>1
  <2> SUFFICES ASSUME NEW t \in Task
               PROVE  okRows'[t] + Cardinality(Unwritten(t)') = effects'[t]
    BY DEF BalanceInv
  <2>3. okRows[t] + Cardinality(Unwritten(t)) = effects[t]
    BY DEF BalanceInv
  <2>4. Unwritten(t)' = Unwritten(t) \ {r}
    BY <1>9, <2>1, <2>2 DEF Save, Enter, Unwritten, Typed
  <2>5. CASE r \in Unwritten(t)
    <3>1. Cardinality(Unwritten(t)') = Cardinality(Unwritten(t)) - 1
      BY <2>4, <2>5, UnwrittenFinite, FS_RemoveElement
    <3>2. okRows'[t] = okRows[t] + 1
      BY <1>9, <2>5 DEF Save, Unwritten, Typed
    <3> QED BY <2>1, <2>3, <3>1, <3>2, UnwrittenFinite DEF Typed
  <2>6. CASE r \notin Unwritten(t)
    <3>1. Unwritten(t)' = Unwritten(t)
      BY <2>4, <2>6
    <3>2. okRows'[t] = okRows[t]
      BY <1>9, <2>1, <2>6 DEF Save, Unwritten, Typed
    <3> QED BY <2>1, <2>3, <3>1, <3>2
  <2> QED BY <2>5, <2>6
<1>10. ASSUME NEW r \in Request, RateLimited(r) \/ Reply(r) PROVE BalanceInv'
  BY <1>4, <1>10 DEF RateLimited, Reply
<1>11. CASE Reload
  BY <1>2, <1>11 DEF Reload, audit, world
<1>12. CASE Tick
  BY <1>2, <1>12 DEF Tick
<1>13. CASE UNCHANGED vars
  BY <1>2, <1>13 DEF vars, audit, world
<1> QED
  BY <1>3, <1>5, <1>6, <1>7, <1>8, <1>9, <1>10, <1>11, <1>12, <1>13 DEF Next, Proceeds

\* As long as every dispatch is answered and the process lives, each effect has its row
\* once the requests are over, for any number of overlapping ones.
THEOREM EffectsHaveRows ==
    ASSUME "lost" \notin Answers, Restarts = {}
    PROVE  Spec => []EffectsAreAudited
<1>1. Init => BalanceInv
  <2> SUFFICES ASSUME Init, NEW t \in Task PROVE okRows[t] + Cardinality(Unwritten(t)) = effects[t]
    BY DEF BalanceInv
  <2>1. Unwritten(t) = {}
    BY DEF Init, Unwritten, Idle
  <2> QED BY <2>1, FS_EmptySet DEF Init
<1>2. Typed /\ BalanceInv => EffectsAreAudited
  <2> SUFFICES ASSUME Typed, BalanceInv, \A r \in Request : request[r].at = "idle", NEW t \in Task
               PROVE  effects[t] <= okRows[t]
    BY DEF EffectsAreAudited
  <2>1. Unwritten(t) = {}
    BY DEF Unwritten
  <2>2. okRows[t] + 0 = effects[t]
    BY <2>1, FS_EmptySet DEF BalanceInv
  <2> QED BY <2>2 DEF Typed
<1> QED BY <1>1, <1>2, BalanceStep, TypedInvariant, PTL DEF Spec

----
\* One handler at a time: what it is about to send is Gap away from the latest effect,
\* and no effect is more recent than the latest row but one whose row is due.
ApartInv ==
    \A r \in Request :
        /\ request[r].at = "put" => sincePut = Gap
        /\ sinceRow <= sincePut \/ (request[r].at = "save" /\ request[r].row = "live")

LEMMA ApartStep ==
    ASSUME NEW only, Request = {only}, "lost" \notin Answers, Restarts = {}
    PROVE  Typed /\ ApartInv /\ [Next]_vars => ApartInv'
<1> SUFFICES ASSUME Typed, ApartInv, [Next]_vars PROVE ApartInv'
  OBVIOUS
<1> USE DEF ApartInv
<1>1. sinceRow \in Int /\ sincePut \in Int /\ Gap \in Int /\ sinceRow <= Gap /\ sincePut <= Gap
  BY ApprovalBounds DEF Typed
<1>2. request \in [Request -> Steps]
  BY DEF Typed
<1>3. ASSUME NEW r \in Request, NEW step, Enter(r, step), UNCHANGED <<sinceRow, sincePut>>,
             step.at # "put", request[r].at # "save"
      PROVE  ApartInv'
  <2>1. request'[r] = step
    BY <1>2, <1>3 DEF Enter
  <2> QED BY <1>3, <2>1
<1>4. ASSUME UNCHANGED <<sinceRow, sincePut, request>> PROVE ApartInv'
  BY <1>4
<1>5. ASSUME NEW r \in Request, NEW t \in Task, NEW form, Posts(r, t, form) PROVE ApartInv'
  <2>1. CASE ApprovePlain(r, t, form)
    BY <1>3, <2>1 DEF ApprovePlain, Submits, audit, world
  <2>2. CASE AskConfirm(r, t, form)
    BY <1>4, <2>2 DEF AskConfirm, audit, world
  <2>3. CASE ApproveDry(r, t, form)
    BY <1>3, <2>3 DEF ApproveDry, Submits, audit, world
  <2>4. CASE ApproveLive(r, t, form)
    BY <1>3, <2>4 DEF ApproveLive, Submits, audit, world
  <2> QED BY <1>5, <2>1, <2>2, <2>3, <2>4 DEF Posts
<1>6. ASSUME NEW r \in Request, RateLimited(r) \/ PutRaises(r) PROVE ApartInv'
  <2>1. Idle.at # "put" /\ request[r].at # "save" /\ Enter(r, Idle)
    BY <1>6 DEF RateLimited, PutRaises, Leave, Idle
  <2> QED BY <1>3, <1>6, <2>1 DEF RateLimited, PutRaises, audit, world
<1>7. ASSUME NEW r \in Request, PassLimit(r) PROVE ApartInv'
  <2>1. sinceRow = Gap /\ sincePut = Gap
    BY <1>1, <1>7 DEF PassLimit
  <2> QED BY <1>1, <1>7, <2>1 DEF PassLimit, audit, world
<1>8. ASSUME NEW r \in Request, PutAccepted(r) \/ PutRejected(r) PROVE ApartInv'
  <2>1. \E ok \in BOOLEAN : Answered(r, ok)
    BY <1>8 DEF PutAccepted, PutRejected
  <2>2. request'[r].at = "save" /\ request'[r].row = "live"
    BY <1>2, <2>1 DEF Answered, Enter
  <2> QED BY <2>2
<1>9. ASSUME NEW r \in Request, Save(r) PROVE ApartInv'
  <2>1. request[r] \in [at : {"save", "reply"}, task : Task, loaded : Status,
                        row : {"none", "dry", "live"}, ok : BOOLEAN]
    BY <1>9 DEF Save, Typed, Steps, Idle
  <2>2. request'[r].at = "reply"
    BY <1>2, <1>9, <2>1 DEF Save, Enter
  <2>3. sinceRow' <= sincePut'
    BY <1>1, <1>9, <2>1, ApprovalBounds DEF Save, world, Typed
  <2> QED BY <2>2, <2>3
<1>10. ASSUME NEW r \in Request, Reply(r) PROVE ApartInv'
  <2>1. Idle.at # "put" /\ request[r].at # "save" /\ Enter(r, Idle)
    BY <1>10 DEF Reply, Leave, Idle
  <2> QED BY <1>3, <1>10, <2>1 DEF Reply, audit, world
<1>11. CASE Reload
  BY <1>4, <1>11 DEF Reload, audit, world
<1>12. CASE Tick
  BY <1>1, <1>12 DEF Tick
<1>13. CASE UNCHANGED vars
  BY <1>4, <1>13 DEF vars, audit, world
<1> QED
  BY <1>5, <1>6, <1>7, <1>8, <1>9, <1>10, <1>11, <1>12, <1>13 DEF Next, Proceeds

\* With one handler at a time, each dispatch answered and no restart, two effects are
\* Gap apart, although the rate limit looks at rows.
THEOREM EffectsKeepGap ==
    ASSUME NEW only, Request = {only}, "lost" \notin Answers, Restarts = {}
    PROVE  Spec => EffectsApart
<1>1. Init => ApartInv
  BY ApprovalBounds DEF Init, ApartInv, Idle
<1>2. Typed /\ ApartInv /\ [Next]_vars =>
        [\A t \in Task : effects'[t] > effects[t] => sincePut = Gap]_vars
  <2> SUFFICES ASSUME Typed, ApartInv, Next, NEW t \in Task, effects'[t] > effects[t]
               PROVE  sincePut = Gap
    OBVIOUS
  <2>1. effects' # effects
    BY DEF Typed
  <2>2. \E r \in Request : request[r].at = "put"
    BY <2>1
    DEF Next, Posts, Proceeds, ApprovePlain, AskConfirm, ApproveDry, ApproveLive, RateLimited,
        PassLimit, PutAccepted, PutRejected, PutRaises, Save, Reply, Reload, Tick, Restart, world
  <2> QED BY <2>2 DEF ApartInv
<1> QED BY <1>1, <1>2, ApartStep, TypedInvariant, PTL DEF Spec, EffectsApart

----
\* One handler at a time: what it has loaded is the task's status still, and it writes a
\* row exactly if the task has an action.
LatestInv ==
    /\ StatusIsLatest
    /\ \A r \in Request :
        /\ request[r].at \in {"limit", "put", "save"} => request[r].loaded = status[request[r].task]
        /\ request[r].at \in {"limit", "put"} => Action[request[r].task] # "none"
        /\ request[r].at = "save" => (request[r].row = "none" <=> Action[request[r].task] = "none")

LEMMA LatestStep ==
    ASSUME NEW only, Request = {only}
    PROVE  Typed /\ LatestInv /\ [Next]_vars => LatestInv'
<1> SUFFICES ASSUME Typed, LatestInv, [Next]_vars PROVE LatestInv'
  OBVIOUS
<1> USE DEF LatestInv
<1>1. request \in [Request -> Steps]
  BY DEF Typed
<1>2. ASSUME UNCHANGED <<status, latest>> PROVE StatusIsLatest'
  BY <1>2 DEF StatusIsLatest
<1>3. ASSUME UNCHANGED <<status, latest, request>> PROVE LatestInv'
  BY <1>2, <1>3
<1>4. ASSUME NEW r \in Request, NEW t \in Task, NEW form, Posts(r, t, form) PROVE LatestInv'
  <2>1. CASE AskConfirm(r, t, form)
    BY <1>3, <2>1 DEF AskConfirm, audit
  <2>2. CASE ApprovePlain(r, t, form)
    <3>1. request'[r] = [at |-> "save", task |-> t, loaded |-> status[t], row |-> "none",
                         ok |-> TRUE]
      BY <1>1, <2>2 DEF ApprovePlain, Enter
    <3> QED BY <1>2, <2>2, <3>1 DEF ApprovePlain, audit
  <2>3. CASE ApproveDry(r, t, form)
    <3>1. request'[r] = [at |-> "save", task |-> t, loaded |-> status[t], row |-> "dry",
                         ok |-> TRUE]
      BY <1>1, <2>3 DEF ApproveDry, Enter
    <3> QED BY <1>2, <2>3, <3>1 DEF ApproveDry, Cleared, audit
  <2>4. CASE ApproveLive(r, t, form)
    <3>1. request'[r] = [at |-> "limit", task |-> t, loaded |-> status[t]]
      BY <1>1, <2>4 DEF ApproveLive, Enter
    <3> QED BY <1>2, <2>4, <3>1 DEF ApproveLive, Cleared, audit
  <2> QED BY <1>4, <2>1, <2>2, <2>3, <2>4 DEF Posts
<1>5. ASSUME NEW r \in Request, Leave(r), UNCHANGED <<status, latest>> PROVE LatestInv'
  <2>1. request'[r] = Idle
    BY <1>1, <1>5 DEF Leave, Enter
  <2> QED BY <1>2, <1>5, <2>1 DEF Idle
<1>6. ASSUME NEW r \in Request, PassLimit(r) PROVE LatestInv'
  <2>1. /\ request'[r].at = "put" /\ request'[r].task = request[r].task
        /\ request'[r].loaded = request[r].loaded
    BY <1>1, <1>6 DEF PassLimit, Enter, Steps, Idle
  <2> QED BY <1>2, <1>6, <2>1 DEF PassLimit, audit
<1>7. ASSUME NEW r \in Request, PutAccepted(r) \/ PutRejected(r) PROVE LatestInv'
  <2>1. \E ok \in BOOLEAN : Answered(r, ok)
    BY <1>7 DEF PutAccepted, PutRejected
  <2>2. /\ request'[r].at = "save" /\ request'[r].task = request[r].task
        /\ request'[r].loaded = request[r].loaded /\ request'[r].row = "live"
    BY <1>1, <2>1 DEF Answered, Enter
  <2> QED BY <1>2, <1>7, <2>2 DEF PutAccepted, PutRejected, audit
<1>8. ASSUME NEW r \in Request, Save(r) PROVE LatestInv'
  <2> DEFINE t == request[r].task
             st == IF request[r].ok THEN "done" ELSE "failed"
  <2>1. /\ request[r] \in [at : {"save", "reply"}, task : Task, loaded : Status,
                           row : {"none", "dry", "live"}, ok : BOOLEAN]
        /\ request[r].at = "save"
    BY <1>8 DEF Save, Typed, Steps, Idle
  <2>2. request'[r].at = "reply"
    BY <1>1, <1>8, <2>1 DEF Save, Enter
  <2>3. /\ status'[t] = st
        /\ \A u \in Task : u # t => status'[u] = status[u]
    BY <1>8, <2>1 DEF Save, Typed
  <2>4. /\ Action[t] # "none" => latest'[t] = IF request[r].ok THEN "ok" ELSE "rejected"
        /\ \A u \in Task : u # t => latest'[u] = latest[u]
    BY <1>8, <2>1 DEF Save, Typed
  <2>5. Action[t] # "none" => status'[t] = StatusOf[latest'[t]]
    BY <2>3, <2>4 DEF StatusOf
  <2>6. StatusIsLatest'
    BY <2>1, <2>3, <2>4, <2>5 DEF StatusIsLatest
  <2> QED BY <2>2, <2>6
<1>9. ASSUME NEW r \in Request, Proceeds(r) PROVE LatestInv'
  <2>1. RateLimited(r) \/ PutRaises(r) \/ Reply(r) => Leave(r) /\ UNCHANGED <<status, latest>>
    BY DEF RateLimited, PutRaises, Reply, audit
  <2> QED BY <1>5, <1>6, <1>7, <1>8, <1>9, <2>1 DEF Proceeds
<1>10. CASE Reload
  BY <1>3, <1>10 DEF Reload, audit
<1>11. CASE Tick
  BY <1>3, <1>11 DEF Tick
<1>12. ASSUME NEW dry \in Restarts, Restart(dry) PROVE LatestInv'
  BY <1>2, <1>12 DEF Restart, Idle, audit
<1>13. CASE UNCHANGED vars
  BY <1>3, <1>13 DEF vars, audit
<1> QED
  BY <1>4, <1>9, <1>10, <1>11, <1>12, <1>13 DEF Next

\* With one handler at a time, whatever forms are still open, however the API answers and
\* whenever the process restarts, a task's status is what its latest audit row says.
THEOREM StatusFollowsAudit ==
    ASSUME NEW only, Request = {only}
    PROVE  Spec => []StatusIsLatest
<1>1. Init => LatestInv
  BY DEF Init, LatestInv, StatusIsLatest, StatusOf, Idle
<1>2. LatestInv => StatusIsLatest
  BY DEF LatestInv
<1> QED BY <1>1, <1>2, LatestStep, TypedInvariant, PTL DEF Spec
====
