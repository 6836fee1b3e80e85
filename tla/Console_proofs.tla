---- MODULE Console_proofs ----
(***************************************************************************)
(* Proofs about the dashboard's handlers, for every number of requests,    *)
(* browsers and links, and every choice of credentials and scans.          *)
(***************************************************************************)
EXTENDS Console, TLAPS

USE SettingsBounds, LinkBounds

\* What a request has read is what the tables c, s and t hold.
Current(q, c, s, t) ==
    /\ q.at = "store" => q.loaded = c
    /\ q.at \in {"flip", "set"} => q.value = (s = FALSE)
    /\ q.at = "set" => q.loaded = s
    /\ q.at = "insert" => \A k \in 1..MaxRow : t[k] # q.pair
    /\ q.at \in {"shown", "delete"} => t[q.id] = q.pair

\* So it is for every request that nobody has overtaken.
Fresh == \A r \in Request \ overtaken : Current(request[r], credential, setting, rows)

\* A credential row that was there when it was loaded is there when it is stored.
RowStays ==
    \A r \in Request :
        request[r].at = "store" /\ request[r].loaded # None => credential # None

ConsoleInv == TypeOK /\ Fresh /\ RowStays

\* A step's name says which fields it has.
LEMMA StepFields ==
    ASSUME NEW q \in Step
    PROVE  /\ q.at = "load" => q.browser \in Browser /\ q.offer \in Offer
           /\ q.at = "store" => /\ q.browser \in Browser /\ q.offer \in Offer
                                /\ q.loaded \in Credential \cup {None}
           /\ q.at \in {"flip", "set"} => q.value \in BOOLEAN
           /\ q.at = "set" => q.loaded \in BOOLEAN \cup {None}
           /\ q.at = "offered" => q.pair \in Incident \X Incident /\ q.pair[1] # q.pair[2]
           /\ q.at = "insert" => q.pair \in Pair
           /\ q.at \in {"shown", "delete"} => q.id \in 1..MaxRow /\ q.pair \in Pair
BY DEF Step, Done

\* A request that has moved on to another step leaves the others where they were.
LEMMA EnterKeeps ==
    ASSUME TypeOK, NEW r \in Request, NEW q \in Step, Enter(r, q)
    PROVE  /\ request' \in [Request -> Step] /\ overtaken' = overtaken /\ request'[r] = q
           /\ \A u \in Request \ {r} : request'[u] = request[u]
BY DEF TypeOK, Enter

\* A request that has ended overtakes its rivals and no others.
LEMMA CommitKeeps ==
    ASSUME TypeOK, NEW r \in Request, NEW S \in SUBSET Request, Commit(r, S)
    PROVE  /\ request' \in [Request -> Step] /\ overtaken' \subseteq Request
           /\ \A u \in Request \ overtaken' :
                \/ u = r /\ request'[u] = Done
                \/ u \notin S /\ u \notin overtaken /\ request'[u] = request[u]
           /\ \A u \in Request : request'[u] = IF u = r THEN Done ELSE request[u]
<1>1. Done \in Step
  BY DEF Step
<1> QED BY <1>1 DEF TypeOK, Commit

\* Done has read nothing.
LEMMA DoneIsCurrent == \A c, s, t : Current(Done, c, s, t)
BY DEF Current, Done

\* The step of a handler that only reads: what it enters with must be current.
LEMMA ReadKeeps ==
    ASSUME ConsoleInv, NEW r \in Request, NEW q \in Step, Enter(r, q),
           r \in overtaken \/ Current(q, credential, setting, rows),
           q.at = "store" /\ q.loaded # None => credential # None,
           UNCHANGED <<settingsVars, linkVars>>
    PROVE  ConsoleInv'
<1>1. /\ request' \in [Request -> Step] /\ overtaken' = overtaken /\ request'[r] = q
      /\ \A u \in Request \ {r} : request'[u] = request[u]
  BY EnterKeeps DEF ConsoleInv
<1>2. TypeOK'
  BY <1>1 DEF ConsoleInv, TypeOK, settingsVars, linkVars
<1>3. Fresh'
  <2> SUFFICES ASSUME NEW u \in Request \ overtaken'
               PROVE  Current(request'[u], credential, setting, rows)
    BY DEF Fresh, settingsVars, linkVars
  <2> QED BY <1>1 DEF ConsoleInv, Fresh
<1>4. RowStays'
  BY <1>1 DEF ConsoleInv, RowStays, settingsVars
<1> QED BY <1>2, <1>3, <1>4 DEF ConsoleInv

\* The end of a request that has changed nothing.
LEMMA LeaveKeeps ==
    ASSUME ConsoleInv, NEW r \in Request, Leave(r), UNCHANGED <<settingsVars, linkVars>>
    PROVE  ConsoleInv'
<1>1. /\ request' \in [Request -> Step] /\ overtaken' \subseteq Request
      /\ \A u \in Request \ overtaken' :
            \/ u = r /\ request'[u] = Done
            \/ u \notin overtaken /\ request'[u] = request[u]
      /\ \A u \in Request : request'[u] = IF u = r THEN Done ELSE request[u]
  BY CommitKeeps DEF Leave, ConsoleInv
<1>2. TypeOK'
  BY <1>1 DEF ConsoleInv, TypeOK, settingsVars, linkVars
<1>3. Fresh'
  <2> SUFFICES ASSUME NEW u \in Request \ overtaken'
               PROVE  Current(request'[u], credential, setting, rows)
    BY DEF Fresh, settingsVars, linkVars
  <2> QED BY <1>1, DoneIsCurrent DEF ConsoleInv, Fresh
<1>4. RowStays'
  BY <1>1 DEF ConsoleInv, RowStays, settingsVars, Done
<1> QED BY <1>2, <1>3, <1>4 DEF ConsoleInv

----
\* Signing in and out changes the cookie only.
LEMMA SessionKeeps ==
    ASSUME ConsoleInv, cookie' \in [Browser -> User \cup {None}],
           UNCHANGED <<credential, password, setting, handlerVars, linkVars>>
    PROVE  ConsoleInv'
BY DEF ConsoleInv, TypeOK, Fresh, RowStays, handlerVars, linkVars

\* Restarting keeps the open forms, and a confirmed link's row with them.
LEMMA RestartKeeps ==
    ASSUME ConsoleInv, NEW pw \in DashboardPasswords, NEW reset, NEW keeps,
           Restart(pw, reset, keeps), UNCHANGED linkVars
    PROVE  ConsoleInv'
<1>1. /\ request' \in [Request -> Step] /\ overtaken' \subseteq Request
      /\ \A u \in Request \ overtaken' :
            \/ request'[u] = Done
            \/ /\ u \notin overtaken /\ request'[u] = request[u]
               /\ request[u].at \in {"offered", "shown"}
      /\ \A u \in Request : request'[u].at # "store"
  BY DEF Done, Restart, HandlersRestart, Survivors, At, ConsoleInv, TypeOK, Step
<1>2. TypeOK'
  BY <1>1 DEF Restart, ConsoleInv, TypeOK, linkVars
<1>3. Fresh'
  <2> SUFFICES ASSUME NEW u \in Request \ overtaken'
               PROVE  Current(request'[u], credential', setting', rows')
    BY DEF Fresh
  <2>1. CASE request'[u] = Done
    BY <2>1, DoneIsCurrent
  <2>2. CASE /\ u \notin overtaken /\ request'[u] = request[u]
             /\ request[u].at \in {"offered", "shown"}
    BY <2>2 DEF ConsoleInv, Fresh, Current, linkVars
  <2> QED BY <1>1, <2>1, <2>2
<1>4. RowStays'
  BY <1>1 DEF RowStays
<1> QED BY <1>2, <1>3, <1>4 DEF ConsoleInv

\* A change of the credential that read the row.
LEMMA BeginChangeKeeps ==
    ASSUME ConsoleInv, NEW r \in Request, NEW b \in Browser, NEW offer \in Offer,
           BeginChange(r, b, offer), UNCHANGED linkVars
    PROVE  ConsoleInv'
<1> DEFINE q == [at |-> "load", browser |-> b, offer |-> offer]
<1>1. q \in Step /\ Current(q, credential, setting, rows)
  BY DEF Step, Current
<1> QED BY <1>1, ReadKeeps DEF BeginChange

LEMMA LoadCredentialKeeps ==
    ASSUME ConsoleInv, NEW r \in Request, LoadCredential(r), UNCHANGED linkVars
    PROVE  ConsoleInv'
<1> DEFINE q == [at |-> "store", browser |-> request[r].browser, offer |-> request[r].offer,
                 loaded |-> credential]
<1>1. request[r].browser \in Browser /\ request[r].offer \in Offer
  BY StepFields DEF LoadCredential, ConsoleInv, TypeOK
<1>2. q \in Step /\ Current(q, credential, setting, rows)
  BY <1>1 DEF Step, Current, ConsoleInv, TypeOK
<1> QED BY <1>2, ReadKeeps DEF LoadCredential

LEMMA BeginToggleKeeps ==
    ASSUME ConsoleInv, NEW r \in Request, NEW b \in Browser,
           BeginToggle(r, b), UNCHANGED linkVars
    PROVE  ConsoleInv'
<1>1. PICK off \in BOOLEAN : off = ~AiOn
  OBVIOUS
<1>2. off = (setting = FALSE)
  <2>1. CASE setting = None
    BY <1>1, <2>1 DEF AiOn
  <2>2. CASE setting = TRUE
    BY <1>1, <2>2 DEF AiOn
  <2>3. CASE setting = FALSE
    BY <1>1, <2>3 DEF AiOn
  <2> QED BY <2>1, <2>2, <2>3 DEF ConsoleInv, TypeOK
<1> DEFINE q == [at |-> "flip", value |-> off]
<1>3. q \in Step /\ Current(q, credential, setting, rows)
  BY <1>2 DEF Step, Current
<1>4. Enter(r, q)
  BY <1>1 DEF BeginToggle
<1> QED BY <1>3, <1>4, ReadKeeps DEF BeginToggle

LEMMA LoadSettingKeeps ==
    ASSUME ConsoleInv, NEW r \in Request, LoadSetting(r), UNCHANGED linkVars
    PROVE  ConsoleInv'
<1> DEFINE q == [at |-> "set", value |-> request[r].value, loaded |-> setting]
<1>1. request[r].value \in BOOLEAN
  BY StepFields DEF LoadSetting, ConsoleInv, TypeOK
<1>2. q \in Step
  BY <1>1 DEF Step, ConsoleInv, TypeOK
<1>3. r \in overtaken \/ Current(q, credential, setting, rows)
  BY DEF LoadSetting, ConsoleInv, Fresh, Current
<1> QED BY <1>2, <1>3, ReadKeeps DEF LoadSetting

\* The store of a credential overtakes the other stores, so that nothing is current that
\* it has changed.
LEMMA StoreCredentialKeeps ==
    ASSUME ConsoleInv, NEW r \in Request, StoreCredential(r), UNCHANGED linkVars
    PROVE  ConsoleInv'
<1> DEFINE q == request[r]
<1>1. q.browser \in Browser /\ q.offer \in Credential
  BY StepFields DEF StoreCredential, ConsoleInv, TypeOK
<1>2. At({"store"}) \in SUBSET Request /\ Commit(r, At({"store"}))
  BY DEF At, StoreCredential
<1>3. /\ request' \in [Request -> Step] /\ overtaken' \subseteq Request
      /\ \A u \in Request \ overtaken' :
            \/ u = r /\ request'[u] = Done
            \/ u \notin At({"store"}) /\ u \notin overtaken /\ request'[u] = request[u]
      /\ \A u \in Request : request'[u] = IF u = r THEN Done ELSE request[u]
  BY <1>2, CommitKeeps DEF ConsoleInv
<1>4. credential' \in Credential
  <2>1. CASE q.loaded = None /\ credential # None
    BY <2>1 DEF StoreCredential, ConsoleInv, TypeOK
  <2>2. CASE ~(q.loaded = None /\ credential # None)
    <3>1. q.loaded # None => credential \in Credential
      BY DEF StoreCredential, ConsoleInv, TypeOK, RowStays
    <3>2. credential' = Stored(q.offer, q.loaded)
      BY <2>2 DEF StoreCredential
    <3> QED BY <1>1, <3>1, <3>2 DEF Stored, Credential
  <2> QED BY <2>1, <2>2
<1>5. cookie' \in [Browser -> User \cup {None}]
  BY <1>1 DEF StoreCredential, ConsoleInv, TypeOK, Credential
<1>6. TypeOK'
  BY <1>3, <1>4, <1>5 DEF StoreCredential, ConsoleInv, TypeOK, linkVars
<1>7. Fresh'
  <2> SUFFICES ASSUME NEW u \in Request \ overtaken'
               PROVE  Current(request'[u], credential', setting', rows')
    BY DEF Fresh
  <2>1. CASE request'[u] = Done
    BY <2>1, DoneIsCurrent
  <2>2. CASE u \notin At({"store"}) /\ u \notin overtaken /\ request'[u] = request[u]
    BY <2>2 DEF At, ConsoleInv, Fresh, Current, StoreCredential, linkVars
  <2> QED BY <1>3, <2>1, <2>2
<1>8. RowStays'
  BY <1>4 DEF RowStays
<1> QED BY <1>6, <1>7, <1>8 DEF ConsoleInv

\* The store of the switch overtakes the other toggles.
LEMMA SaveSettingKeeps ==
    ASSUME ConsoleInv, NEW r \in Request, SaveSetting(r), UNCHANGED linkVars
    PROVE  ConsoleInv'
<1> DEFINE q == request[r]
<1>1. q.value \in BOOLEAN
  BY StepFields DEF SaveSetting, ConsoleInv, TypeOK
<1>2. At({"flip", "set"}) \in SUBSET Request /\ Commit(r, At({"flip", "set"}))
  BY DEF At, SaveSetting
<1>3. /\ request' \in [Request -> Step] /\ overtaken' \subseteq Request
      /\ \A u \in Request \ overtaken' :
            \/ u = r /\ request'[u] = Done
            \/ u \notin At({"flip", "set"}) /\ u \notin overtaken /\ request'[u] = request[u]
      /\ \A u \in Request : request'[u] = IF u = r THEN Done ELSE request[u]
  BY <1>2, CommitKeeps DEF ConsoleInv
<1>4. setting' \in BOOLEAN \cup {None}
  BY <1>1 DEF SaveSetting, ConsoleInv, TypeOK
<1>5. TypeOK'
  BY <1>3, <1>4 DEF SaveSetting, ConsoleInv, TypeOK, linkVars
<1>6. Fresh'
  <2> SUFFICES ASSUME NEW u \in Request \ overtaken'
               PROVE  Current(request'[u], credential', setting', rows')
    BY DEF Fresh
  <2>1. CASE request'[u] = Done
    BY <2>1, DoneIsCurrent
  <2>2. CASE u \notin At({"flip", "set"}) /\ u \notin overtaken /\ request'[u] = request[u]
    BY <2>2 DEF At, ConsoleInv, Fresh, Current, SaveSetting, linkVars
  <2> QED BY <1>3, <2>1, <2>2
<1>7. RowStays'
  BY <1>3 DEF RowStays, ConsoleInv, SaveSetting, Done
<1> QED BY <1>5, <1>6, <1>7 DEF ConsoleInv

----
\* A scan flags pairs of incidents, the lower id first.
LEMMA RefreshKeeps ==
    ASSUME ConsoleInv, NEW v, Refresh(v), UNCHANGED settingsVars
    PROVE  ConsoleInv'
<1>1. Flagged(v) \subseteq Pair
  BY DEF Flagged
<1> QED BY <1>1 DEF ConsoleInv, TypeOK, Fresh, RowStays, Refresh, settingsVars, handlerVars

\* The canonical form of two incidents is a pair of them.
LEMMA CanonicalIsPair ==
    ASSUME NEW p \in Incident \X Incident, p[1] # p[2]
    PROVE  Canonical(p) \in Pair /\ SamePair(Canonical(p), p)
<1>1. CASE p[1] < p[2]
  BY <1>1 DEF Canonical, Pair, SamePair
<1>2. CASE ~(p[1] < p[2])
  <2>1. Canonical(p) = <<p[2], p[1]>>
    BY <1>2 DEF Canonical
  <2>2. p[1] \in Nat /\ p[2] \in Nat /\ p[1] \in Incident /\ p[2] \in Incident
    OBVIOUS
  <2>3. p[2] < p[1]
    BY <1>2, <2>2
  <2>4. Canonical(p) \in Pair
    BY <2>1, <2>2, <2>3 DEF Pair
  <2>5. SamePair(Canonical(p), p)
    BY <2>1 DEF SamePair
  <2> QED BY <2>4, <2>5
<1> QED BY <1>1, <1>2

\* The forms of an incident's page show what the tables hold.
LEMMA PageKeeps ==
    ASSUME ConsoleInv, NEW r \in Request,
           \/ \E i, j \in Incident : OfferConfirm(r, i, j)
           \/ \E i \in Incident, k \in 1..MaxRow : ShowLink(r, i, k),
           UNCHANGED settingsVars
    PROVE  ConsoleInv'
<1>1. CASE \E i, j \in Incident : OfferConfirm(r, i, j)
  <2>1. PICK i \in Incident, j \in Incident : OfferConfirm(r, i, j)
    BY <1>1
  <2> DEFINE q == [at |-> "offered", pair |-> <<i, j>>]
  <2>2. i # j
    BY <2>1 DEF OfferConfirm, SimilarTo, LinkedTo, ConsoleInv, TypeOK, Pair
  <2>3. q \in Step /\ Current(q, credential, setting, rows)
    BY <2>2 DEF Step, Current
  <2> QED BY <2>1, <2>3, ReadKeeps DEF OfferConfirm
<1>2. CASE \E i \in Incident, k \in 1..MaxRow : ShowLink(r, i, k)
  <2>1. PICK k \in 1..MaxRow : \E i \in Incident : ShowLink(r, i, k)
    BY <1>2
  <2> DEFINE q == [at |-> "shown", id |-> k, pair |-> rows[k]]
  <2>2. rows[k] \in Pair
    BY <2>1 DEF ShowLink, Held, ConsoleInv, TypeOK
  <2>3. q \in Step /\ Current(q, credential, setting, rows)
    BY <2>2 DEF Step, Current
  <2> QED BY <2>1, <2>3, ReadKeeps DEF ShowLink
<1> QED BY <1>1, <1>2

\* A confirmation goes on to insert only a pair that has no row.
LEMMA CheckPairKeeps ==
    ASSUME ConsoleInv, NEW r \in Request, CheckPair(r), UNCHANGED settingsVars
    PROVE  ConsoleInv'
<1> DEFINE p == Canonical(request[r].pair)
           q == [at |-> "insert", pair |-> p]
<1>1. CASE p \in LinkedPairs
  BY <1>1, LeaveKeeps DEF CheckPair
<1>2. CASE p \notin LinkedPairs
  <2>1. p \in Pair
    BY StepFields, CanonicalIsPair DEF CheckPair, ConsoleInv, TypeOK
  <2>2. \A k \in 1..MaxRow : rows[k] # p
    BY <1>2, <2>1 DEF LinkedPairs, Held, Pair, NoRow
  <2>3. q \in Step /\ Current(q, credential, setting, rows)
    BY <2>1, <2>2 DEF Step, Current
  <2> QED BY <1>2, <2>3, ReadKeeps DEF CheckPair
<1> QED BY <1>1, <1>2

\* An unlink goes on to delete the row of its page.
LEMMA LoadLinkKeeps ==
    ASSUME ConsoleInv, NEW r \in Request, LoadLink(r), UNCHANGED settingsVars
    PROVE  ConsoleInv'
<1> DEFINE q == [request[r] EXCEPT !.at = "delete"]
<1>1. CASE request[r].id \notin Held
  BY <1>1, LeaveKeeps DEF LoadLink
<1>2. CASE request[r].id \in Held
  <2>1. q = [at |-> "delete", id |-> request[r].id, pair |-> request[r].pair]
    BY DEF LoadLink, ConsoleInv, TypeOK, Step, Done
  <2>2. request[r].id \in 1..MaxRow /\ request[r].pair \in Pair
    BY StepFields DEF LoadLink, ConsoleInv, TypeOK
  <2>3. q \in Step
    BY <2>1, <2>2 DEF Step
  <2>4. r \in overtaken \/ Current(q, credential, setting, rows)
    BY <2>1 DEF LoadLink, ConsoleInv, Fresh, Current
  <2> QED BY <1>2, <2>1, <2>3, <2>4, ReadKeeps DEF LoadLink
<1> QED BY <1>1, <1>2

\* The new row overtakes the other inserts of its pair, and takes a free row id.
LEMMA InsertRowKeeps ==
    ASSUME ConsoleInv, NEW r \in Request, NEW k \in 1..MaxRow, InsertRow(r, k),
           UNCHANGED settingsVars
    PROVE  ConsoleInv'
<1> DEFINE q == request[r]
           S == {u \in At({"insert"}) : request[u].pair = q.pair}
<1>1. q.pair \in Pair
  BY StepFields DEF InsertRow, ConsoleInv, TypeOK
<1>2. S \in SUBSET Request /\ Commit(r, S)
  BY DEF At, InsertRow
<1>3. /\ request' \in [Request -> Step] /\ overtaken' \subseteq Request
      /\ \A u \in Request \ overtaken' :
            \/ u = r /\ request'[u] = Done
            \/ u \notin S /\ u \notin overtaken /\ request'[u] = request[u]
      /\ \A u \in Request : request'[u] = IF u = r THEN Done ELSE request[u]
  BY <1>2, CommitKeeps DEF ConsoleInv
<1>4. TypeOK'
  BY <1>1, <1>3 DEF InsertRow, ConsoleInv, TypeOK, settingsVars
<1>5. rows[k] = NoRow
  BY DEF InsertRow, NextId, Held
<1>6. Fresh'
  <2> SUFFICES ASSUME NEW u \in Request \ overtaken'
               PROVE  Current(request'[u], credential', setting', rows')
    BY DEF Fresh
  <2>1. CASE request'[u] = Done
    BY <2>1, DoneIsCurrent
  <2>2. CASE u \notin S /\ u \notin overtaken /\ request'[u] = request[u]
    <3>1. Current(request[u], credential, setting, rows)
      BY <2>2 DEF ConsoleInv, Fresh
    <3>2. request[u].at = "insert" => request[u].pair # q.pair
      BY <2>2 DEF At
    <3>3. request[u].at \in {"shown", "delete"} => request[u].id # k
      BY <1>5, <3>1, StepFields DEF Current, ConsoleInv, TypeOK, Pair, NoRow
    <3>4. rows' = [rows EXCEPT ![k] = q.pair] /\ rows \in [1..MaxRow -> Pair \cup {NoRow}]
      BY DEF InsertRow, ConsoleInv, TypeOK
    <3> QED BY <2>2, <3>1, <3>2, <3>3, <3>4, StepFields
            DEF Current, settingsVars, ConsoleInv, TypeOK
  <2> QED BY <1>3, <2>1, <2>2
<1>7. RowStays'
  BY <1>3 DEF RowStays, ConsoleInv, settingsVars, Done
<1> QED BY <1>4, <1>6, <1>7 DEF ConsoleInv

\* The deletion overtakes every other unlink form.
LEMMA DeleteRowKeeps ==
    ASSUME ConsoleInv, NEW r \in Request, DeleteRow(r), UNCHANGED settingsVars
    PROVE  ConsoleInv'
<1> DEFINE q == request[r]
           S == At({"shown", "delete"})
<1>1. q.id \in 1..MaxRow
  BY StepFields DEF DeleteRow, ConsoleInv, TypeOK
<1>2. S \in SUBSET Request /\ Commit(r, S)
  BY DEF At, DeleteRow
<1>3. /\ request' \in [Request -> Step] /\ overtaken' \subseteq Request
      /\ \A u \in Request \ overtaken' :
            \/ u = r /\ request'[u] = Done
            \/ u \notin S /\ u \notin overtaken /\ request'[u] = request[u]
      /\ \A u \in Request : request'[u] = IF u = r THEN Done ELSE request[u]
  BY <1>2, CommitKeeps DEF ConsoleInv
<1>4. TypeOK'
  BY <1>3 DEF DeleteRow, ConsoleInv, TypeOK, settingsVars
<1>5. Fresh'
  <2> SUFFICES ASSUME NEW u \in Request \ overtaken'
               PROVE  Current(request'[u], credential', setting', rows')
    BY DEF Fresh
  <2>1. CASE request'[u] = Done
    BY <2>1, DoneIsCurrent
  <2>2. CASE u \notin S /\ u \notin overtaken /\ request'[u] = request[u]
    <3>1. Current(request[u], credential, setting, rows) /\ request[u].at \notin {"shown", "delete"}
      BY <2>2 DEF ConsoleInv, Fresh, At
    <3>2. request[u].at = "insert" => request[u].pair # NoRow
      BY StepFields DEF ConsoleInv, TypeOK, Pair, NoRow
    <3> QED BY <2>2, <3>1, <3>2 DEF Current, settingsVars, DeleteRow, ConsoleInv, TypeOK
  <2> QED BY <1>3, <2>1, <2>2
<1>6. RowStays'
  BY <1>3 DEF RowStays, ConsoleInv, settingsVars, Done
<1> QED BY <1>4, <1>5, <1>6 DEF ConsoleInv

----
\* The inductive invariant holds in every initial state and survives every step.
LEMMA ConsoleInvariant == Spec => []ConsoleInv
<1>1. Init => ConsoleInv
  BY DEF Init, SettingsInit, LinksInit, ConsoleInv, TypeOK, Fresh, RowStays, Step, Done, Current,
         NoRow, Pair
<1>2. ConsoleInv /\ [Next]_vars => ConsoleInv'
  <2> SUFFICES ASSUME ConsoleInv, [Next]_vars PROVE ConsoleInv'
    OBVIOUS
  <2>1. CASE SettingsNext /\ UNCHANGED linkVars
    <3>1. CASE \E b \in Browser : SessionEnds(b)
      BY <2>1, <3>1, SessionKeeps DEF SessionEnds, ConsoleInv, TypeOK
    <3>2. CASE \E b \in Browser,
                  c \in Offer \cup [user : {DashboardUser}, password : DashboardPasswords] : Login(b, c)
      <4>1. PICK b \in Browser,
                 c \in Offer \cup [user : {DashboardUser}, password : DashboardPasswords] : Login(b, c)
        BY <3>2
      <4>2. c.user \in User
        BY DEF Credential
      <4> QED BY <2>1, <4>1, <4>2, SessionKeeps DEF Login, ConsoleInv, TypeOK
    <3>3. CASE \E r \in Request, b \in Browser, offer \in Offer : BeginChange(r, b, offer)
      BY <2>1, <3>3, BeginChangeKeeps
    <3>4. CASE \E r \in Request, b \in Browser : BeginToggle(r, b)
      BY <2>1, <3>4, BeginToggleKeeps
    <3>5. CASE \E r \in Request : \/ LoadCredential(r) \/ StoreCredential(r)
                                  \/ LoadSetting(r) \/ SaveSetting(r)
      BY <2>1, <3>5, LoadCredentialKeeps, StoreCredentialKeeps, LoadSettingKeeps, SaveSettingKeeps
    <3> QED BY <2>1, <3>1, <3>2, <3>3, <3>4, <3>5 DEF SettingsNext
  <2>2. CASE \E pw \in DashboardPasswords, reset, keeps \in BOOLEAN :
                Restart(pw, reset, keeps) /\ UNCHANGED linkVars
    BY <2>2, RestartKeeps
  <2>3. CASE \E v \in Views : Refresh(v) /\ UNCHANGED settingsVars
    BY <2>3, RefreshKeeps
  <2>4. CASE \E r \in Request, b \in Browser : MayUse(b) /\ LinkStep(r) /\ UNCHANGED settingsVars
    BY <2>4, PageKeeps, CheckPairKeeps, LoadLinkKeeps DEF LinkStep
  <2>5. CASE \E r \in Request : LinkCommit(r) /\ UNCHANGED settingsVars
    BY <2>5, InsertRowKeeps, DeleteRowKeeps DEF LinkCommit
  <2>6. CASE UNCHANGED vars
    BY <2>6 DEF vars, handlerVars, settingsVars, linkVars, ConsoleInv, TypeOK, Fresh, RowStays
  <2> QED BY <2>1, <2>2, <2>3, <2>4, <2>5, <2>6 DEF Next
<1> QED BY <1>1, <1>2, PTL DEF Spec

\* Every reachable state of the handlers is well typed: a link is of two incidents, the
\* lower id first, and a request carries what its step needs.
THEOREM ConsoleTypeCorrect == Spec => []TypeOK
BY ConsoleInvariant, PTL DEF ConsoleInv

\* A change of the credential that no other has overtaken stores the name and the password
\* that were posted (set_credential), for any number of handlers at once.
THEOREM CredentialIsWhole == Spec => CredentialWhole
<1>1. ConsoleInv /\ [Next]_vars =>
        \A r \in Request \ overtaken : StoreCredential(r) => credential' = request[r].offer
  <2> SUFFICES ASSUME ConsoleInv, NEW r \in Request \ overtaken, StoreCredential(r)
               PROVE  credential' = request[r].offer
    OBVIOUS
  <2> DEFINE q == request[r]
  <2>1. q.offer \in Credential /\ q.loaded = credential
    BY StepFields DEF StoreCredential, ConsoleInv, TypeOK, Fresh, Current
  <2>2. credential' = Stored(q.offer, q.loaded)
    BY <2>1 DEF StoreCredential
  <2> QED BY <2>1, <2>2 DEF Stored, Credential
<1> QED BY <1>1, ConsoleInvariant, PTL DEF Spec, CredentialWhole

\* A toggle that no other has overtaken turns the AI switch to its other side.
THEOREM SwitchFollows == Spec => SwitchFollowsClicks
<1>1. ConsoleInv /\ [Next]_vars =>
        \A r \in Request \ overtaken : SaveSetting(r) => AiOn' = ~AiOn
  <2> SUFFICES ASSUME ConsoleInv, NEW r \in Request \ overtaken, SaveSetting(r)
               PROVE  AiOn' = ~AiOn
    OBVIOUS
  <2> DEFINE q == request[r]
  <2>1. q.value = (setting = FALSE) /\ q.loaded = setting /\ setting \in BOOLEAN \cup {None}
    BY DEF SaveSetting, ConsoleInv, TypeOK, Fresh, Current
  <2>2. CASE setting = None
    BY <2>1, <2>2 DEF SaveSetting, AiOn
  <2>3. CASE setting = TRUE
    BY <2>1, <2>3 DEF SaveSetting, AiOn
  <2>4. CASE setting = FALSE
    BY <2>1, <2>4 DEF SaveSetting, AiOn
  <2> QED BY <2>1, <2>2, <2>3, <2>4
<1> QED BY <1>1, ConsoleInvariant, PTL DEF Spec, SwitchFollowsClicks

\* A confirmation that no other of its pair has overtaken inserts a pair that has no row
\* (confirm), from either of its two pages.
THEOREM PairInsertedOnce == Spec => PairOnce
<1>1. ConsoleInv /\ [Next]_vars =>
        \A r \in Request \ overtaken, k \in 1..MaxRow :
            InsertRow(r, k) => \A j \in Held : ~SamePair(rows[j], request[r].pair)
  <2> SUFFICES ASSUME ConsoleInv, NEW r \in Request \ overtaken, NEW k \in 1..MaxRow,
                      InsertRow(r, k), NEW j \in Held, SamePair(rows[j], request[r].pair)
               PROVE  FALSE
    OBVIOUS
  <2>1. rows[j] \in Pair /\ request[r].pair \in Pair /\ rows[j] # request[r].pair
    BY StepFields DEF InsertRow, Held, ConsoleInv, TypeOK, Fresh, Current
  <2>2. ASSUME NEW p \in Pair, NEW q \in Pair, SamePair(p, q) PROVE p = q
    <3>1. p = <<p[1], p[2]>> /\ q = <<q[1], q[2]>>
      BY DEF Pair
    <3>2. PICK a, b, c, d \in Nat : a = p[1] /\ b = p[2] /\ c = q[1] /\ d = q[2]
      BY DEF Pair
    <3>3. a < b /\ c < d
      BY <3>2 DEF Pair
    <3>4. {a, b} = {c, d}
      BY <2>2, <3>2 DEF SamePair
    <3>5. a = c /\ b = d
      BY <3>3, <3>4
    <3> QED BY <3>1, <3>2, <3>5
  <2> QED BY <2>1, <2>2
<1> QED BY <1>1, ConsoleInvariant, PTL DEF Spec, PairOnce

\* An unlink that no deletion has overtaken removes one row, and of the pair its page
\* showed (unlink).
THEOREM UnlinkIsExact == Spec => UnlinkExact
<1>1. ConsoleInv /\ [Next]_vars =>
        \A r \in Request \ overtaken :
            DeleteRow(r) => \E k \in Held : rows[k] = request[r].pair /\ Held' = Held \ {k}
  <2> SUFFICES ASSUME ConsoleInv, NEW r \in Request \ overtaken, DeleteRow(r)
               PROVE  \E k \in Held : rows[k] = request[r].pair /\ Held' = Held \ {k}
    OBVIOUS
  <2> DEFINE k == request[r].id
  <2>1. k \in 1..MaxRow /\ request[r].pair \in Pair /\ rows[k] = request[r].pair
    BY StepFields DEF DeleteRow, ConsoleInv, TypeOK, Fresh, Current
  <2>2. k \in Held
    BY <2>1 DEF Held, Pair, NoRow
  <2>3. Held' = Held \ {k}
    BY <2>1 DEF Held, DeleteRow, ConsoleInv, TypeOK
  <2> QED BY <2>1, <2>2, <2>3
<1> QED BY <1>1, ConsoleInvariant, PTL DEF Spec, UnlinkExact
====
