---- MODULE Console ----
(***************************************************************************)
(* The dashboard's small handlers together: what an analyst may do with    *)
(* manual links, the credential and the switch passes the same gate, takes *)
(* its turns on the same threads, and is cut off by the same restarts.     *)
(***************************************************************************)
EXTENDS Settings, ManualLinks

vars == <<handlerVars, settingsVars, linkVars>>

Init ==
    /\ request = [r \in Request |-> Done]
    /\ overtaken = {}
    /\ SettingsInit
    /\ LinksInit

\* A page or form about links is answered only past the gate.
LinkStep(r) ==
    \/ \E i, j \in Incident : OfferConfirm(r, i, j)
    \/ \E i \in Incident, k \in 1..MaxRow : ShowLink(r, i, k)
    \/ CheckPair(r)
    \/ LoadLink(r)

\* The rest of a request that has passed it.
LinkCommit(r) == (\E k \in 1..MaxRow : InsertRow(r, k)) \/ DeleteRow(r)

Next ==
    \/ SettingsNext /\ UNCHANGED linkVars
    \/ \E pw \in DashboardPasswords, reset, keeps \in BOOLEAN :
        Restart(pw, reset, keeps) /\ UNCHANGED linkVars
    \/ \E v \in Views : Refresh(v) /\ UNCHANGED settingsVars
    \/ \E r \in Request, b \in Browser : MayUse(b) /\ LinkStep(r) /\ UNCHANGED settingsVars
    \/ \E r \in Request : LinkCommit(r) /\ UNCHANGED settingsVars

Spec == Init /\ [][Next]_vars

\* An operator who remembers no more than .env follows the sign-in page's help:
\* restarts with the reset flag, signs out where a session is left, and signs in.
EnvCredential == [user |-> DashboardUser, password |-> password]

Recovers ==
    /\ WF_vars(\E pw \in DashboardPasswords, keeps \in BOOLEAN :
                    Restart(pw, TRUE, keeps) /\ UNCHANGED linkVars)
    /\ \A b \in Browser : SF_vars(SessionEnds(b) /\ UNCHANGED linkVars)
                          /\ SF_vars(cookie[b] = None /\ Login(b, EnvCredential) /\ UNCHANGED linkVars)

LiveSpec == Spec /\ Recovers

----
\* Where a request may stand, with what it has read.
Step ==
    {Done}
    \cup [at : {"load"}, browser : Browser, offer : Offer]
    \cup [at : {"store"}, browser : Browser, offer : Offer, loaded : Credential \cup {None}]
    \cup [at : {"flip"}, value : BOOLEAN]
    \cup [at : {"set"}, value : BOOLEAN, loaded : BOOLEAN \cup {None}]
    \cup [at : {"offered"}, pair : {p \in Incident \X Incident : p[1] # p[2]}]
    \cup [at : {"insert"}, pair : Pair]
    \cup [at : {"shown", "delete"}, id : 1..MaxRow, pair : Pair]

\* The type invariant.
TypeOK ==
    /\ credential \in Credential \cup {None}
    /\ password \in DashboardPasswords
    /\ cookie \in [Browser -> User \cup {None}]
    /\ setting \in BOOLEAN \cup {None}
    /\ similar \subseteq Pair
    /\ rows \in [1..MaxRow -> Pair \cup {NoRow}]
    /\ overtaken \subseteq Request
    /\ request \in [Request -> Step]

\* The credential that signs in is one somebody chose, never the name of one choice with
\* the password of another, although a commit writes only the columns that differ from
\* those it had loaded; unless another change was stored between its load and commit.
CredentialWhole ==
    [][\A r \in Request \ overtaken :
            StoreCredential(r) => credential' = request[r].offer]_vars

\* A toggle turns the AI switch to its other side, whether it has a row or not and
\* whatever died in between, unless another toggle was saved since it read the switch.
SwitchFollowsClicks ==
    [][\A r \in Request \ overtaken : SaveSetting(r) => AiOn' = ~AiOn]_vars

\* A pair has one row, whichever page it was confirmed from and however often, unless
\* another confirmation inserts it between the check and the insert of this one.
SamePair(p, q) == {p[1], p[2]} = {q[1], q[2]}
PairOnce ==
    [][\A r \in Request \ overtaken, k \in 1..MaxRow :
            InsertRow(r, k) => \A j \in Held : ~SamePair(rows[j], request[r].pair)]_vars

\* An unlink takes back one row, of the pair that its page showed, unless a row was
\* deleted since, whose id may be another pair's by now.
UnlinkExact ==
    [][\A r \in Request \ overtaken :
            DeleteRow(r) => \E k \in Held : rows[k] = request[r].pair /\ Held' = Held \ {k}]_vars

\* Whatever was forgotten, and whoever is signed in under an old name, an operator who
\* restarts with the reset flag comes to where Settings takes the .env password,
\* or the dashboard is open.
MayChange(b) == cookie[b] # None /\ Accepts([EnvCredential EXCEPT !.user = cookie[b]])
Recoverable == \A b \in Browser : []<>(MayChange(b) \/ ~AuthOn)
====
