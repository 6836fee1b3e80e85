---- MODULE ManualLinks ----
(***************************************************************************)
(* The pairs of incidents the similarity scan flags, and the links an      *)
(* analyst confirms from that banner or takes back.  Confirming is a       *)
(* check and an insert in two statements; a link is taken back by its row  *)
(* id, from a page of any age, and SQLite gives the largest id out again.  *)
(***************************************************************************)
EXTENDS Integers, FiniteSets, Handlers

CONSTANTS
    Incident,  \* the ids of incidents
    Views,     \* what a similarity scan may find: [Incident -> [hot, touch, brief]]
    Alike,     \* the sets of briefs whose embeddings score at the threshold or above
    MaxRow     \* bound: the largest row id

Pair == {p \in Incident \X Incident : p[1] < p[2]}
NoRow == <<>>

ASSUME LinkBounds ==
    /\ Incident \subseteq Nat
    /\ MaxRow \in Nat

VARIABLES
    similar,  \* the pairs in the IncidentSimilarity table
    rows      \* [1..MaxRow -> Incident \X Incident or NoRow], the ManualIncidentLink table

linkVars == <<similar, rows>>

LinksInit ==
    /\ similar = {}
    /\ rows = [k \in 1..MaxRow |-> NoRow]

----
\* find_similar: incidents of medium or high severity whose signal alerts share no
\* entity and whose descriptions read alike.
Flagged(v) ==
    {p \in Pair : /\ v[p[1]].hot /\ v[p[2]].hot
                  /\ v[p[1]].touch \cap v[p[2]].touch = {}
                  /\ {v[p[1]].brief, v[p[2]].brief} \in Alike}

\* refresh: the table is emptied and filled again in one commit, on the pipeline's thread.
Refresh(v) ==
    /\ similar' = Flagged(v)
    /\ UNCHANGED <<rows, handlerVars>>

----
\* Mutant: a pair is stored the way round it was confirmed.
AsPosted(p) == p

\* A pair has one canonical row, the lower id first.
Canonical(p) == IF p[1] < p[2] THEN p ELSE <<p[2], p[1]>>

Held == {k \in 1..MaxRow : rows[k] # NoRow}
LinkedPairs == {rows[k] : k \in Held}

\* SQLite's next row id: one more than the largest in use.
NextId(k) == (\A j \in Held : j < k) /\ (k = 1 \/ k - 1 \in Held)

\* for_incident: what was flagged with i, and what is linked to it, from either side.
SimilarTo(i) == {j \in Incident : <<i, j>> \in similar \/ <<j, i>> \in similar}
LinkedTo(i) == {j \in Incident : \E k \in Held : rows[k] \in {<<i, j>>, <<j, i>>}}

\* GET /incidents/{i}: similar incidents that are not linked get a form to confirm.
OfferConfirm(r, i, j) ==
    /\ Free(r)
    /\ j \in SimilarTo(i) \ LinkedTo(i)
    /\ Enter(r, [at |-> "offered", pair |-> <<i, j>>])
    /\ UNCHANGED linkVars

\* confirm: the pair's row is looked for, and is left as it is if there is one.
CheckPair(r) ==
    LET p == Canonical(request[r].pair)
    IN  /\ request[r].at = "offered"
        /\ IF p \in LinkedPairs THEN Leave(r) ELSE Enter(r, [at |-> "insert", pair |-> p])
        /\ UNCHANGED linkVars

InsertRow(r, k) ==
    /\ request[r].at = "insert" /\ NextId(k)
    /\ rows' = [rows EXCEPT ![k] = request[r].pair]
    /\ Commit(r, {q \in At({"insert"}) : request[q].pair = request[r].pair})
    /\ UNCHANGED similar

\* GET /incidents/{i}: a row that touches i, from either side, gets a form to unlink.
ShowLink(r, i, k) ==
    /\ Free(r) /\ k \in Held
    /\ \E j \in LinkedTo(i) : rows[k] \in {<<i, j>>, <<j, i>>}
    /\ Enter(r, [at |-> "shown", id |-> k, pair |-> rows[k]])
    /\ UNCHANGED linkVars

\* unlink: the row with that id is loaded; if there is none the answer is 404.
LoadLink(r) ==
    /\ request[r].at = "shown"
    /\ IF request[r].id \in Held
       THEN Enter(r, [request[r] EXCEPT !.at = "delete"])
       ELSE Leave(r)
    /\ UNCHANGED linkVars

\* Mutant: every link of the row's lower incident goes.
DeleteByIncident(r) ==
    LET p == rows[request[r].id]
    IN  /\ request[r].at = "delete"
        /\ rows' = [k \in 1..MaxRow |-> IF rows[k] # NoRow /\ p # NoRow /\ rows[k][1] = p[1]
                                       THEN NoRow ELSE rows[k]]
        /\ Commit(r, At({"shown", "delete"}))
        /\ UNCHANGED similar

\* The row with that id is deleted, if it is still there.
DeleteRow(r) ==
    /\ request[r].at = "delete"
    /\ rows' = [rows EXCEPT ![request[r].id] = NoRow]
    /\ Commit(r, At({"shown", "delete"}))
    /\ UNCHANGED similar
====
