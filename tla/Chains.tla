---- MODULE Chains ----
(***************************************************************************)
(* The attack chains: stitch() reads the incidents, remembers the statuses *)
(* analysts gave the chains, deletes every chain and writes the new ones,  *)
(* two commits each.  It runs after each rebuild of the incidents, on the  *)
(* same thread; analysts set statuses from the web meanwhile, by chain id, *)
(* and the ids start again from 1 at every rebuild.                        *)
(***************************************************************************)
EXTENDS Integers, FiniteSets

CONSTANTS
    Incident,    \* the ids of incidents
    Entity,      \* hosts, addresses and users
    Host,        \* the entities that are hosts
    Views,       \* [Incident -> set of views], what stitch may find of each
    MaxSpread,   \* chain_max_entity_spread
    LinkHours,   \* chain_max_link_hours
    StrongHours, \* chain_strong_link_hours
    Status,      \* _CHAIN_STATUSES
    Request,     \* the status requests that may be in flight
    MaxCrash     \* bound: how many rebuilds may die

\* An incident as stitch sees it: whether it is medium or high, the entities of its
\* signal alerts, its span in hours, its stage's rank, and whether the label of
\* that stage is Wazuh's own.
View == {v \in [hot : BOOLEAN, touch : SUBSET Entity, first : Int, last : Int, rank : Nat,
               native : BOOLEAN] : v.first <= v.last}

\* Alive chains are disjoint sets of two or more incidents.
ChainId == 1..(Cardinality(Incident) \div 2)

ASSUME ChainBounds ==
    /\ Incident \subseteq Nat /\ IsFiniteSet(Incident)
    /\ Host \subseteq Entity
    /\ Views \in [Incident -> (SUBSET View) \ {{}}]
    /\ MaxSpread \in Nat /\ LinkHours \in Nat
    /\ StrongHours \in 0..LinkHours
    /\ "open" \in Status /\ "none" \notin Status
    /\ MaxCrash \in Nat

VARIABLES
    view,     \* [Incident -> View], the incidents, alerts and verdicts
    chain,    \* [ChainId -> row], a status and a confidence level; Gone: no such row
    stages,   \* [ChainId -> [members -> stage_order]], the AttackChainIncident rows
    pc,       \* "idle", "prior", "erase", "write" or "link"
    snap,     \* the views the rebuild has read
    prior,    \* [SUBSET Incident -> Status or "none"], the statuses it has read
    left,     \* the groups that have no linked chain yet
    fresh,    \* the group whose chain is inserted but not linked yet
    request,  \* [Request -> record], where each status request stands
    late,     \* ghost: chains given a status since the rebuild read the statuses
    crashes   \* how many rebuilds have died

vars == <<view, chain, stages, pc, snap, prior, left, fresh, request, late, crashes>>

Unread == [i \in Incident |-> [hot |-> FALSE, touch |-> {}, first |-> 0, last |-> 0,
                               rank |-> 0, native |-> FALSE]]
Gone == [status |-> "none", level |-> 0]
NoStages == [i \in {} |-> 0]
NoPrior == [S \in SUBSET Incident |-> "none"]
Done == [at |-> "done"]

----
Candidates(v) == {i \in Incident : v[i].hot}

\* An entity of more candidates than MaxSpread is a hub and links nothing.
Hub(v, e) == Cardinality({i \in Candidates(v) : e \in v[i].touch}) > MaxSpread
Shared(v, i, j) == {e \in v[i].touch \cap v[j].touch : ~Hub(v, e)}

\* _gap_hours: the hours between two spans, 0 if they overlap.
Gap(a, b) ==
    IF a.last >= b.first /\ b.last >= a.first THEN 0
    ELSE IF b.first > a.last THEN b.first - a.last ELSE a.first - b.last

\* Two candidates that _group_by_shared_entity unites.
Linked(v, i, j) == Shared(v, i, j) # {} /\ Gap(v[i], v[j]) <= LinkHours

\* The candidates reachable from i over links.
Group(v, i) ==
    {j \in Candidates(v) : \A C \in SUBSET Candidates(v) :
        i \in C /\ (\A a \in C, b \in Candidates(v) : Linked(v, a, b) => b \in C) => j \in C}

\* Mutant: a chain needs more than two stages.
LongGroups(v) == {g \in {Group(v, i) : i \in Candidates(v)} : Cardinality(g) > 2}

Groups(v) == {g \in {Group(v, i) : i \in Candidates(v)} : Cardinality(g) >= 2}

\* Kill-chain order, then time; the sort is stable.
Before(v, i, j) ==
    \/ v[i].rank < v[j].rank
    \/ v[i].rank = v[j].rank /\ v[i].first < v[j].first
    \/ v[i].rank = v[j].rank /\ v[i].first = v[j].first /\ i < j

StageOrder(v, g) == [i \in g |-> Cardinality({j \in g : Before(v, j, i)})]

Adjacent(order, i, j) == order[j] = order[i] + 1

\* Mutant: a long gap costs no confidence.
ConfidenceAnyGap(v, g) ==
    LET pairs == {p \in g \X g : Adjacent(StageOrder(v, g), p[1], p[2])}
        linkers == UNION {Shared(v, p[1], p[2]) : p \in pairs}
        cost == (IF \E p \in pairs : Shared(v, p[1], p[2]) = {} THEN 2 ELSE 0)
                + (IF Cardinality(linkers) <= 1 THEN 1 ELSE 0)
    IN  IF cost >= 2 THEN 0 ELSE 2 - cost

\* _confidence: 2 is high, 1 medium, 0 low.
Confidence(v, g) ==
    LET pairs == {p \in g \X g : Adjacent(StageOrder(v, g), p[1], p[2])}
        linkers == UNION {Shared(v, p[1], p[2]) : p \in pairs}
        hubHost == \A p \in pairs : \E h \in Host : Shared(v, p[1], p[2]) = {h}
        cost == (IF hubHost THEN 2 ELSE 0)
                + (IF \E p \in pairs : Shared(v, p[1], p[2]) = {} THEN 2 ELSE 0)
                + (IF \E p \in pairs : Gap(v[p[1]], v[p[2]]) > StrongHours THEN 1 ELSE 0)
                + (IF \A i \in g : ~v[i].native THEN 1 ELSE 0)
                + (IF Cardinality(linkers) <= 1 THEN 1 ELSE 0)
    IN  IF cost >= 2 THEN 0 ELSE 2 - cost

----
Init ==
    /\ view \in [Incident -> UNION {Views[i] : i \in Incident}]
    /\ \A i \in Incident : view[i] \in Views[i]
    /\ chain = [c \in ChainId |-> Gone]
    /\ stages = [c \in ChainId |-> NoStages]
    /\ pc = "idle"
    /\ snap = Unread
    /\ prior = NoPrior
    /\ left = {}
    /\ fresh = {}
    /\ request = [r \in Request |-> Done]
    /\ late = {}
    /\ crashes = 0

\* The incidents change: by a rebuild of theirs before stitch runs, or in their
\* severity only, by an override at any time.
Change(i, v) ==
    /\ pc = "idle" \/ v = [view[i] EXCEPT !.hot = ~@]
    /\ view' = [view EXCEPT ![i] = v]
    /\ UNCHANGED <<chain, stages, pc, snap, prior, left, fresh, request, late, crashes>>

\* stitch() begins: the incidents, links, alerts and verdicts are read.
ReadIncidents ==
    /\ pc = "idle"
    /\ pc' = "prior"
    /\ snap' = view
    /\ UNCHANGED <<view, chain, stages, prior, left, fresh, request, late, crashes>>

\* The status of the chain whose members are exactly S.
StatusOf(S) ==
    IF \E c \in ChainId : chain[c] # Gone /\ DOMAIN stages[c] = S
    THEN chain[CHOOSE c \in ChainId : chain[c] # Gone /\ DOMAIN stages[c] = S].status
    ELSE "none"

\* The statuses are read, each under its chain's exact set of incidents.
ReadPrior ==
    /\ pc = "prior"
    /\ pc' = "erase"
    /\ prior' = [S \in SUBSET Incident |-> StatusOf(S)]
    /\ UNCHANGED <<view, chain, stages, snap, left, fresh, request, late, crashes>>

\* Mutant: the rows that link chains to incidents stay.
EraseChains ==
    /\ pc = "erase"
    /\ pc' = "write"
    /\ chain' = [c \in ChainId |-> Gone]
    /\ left' = Groups(snap)
    /\ late' = {}
    /\ UNCHANGED <<view, stages, snap, prior, fresh, request, crashes>>

\* Every chain and its rows are deleted, and that is committed.
Erase ==
    /\ pc = "erase"
    /\ pc' = "write"
    /\ chain' = [c \in ChainId |-> Gone]
    /\ stages' = [c \in ChainId |-> NoStages]
    /\ left' = Groups(snap)
    /\ late' = {}
    /\ UNCHANGED <<view, snap, prior, fresh, request, crashes>>

\* SQLite's next row id: one more than the largest in use.
NextId(c) == \A d \in ChainId : (d < c) <=> (chain[d] # Gone)

\* Groups are written in the order of their lowest incident.
WritesNext(g) == g \in left /\ \E i \in g : \A j \in UNION left : i <= j

\* Mutant: a rebuilt chain is open.
InsertOpen(g, c) ==
    /\ pc = "write" /\ WritesNext(g) /\ NextId(c)
    /\ pc' = "link"
    /\ chain' = [chain EXCEPT ![c] = [status |-> "open", level |-> Confidence(snap, g)]]
    /\ fresh' = g
    /\ UNCHANGED <<view, stages, snap, prior, left, request, late, crashes>>

\* The chain is committed, with the status its set of incidents had, before its
\* links are.
InsertChain(g, c) ==
    /\ pc = "write" /\ WritesNext(g) /\ NextId(c)
    /\ pc' = "link"
    /\ chain' = [chain EXCEPT ![c] =
                    [status |-> IF prior[g] = "none" THEN "open" ELSE prior[g],
                     level |-> Confidence(snap, g)]]
    /\ fresh' = g
    /\ UNCHANGED <<view, stages, snap, prior, left, request, late, crashes>>

LastId(c) == \A d \in ChainId : (d <= c) <=> (chain[d] # Gone)

LinkChain(c) ==
    /\ pc = "link" /\ LastId(c)
    /\ pc' = "write"
    /\ stages' = [stages EXCEPT ![c] = StageOrder(snap, fresh)]
    /\ left' = left \ {fresh}
    /\ fresh' = {}
    /\ UNCHANGED <<view, chain, snap, prior, request, late, crashes>>

Forget ==
    /\ pc' = "idle"
    /\ snap' = Unread
    /\ prior' = NoPrior
    /\ left' = {}
    /\ fresh' = {}
    /\ late' = {}
    /\ UNCHANGED <<view, chain, stages, request>>

PassComplete == pc = "write" /\ left = {}

Finish == PassComplete /\ Forget /\ UNCHANGED crashes

\* The process dies, or a database error ends the cycle: what was committed stays.
Crash == pc # "idle" /\ crashes < MaxCrash /\ crashes' = crashes + 1 /\ Forget

\* POST /chains/{id}/status, from a page of any age: the row is loaded.  (With no
\* such row the answer is 404.)
LoadChain(r, c, st) ==
    /\ request[r].at = "done"
    /\ chain[c] # Gone
    /\ request' = [request EXCEPT ![r] =
                      [at |-> "save", id |-> c, choice |-> st, loaded |-> chain[c].status]]
    /\ UNCHANGED <<view, chain, stages, pc, snap, prior, left, fresh, late, crashes>>

\* The commit.  Nothing is written if the status is the one loaded; if the row is
\* gone the UPDATE matches none and the request fails.
SaveStatus(r) ==
    LET c == request[r].id
        writes == request[r].choice # request[r].loaded /\ chain[c] # Gone
    IN  /\ request[r].at = "save"
        /\ chain' = IF writes THEN [chain EXCEPT ![c].status = request[r].choice] ELSE chain
        /\ late' = IF writes /\ pc = "erase" THEN late \cup {DOMAIN stages[c]} ELSE late
        /\ request' = [request EXCEPT ![r] = Done]
        /\ UNCHANGED <<view, stages, pc, snap, prior, left, fresh, crashes>>

Next ==
    \/ \E i \in Incident : \E v \in Views[i] : Change(i, v)
    \/ ReadIncidents
    \/ ReadPrior
    \/ Erase
    \/ \E g \in left, c \in ChainId : InsertChain(g, c)
    \/ \E c \in ChainId : LinkChain(c)
    \/ Finish
    \/ Crash
    \/ \E r \in Request, c \in ChainId, st \in Status : LoadChain(r, c, st)
    \/ \E r \in Request : SaveStatus(r)

Spec == Init /\ [][Next]_vars

----
\* The type invariant.
TypeOK ==
    /\ {view, snap} \subseteq [Incident -> View]
    /\ chain \in [ChainId -> {Gone} \cup [status : Status, level : 0..2]]
    /\ \A c \in ChainId :
        /\ DOMAIN stages[c] \subseteq Incident
        /\ \A i \in DOMAIN stages[c] : stages[c][i] \in 0..(Cardinality(DOMAIN stages[c]) - 1)
    /\ pc \in {"idle", "prior", "erase", "write", "link"}
    /\ prior \in [SUBSET Incident -> Status \cup {"none"}]
    /\ left \subseteq SUBSET Incident
    /\ fresh \in IF pc = "link" THEN left ELSE {{}}
    /\ DOMAIN request = Request
    /\ \A r \in Request : request[r] = Done
                          \/ request[r] \in [at : {"save"}, id : ChainId, choice : Status, loaded : Status]
    /\ late \subseteq SUBSET Incident
    /\ crashes \in 0..MaxCrash

\* At every commit, also one the rebuild dies after, no incident is in two chains:
\* the chains of two rebuilds never mix, although their ids coincide.
EachIncidentOnce ==
    \A c, d \in ChainId : c # d => DOMAIN stages[c] \cap DOMAIN stages[d] = {}

\* A completed rebuild has put linked incidents in one chain, and no chain falls
\* into two parts without a link between them.
PassExact ==
    PassComplete =>
        /\ \A i, j \in Candidates(snap) : i # j /\ Linked(snap, i, j) =>
            \E c \in ChainId : chain[c] # Gone /\ {i, j} \subseteq DOMAIN stages[c]
        /\ \A c \in ChainId : \A S \in (SUBSET DOMAIN stages[c]) \ {{}, DOMAIN stages[c]} :
            \E i \in S, j \in DOMAIN stages[c] \ S : Linked(snap, i, j)

\* What a set of incidents counts as, in the tables and in the rebuild's memory.
Board(S) ==
    IF pc = "link" /\ S = fresh
    THEN chain[CHOOSE c \in ChainId : LastId(c)].status
    ELSE IF StatusOf(S) = "none" THEN prior[S] ELSE StatusOf(S)

\* An analyst's call on a chain is lost only if a rebuild dies, if its incidents
\* are no longer exactly a chain, or if it came between the rebuild's reading the
\* statuses and its deleting the chains.
CallsKept ==
    [][\A S \in (SUBSET Incident) \ {{}} :
            Board(S) # "none" /\ Board(S)' # Board(S) =>
                \/ crashes' > crashes
                \/ request' # request
                \/ S \in late
                \/ PassComplete /\ S \notin Groups(snap)]_vars

\* High confidence means that every two successive stages are linked directly, not
\* only through another incident or across a gap that alone would not link.
HighIsDirect ==
    pc = "write" =>
        \A c \in ChainId : chain[c].level = 2 =>
            \A i, j \in DOMAIN stages[c] :
                Adjacent(stages[c], i, j) => Linked(snap, i, j)
====
