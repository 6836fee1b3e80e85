---- MODULE IncidentDesk_proofs ----
(***************************************************************************)
(* First, the groups partition the stored alerts, and storing more alerts  *)
(* only ever joins groups: a group is the least closed set, and the        *)
(* complement of a group is closed as well.  Then, the rebuild keeps       *)
(* RebuildInv whatever requests do beside it and wherever it dies; from it *)
(* follow PassPartitions, the ledger refinement, the action properties on  *)
(* links, tasks and overlaps, and, with rebuilds and requests one at a     *)
(* time, what the severities and the tasks then are.                       *)
(***************************************************************************)
EXTENDS IncidentDesk, FiniteSetTheorems, TLAPS


\* An alert is in its own group, and its group holds stored alerts only.
LEMMA GroupBasics ==
    ASSUME NEW S, NEW a \in S
    PROVE  a \in Group(a, S) /\ Group(a, S) \subseteq S
BY DEF Group

\* A group is closed: no stored alert outside is linked to one inside.
LEMMA GroupClosed ==
    ASSUME NEW S, NEW a \in S
    PROVE  Closed(Group(a, S), S)
BY DEF Group, Closed

\* The link relation of group_alerts does not depend on the order of the pair.
LEMMA LinkedSymmetric ==
    ASSUME NEW a, NEW b, Linked(a, b)
    PROVE  Linked(b, a)
BY DEF Linked

\* Everything closed that holds a holds a's group.
LEMMA GroupLeast ==
    ASSUME NEW S, NEW a \in S, NEW C \in SUBSET S, a \in C, Closed(C, S)
    PROVE  Group(a, S) \subseteq C
BY DEF Group

\* Membership is symmetric: were a outside b's group, the complement of that
\* group would be a closed set with a in it and b outside.
LEMMA GroupSymmetric ==
    ASSUME NEW S, NEW a \in S, NEW b \in Group(a, S)
    PROVE  a \in Group(b, S)
<1> DEFINE Rest == S \ Group(b, S)
<1>1. b \in S
  BY GroupBasics
<1>2. Closed(Group(b, S), S)
  BY <1>1, GroupClosed
<1>3. Closed(Rest, S)
  BY <1>2, LinkedSymmetric, GroupBasics, <1>1 DEF Closed
<1>4. b \notin Rest
  BY <1>1, GroupBasics
<1>5. a \notin Rest
  <2>1. SUFFICES ASSUME a \in Rest PROVE FALSE
    OBVIOUS
  <2>2. Group(a, S) \subseteq Rest
    BY <2>1, <1>3, GroupLeast
  <2>3. QED
    BY <2>2, <1>4
<1>6. QED
  BY <1>5

\* The alerts of a group all have that group.
LEMMA GroupOfMember ==
    ASSUME NEW S, NEW a \in S, NEW b \in Group(a, S)
    PROVE  Group(b, S) = Group(a, S)
<1>1. b \in S /\ a \in Group(b, S)
  BY GroupBasics, GroupSymmetric
<1>2. Group(b, S) \subseteq Group(a, S)
  BY <1>1, GroupLeast, GroupClosed, GroupBasics
<1>3. Group(a, S) \subseteq Group(b, S)
  BY <1>1, GroupLeast, GroupClosed, GroupBasics
<1>4. QED
  BY <1>2, <1>3

\* group_alerts puts every stored alert in exactly one group.
THEOREM GroupsPartition ==
    ASSUME NEW S
    PROVE  /\ UNION Groups(S) = S
           /\ \A g \in Groups(S) : g # {}
           /\ \A g, h \in Groups(S) : g \cap h # {} => g = h
<1>1. UNION Groups(S) = S
  BY GroupBasics DEF Groups
<1>2. ASSUME NEW g \in Groups(S) PROVE g # {}
  BY GroupBasics DEF Groups
<1>3. ASSUME NEW g \in Groups(S), NEW h \in Groups(S), NEW x \in g \cap h
      PROVE  g = h
  <2>1. PICK a \in S : g = Group(a, S)
    BY DEF Groups
  <2>2. PICK b \in S : h = Group(b, S)
    BY DEF Groups
  <2>3. Group(x, S) = g /\ Group(x, S) = h
    BY <2>1, <2>2, GroupOfMember
  <2>4. QED
    BY <2>3
<1>4. QED
  BY <1>1, <1>2, <1>3

\* A group of the alerts S is the group of each of its members.
LEMMA GroupsByMember ==
    ASSUME NEW S, NEW g \in Groups(S), NEW a \in g
    PROVE  a \in S /\ g = Group(a, S)
<1>1. PICK b \in S : g = Group(b, S)
  BY DEF Groups
<1>2. QED
  BY <1>1, GroupBasics, GroupOfMember

\* A new alert never takes alerts apart: groups only grow and join, so an
\* incident that was one group stays inside one group for ever.
THEOREM GroupsMonotone ==
    ASSUME NEW T, NEW S \in SUBSET T, NEW a \in S
    PROVE  Group(a, S) \subseteq Group(a, T)
<1> SUFFICES ASSUME NEW b \in Group(a, S), NEW C \in SUBSET T, a \in C, Closed(C, T)
             PROVE  b \in C
  BY GroupBasics DEF Group
<1>1. Closed(C \cap S, S)
  BY DEF Closed
<1>2. Group(a, S) \subseteq C \cap S
  BY <1>1, GroupLeast
<1>3. QED
  BY <1>2

----
\* An incident's alerts overlap one group at most, and lie in it.
LEMMA RelatedInOneGroup ==
    ASSUME NEW links \in [Incident -> SUBSET Alert], NEW S, Related(links, S),
           NEW i \in Incident, NEW g \in Groups(S), links[i] \cap g # {}
    PROVE  links[i] \subseteq g
<1>1. PICK a \in links[i] : a \in g
  OBVIOUS
<1>2. g = Group(a, S)
  BY <1>1, GroupsByMember
<1>3. QED
  BY <1>1, <1>2 DEF Related

\* Storing alerts keeps an incident's alerts related.
LEMMA RelatedMonotone ==
    ASSUME NEW links \in [Incident -> SUBSET Alert], NEW T, NEW S \in SUBSET T, Related(links, S)
    PROVE  Related(links, T)
<1> SUFFICES ASSUME NEW i \in Incident, NEW a \in links[i]
             PROVE  links[i] \subseteq Group(a, T)
  BY DEF Related
<1>1. links[i] \subseteq Group(a, S)
  BY DEF Related
<1>2. a \in S
  BY <1>1 DEF Group
<1>3. QED
  BY <1>1, <1>2, GroupsMonotone

\* What the loop over the groups leaves in owner: a matching that is one to one
\* and leaves no overlapping group without an incident.
LEMMA MatchingFacts ==
    ASSUME NEW links \in [Incident -> SUBSET Alert], NEW S, Related(links, S),
           NEW m \in Matchings(Groups(S), links)
    PROVE  /\ m \in [Groups(S) -> Incident \cup {None}]
           /\ \A g \in Groups(S) : m[g] # None => m[g] \in Incident /\ links[m[g]] \cap g # {}
           /\ \A g, h \in Groups(S) : m[g] # None /\ m[g] = m[h] => g = h
           /\ \A g \in Groups(S), i \in Incident : links[i] \cap g # {} => m[g] # None
<1> DEFINE Free(o, g) == {i \in Incident :
                            /\ links[i] \cap g # {}
                            /\ \A h \in Groups(S) : o[h] < o[g] => m[h] # i}
<1>1. m \in [Groups(S) -> Incident \cup {None}]
  BY DEF Matchings
<1>2. PICK o \in ClaimOrders(Groups(S)) : \A g \in Groups(S) :
        IF Free(o, g) = {} THEN m[g] = None ELSE BestOverlap(m[g], Free(o, g), g, links)
  BY DEF Matchings
<1>3. ASSUME NEW g \in Groups(S), m[g] # None
      PROVE  m[g] \in Incident /\ links[m[g]] \cap g # {}
  <2>1. m[g] \in Free(o, g)
    BY <1>2, <1>3 DEF BestOverlap
  <2>2. QED
    BY <2>1
<1>4. ASSUME NEW g \in Groups(S), NEW h \in Groups(S), m[g] # None, m[g] = m[h]
      PROVE  g = h
  <2>1. links[m[g]] \cap g # {} /\ links[m[g]] \cap h # {} /\ m[g] \in Incident
    BY <1>3, <1>4
  <2>2. links[m[g]] \subseteq g /\ links[m[g]] \subseteq h
    BY <2>1, RelatedInOneGroup
  <2>3. g \cap h # {}
    BY <2>1, <2>2
  <2>4. QED
    BY <2>3, GroupsPartition
<1>5. ASSUME NEW g \in Groups(S), NEW i \in Incident, links[i] \cap g # {}, m[g] = None
      PROVE  FALSE
  <2>1. Free(o, g) = {}
    <3>1. None \notin Free(o, g)
      BY IncidentBounds
    <3>2. QED
      BY <1>2, <1>5, <3>1 DEF BestOverlap
  <2>2. PICK h \in Groups(S) : o[h] < o[g] /\ m[h] = i
    BY <2>1, <1>5
  <2>3. links[i] \cap h # {}
    BY <1>3, <2>2, IncidentBounds
  <2>4. links[i] \subseteq g /\ links[i] \subseteq h
    BY <1>5, <2>3, RelatedInOneGroup
  <2>5. g = h
    BY <1>5, <2>4, GroupsPartition
  <2>6. o[g] \in Int
    <3>1. o \in [Groups(S) -> 1..Cardinality(Groups(S))]
      BY DEF ClaimOrders, Bijection, Injection
    <3>2. QED
      BY <3>1
  <2>7. QED
    BY <2>2, <2>5, <2>6
<1>6. QED
  BY <1>1, <1>3, <1>4, <1>5

----
\* The variables RebuildInv speaks of.
rebuildVars == <<alerts, status, members, pc, seen, book, owner, home, fresh, sweep>>

LEMMA InitRebuildInv == DeskInit => RebuildInv
BY DEF DeskInit, CorrInit, RebuildInv, RebuildShape, OnlyOpenLinked, Related,
       NothingSeen, EmptyBook, NoGroups

LEMMA StutterRebuildInv == RebuildInv /\ UNCHANGED rebuildVars => RebuildInv'
BY DEF rebuildVars, RebuildInv, RebuildShape, OnlyOpenLinked, Related,
       Matched, Placed, Remaining, Survivors

\* No request touches what the rebuild keeps.
LEMMA RequestsKeep ==
    ASSUME NEW r \in Request, RequestNext(r)
    PROVE  UNCHANGED <<rebuildVars, moved>>
BY DEF RequestNext, BeginRequest, ContinueRequest, BeginOverride, RecordOverride,
       LoadIncident, ComputeSeverity, SaveSeverity, OpenPage, ReadTitles, ProposeTasks, RequestFails,
       rebuildVars, corrVars, tables, locals

LEMMA IngestInv ==
    ASSUME RebuildInv, NEW a \in Alert, Ingest(a)
    PROVE  RebuildInv'
<1> USE DEF Ingest, locals
<1>1. RebuildShape'
  BY DEF RebuildInv, RebuildShape
<1>2. OnlyOpenLinked'
  BY DEF RebuildInv, OnlyOpenLinked
<1>3. Related(members', IF pc' = "idle" THEN alerts' ELSE seen'.alerts)
  <2>1. CASE pc = "idle"
    BY <2>1, RelatedMonotone DEF RebuildInv, RebuildShape
  <2>2. CASE pc # "idle"
    BY <2>2 DEF RebuildInv
  <2>3. QED
    BY <2>1, <2>2
<1>4. pc' \in {"write", "link"} => Matched' /\ Placed' /\ Remaining'
  BY DEF RebuildInv, Matched, Placed, Remaining, Survivors, Related
<1>5. QED
  BY <1>1, <1>2, <1>3, <1>4 DEF RebuildInv, Related

LEMMA ReadAlertsInv ==
    ASSUME RebuildInv, ReadAlerts
    PROVE  RebuildInv'
BY DEF ReadAlerts, tables, RebuildInv, RebuildShape, OnlyOpenLinked, Related

LEMMA ReadIncidentsInv ==
    ASSUME RebuildInv, ReadIncidents
    PROVE  RebuildInv'
<1> USE DEF ReadIncidents, tables
<1>1. members \in [Incident -> SUBSET Alert] /\ Related(members, seen.alerts)
  BY DEF RebuildInv, RebuildShape
<1>2. /\ owner' \in [Groups(seen.alerts) -> Incident \cup {None}]
      /\ \A g \in Groups(seen.alerts) :
            owner'[g] # None => owner'[g] \in Incident /\ members[owner'[g]] \cap g # {}
      /\ \A g, h \in Groups(seen.alerts) : owner'[g] # None /\ owner'[g] = owner'[h] => g = h
      /\ \A g \in Groups(seen.alerts), i \in Incident :
            members[i] \cap g # {} => owner'[g] # None
  BY <1>1, MatchingFacts
<1>3. home' = [g \in Groups(seen.alerts) |-> None]
  OBVIOUS
<1>4. RebuildShape'
  BY <1>2, <1>3 DEF RebuildInv, RebuildShape
<1>5. OnlyOpenLinked'
  BY DEF RebuildInv, OnlyOpenLinked
<1>6. Related(members, seen.alerts)'
  BY <1>1 DEF Related
<1>7. Matched'
  <2>1. Related(book.links, seen.alerts)'
    BY <1>1 DEF Related
  <2>2. ASSUME NEW g \in Groups(seen.alerts), owner'[g] # None
        PROVE  owner'[g] \in sweep' /\ status'[owner'[g]] = "open"
    BY <1>2, <2>2 DEF RebuildInv, OnlyOpenLinked
  <2>3. QED
    BY <1>2, <1>3, <2>1, <2>2 DEF Matched
<1>8. Placed'
  BY <1>3 DEF Placed
<1>9. Remaining'
  BY DEF Remaining, RebuildInv, RebuildShape, OnlyOpenLinked
<1>10. QED
  BY <1>4, <1>5, <1>6, <1>7, <1>8, <1>9 DEF RebuildInv, Related

\* A matched group is written over the alerts its incident had, all of its own.
LEMMA OwnerBeforeUpdate ==
    ASSUME RebuildInv, NEW g \in DOMAIN home, pc = "write", home[g] = None, owner[g] # None
    PROVE  /\ owner[g] \in Incident \ Survivors
           /\ status[owner[g]] = "open"
           /\ members[owner[g]] # {}
           /\ members[owner[g]] \subseteq g
<1>1. owner[g] \in Incident /\ owner[g] \in sweep /\ status[owner[g]] = "open"
      /\ book.links[owner[g]] \cap g # {}
  BY DEF RebuildInv, RebuildShape, Matched
<1>2. owner[g] \notin Survivors
  BY <1>1 DEF RebuildInv, Placed, Survivors
<1>3. members[owner[g]] = book.links[owner[g]]
  BY <1>1, <1>2 DEF RebuildInv, Remaining
<1>4. book.links[owner[g]] \subseteq g
  BY <1>1, RelatedInOneGroup DEF RebuildInv, RebuildShape, Matched
<1>5. QED
  BY <1>1, <1>2, <1>3, <1>4

LEMMA UpdateIncidentInv ==
    ASSUME RebuildInv, NEW g \in DOMAIN home, UpdateIncident(g)
    PROVE  RebuildInv'
<1> USE DEF UpdateIncident, WritesNext, Unwritten
<1> DEFINE i == owner[g]
<1>1. /\ i \in Incident \ Survivors
      /\ status[i] = "open"
      /\ members[i] # {}
      /\ members[i] \subseteq g
  BY OwnerBeforeUpdate
<1>2. g \in Groups(seen.alerts) /\ g \subseteq Alert /\ g # {}
  BY GroupsPartition DEF RebuildInv, RebuildShape
<1>3. RebuildShape'
  BY <1>1, <1>2 DEF RebuildInv, RebuildShape
<1>4. OnlyOpenLinked'
  BY <1>1, <1>2 DEF RebuildInv, RebuildShape, OnlyOpenLinked
<1>5. Related(members', seen.alerts)
  BY <1>1, <1>2, GroupsByMember DEF RebuildInv, RebuildShape, Related
<1>6. Matched'
  BY DEF RebuildInv, RebuildShape, Matched, Related
<1>7. Survivors' = Survivors \cup {i} \/ Survivors' = (Survivors \ {None}) \cup {i}
  BY DEF Survivors, RebuildInv, RebuildShape
<1>8. Placed'
  <2>1. ASSUME NEW h \in DOMAIN home, home[h] # None
        PROVE  home[h] # i /\ h # g /\ owner[h] # i
    BY <2>1, <1>1, IncidentBounds DEF Survivors, RebuildInv, RebuildShape, Matched, Placed
  <2>2. QED
    BY <1>1, <2>1 DEF RebuildInv, RebuildShape, Matched, Placed
<1>9. Remaining'
  BY <1>1, <1>7, IncidentBounds DEF RebuildInv, RebuildShape, Remaining
<1>10. QED
  BY <1>3, <1>4, <1>5, <1>6, <1>8, <1>9 DEF RebuildInv, Related

LEMMA InsertIncidentInv ==
    ASSUME RebuildInv, NEW g \in DOMAIN home, NEW i \in Incident, InsertIncident(g, i)
    PROVE  RebuildInv'
<1> USE DEF InsertIncident, WritesNext, Unwritten
<1>1. members[i] = {}
  BY DEF RebuildInv, OnlyOpenLinked
<1>2. g \in Groups(seen.alerts) /\ g # {}
  BY GroupsPartition DEF RebuildInv, RebuildShape
<1>3. i \notin Survivors /\ \A h \in DOMAIN home : owner[h] # i
  BY IncidentBounds DEF RebuildInv, RebuildShape, Matched, Placed, Survivors
<1>4. RebuildShape'
  BY IncidentBounds DEF RebuildInv, RebuildShape
<1>5. OnlyOpenLinked'
  BY DEF RebuildInv, RebuildShape, OnlyOpenLinked
<1>6. Related(members', seen'.alerts)
  BY DEF RebuildInv, Related
<1>7. Matched'
  BY DEF RebuildInv, RebuildShape, Matched, Related
<1>8. Placed'
  <2>1. ASSUME NEW h \in DOMAIN home, home[h] # None
        PROVE  home[h] # i /\ h # g
    BY <2>1, <1>3 DEF Survivors, RebuildInv, RebuildShape
  <2>2. /\ home' \in [DOMAIN home -> Incident \cup {None}] /\ home'[g] = i
        /\ \A h \in DOMAIN home : h # g => home'[h] = home[h]
        /\ owner' = owner /\ owner[g] = None /\ pc' = "link" /\ fresh' = g
    BY DEF RebuildInv, RebuildShape
  <2>3. ASSUME NEW h \in DOMAIN home, home'[h] # None
        PROVE  /\ status'[home'[h]] = "open"
               /\ members'[home'[h]] = IF h = g THEN {} ELSE h
               /\ owner[h] \in {None, home'[h]}
    BY <1>1, <2>1, <2>2, <2>3 DEF RebuildInv, RebuildShape, Placed
  <2>4. ASSUME NEW h \in DOMAIN home, NEW k \in DOMAIN home,
               home'[h] # None, home'[h] \in {home'[k], owner[k]}
        PROVE  h = k
    BY <1>3, <2>1, <2>2, <2>4, IncidentBounds DEF RebuildInv, RebuildShape, Placed
  <2>5. QED
    BY <2>2, <2>3, <2>4 DEF Placed
<1>9. Remaining'
  <2>1. Survivors \ {None} \subseteq Survivors' /\ i \in Survivors'
    BY DEF Survivors, RebuildInv, RebuildShape
  <2>2. QED
    BY <1>1, <2>1, IncidentBounds DEF RebuildInv, RebuildShape, Remaining
<1>10. QED
  BY <1>4, <1>5, <1>6, <1>7, <1>8, <1>9 DEF RebuildInv, Related

LEMMA LinkIncidentInv ==
    ASSUME RebuildInv, LinkIncident
    PROVE  RebuildInv'
<1> USE DEF LinkIncident
<1> DEFINE i == home[fresh]
<1>1. /\ fresh \in Groups(seen.alerts) /\ fresh # {} /\ fresh \subseteq Alert
      /\ i \in Incident /\ i \in Survivors
      /\ status[i] = "open"
      /\ members[i] = {}
  BY GroupsPartition DEF RebuildInv, RebuildShape, Placed, Survivors
<1>2. RebuildShape'
  BY <1>1 DEF RebuildInv, RebuildShape
<1>3. OnlyOpenLinked'
  BY <1>1 DEF RebuildInv, RebuildShape, OnlyOpenLinked
<1>4. Related(members', seen.alerts)
  BY <1>1, GroupsByMember DEF RebuildInv, RebuildShape, Related
<1>5. Matched'
  BY DEF RebuildInv, RebuildShape, Matched, Related
<1>6. Placed'
  <2>1. ASSUME NEW h \in DOMAIN home, home[h] # None
        PROVE  members'[home[h]] = h
    BY <2>1, <1>1 DEF RebuildInv, RebuildShape, Placed
  <2>2. QED
    BY <2>1 DEF RebuildInv, RebuildShape, Placed
<1>7. Remaining'
  <2>1. Survivors' = Survivors
    BY DEF Survivors
  <2>2. QED
    BY <1>1, <2>1 DEF RebuildInv, RebuildShape, Remaining
<1>8. QED
  BY <1>2, <1>3, <1>4, <1>5, <1>6, <1>7 DEF RebuildInv, Related

\* What is retired was no group's incident, and others hold all its alerts.
LEMMA RetiredHandedOver ==
    ASSUME RebuildInv, NEW i \in Incident, pc = "write", Unwritten = {}, i \in Retiring,
           NEW a \in members[i]
    PROVE  \E g \in DOMAIN home :
                /\ home[g] \in Incident \ {i}
                /\ status[home[g]] = "open"
                /\ a \in members[home[g]]
<1>1. i \in sweep /\ i \notin Survivors
  BY DEF Retiring
<1>2. members[i] = book.links[i]
  BY <1>1 DEF RebuildInv, Remaining
<1>3. a \in Group(a, seen.alerts) /\ a \in seen.alerts
  BY GroupBasics DEF RebuildInv, Related, Group
<1>4. Group(a, seen.alerts) \in DOMAIN home
  BY <1>3 DEF RebuildInv, RebuildShape, Groups
<1> DEFINE g == Group(a, seen.alerts)
<1>5. home[g] # None
  BY <1>4 DEF Unwritten
<1>6. home[g] \in Incident /\ home[g] # i
  BY <1>1, <1>4, <1>5 DEF RebuildInv, RebuildShape, Survivors
<1>7. status[home[g]] = "open" /\ members[home[g]] = g
  BY <1>4, <1>5 DEF RebuildInv, Placed
<1>8. QED
  BY <1>3, <1>4, <1>6, <1>7

LEMMA RetireIncidentInv ==
    ASSUME RebuildInv, NEW i \in Incident, RetireIncident(i)
    PROVE  RebuildInv'
<1> USE DEF RetireIncident, RetiresNext
<1>1. i \in sweep /\ i \notin Survivors
  BY DEF Retiring
<1>2. \A g \in DOMAIN home : home[g] # None /\ home[g] # i /\ owner[g] # i
  BY <1>1, IncidentBounds DEF Unwritten, Survivors, RebuildInv, Placed
<1>3. Survivors' = Survivors
  BY DEF Survivors
<1>4. RebuildShape'
  BY DEF RebuildInv, RebuildShape
<1>5. OnlyOpenLinked'
  BY DEF RebuildInv, RebuildShape, OnlyOpenLinked
<1>6. Related(members', seen'.alerts)
  BY DEF RebuildInv, RebuildShape, Related
<1>7. Matched'
  BY <1>2 DEF RebuildInv, RebuildShape, Matched, Related
<1>8. Placed'
  BY <1>2 DEF RebuildInv, RebuildShape, Placed
<1>9. Remaining'
  BY <1>1, <1>3 DEF RebuildInv, RebuildShape, Remaining
<1>10. QED
  BY <1>4, <1>5, <1>6, <1>7, <1>8, <1>9 DEF RebuildInv, Related

\* The end of a rebuild, regular or not, forgets what it had read.
LEMMA ForgetInv ==
    ASSUME RebuildInv, Forget, UNCHANGED tables, pc # "idle"
    PROVE  RebuildInv'
<1> USE DEF Forget, tables
<1>1. Related(members, alerts)
  BY RelatedMonotone DEF RebuildInv, RebuildShape
<1>2. RebuildShape'
  BY DEF RebuildInv, RebuildShape, NothingSeen, EmptyBook, NoGroups
<1>3. OnlyOpenLinked'
  BY DEF RebuildInv, OnlyOpenLinked
<1>4. QED
  BY <1>1, <1>2, <1>3 DEF RebuildInv, Related

\* One step of anything keeps the invariant.
LEMMA NextRebuildInv == RebuildInv /\ [Next]_vars => RebuildInv'
<1> SUFFICES ASSUME RebuildInv, [Next]_vars PROVE RebuildInv'
  OBVIOUS
<1>1. ASSUME NEW a \in Alert, Ingest(a) PROVE RebuildInv'
  BY <1>1, IngestInv
<1>2. ASSUME NEW a \in Alert, NEW v \in ModelVerdict, Triage(a, v) PROVE RebuildInv'
  BY <1>2, StutterRebuildInv DEF Triage, rebuildVars, locals
<1>3. ASSUME Rebuild PROVE RebuildInv'
  <2>1. CASE ReadAlerts
    BY <2>1, ReadAlertsInv
  <2>2. CASE ReadIncidents
    BY <2>2, ReadIncidentsInv
  <2>3. ASSUME NEW g \in DOMAIN home, UpdateIncident(g) PROVE RebuildInv'
    BY <2>3, UpdateIncidentInv
  <2>4. ASSUME NEW g \in DOMAIN home, NEW i \in Incident, InsertIncident(g, i)
        PROVE  RebuildInv'
    BY <2>4, InsertIncidentInv
  <2>5. CASE LinkIncident
    BY <2>5, LinkIncidentInv
  <2>6. ASSUME NEW i \in Incident, RetireIncident(i) PROVE RebuildInv'
    BY <2>6, RetireIncidentInv
  <2>7. CASE ReturnSurvivors
    BY <2>7, ForgetInv DEF ReturnSurvivors, PassComplete
  <2>8. CASE AbortPass
    BY <2>8, ForgetInv DEF AbortPass
  <2>9. ASSUME NEW i \in Incident, ReadTasks(i) PROVE RebuildInv'
    BY <2>9, StutterRebuildInv DEF ReadTasks, tables, rebuildVars
  <2>10. QED
    BY <1>3, <2>1, <2>2, <2>3, <2>4, <2>5, <2>6, <2>7, <2>8, <2>9 DEF Rebuild
<1>4. ASSUME NEW r \in Request, RequestNext(r) PROVE RebuildInv'
  BY <1>4, RequestsKeep, StutterRebuildInv
<1>5. CASE UNCHANGED vars
  BY <1>5, StutterRebuildInv DEF vars, corrVars, tables, locals, rebuildVars
<1>6. QED
  BY <1>1, <1>2, <1>3, <1>4, <1>5 DEF Next

\* The inductive invariant holds throughout, for any alerts, links, incidents,
\* requests and interleaving of them with the rebuild and its crashes.
THEOREM RebuildInvariant == Spec => []RebuildInv
<1>1. DeskInit => RebuildInv
  BY InitRebuildInv
<1>2. RebuildInv /\ [Next]_vars => RebuildInv'
  BY NextRebuildInv
<1>3. QED
  BY <1>1, <1>2, PTL DEF Spec

\* correlate(): when it returns, every alert it read is in exactly one incident
\* and the incidents with alerts are exactly the groups.
THEOREM RebuildPartitions == Spec => []PassPartitions
<1>1. RebuildInv => PassPartitions
  <2> SUFFICES ASSUME RebuildInv, PassComplete
               PROVE  /\ {members[i] : i \in Incident} \ {{}} = Groups(seen.alerts)
                      /\ \A i, k \in Incident : i # k => members[i] \cap members[k] = {}
                      /\ \A i \in Incident : members[i] # {} => status[i] = "open"
    BY DEF PassPartitions
  <2>1. \A g \in Groups(seen.alerts) : home[g] \in Incident /\ members[home[g]] = g
    BY DEF PassComplete, Unwritten, RebuildInv, RebuildShape, Placed
  <2>2. ASSUME NEW i \in Incident, members[i] # {}
        PROVE  \E g \in Groups(seen.alerts) : home[g] = i /\ members[i] = g
    <3>1. i \in Survivors
      BY <2>2 DEF PassComplete, Retiring, RebuildInv, Remaining
    <3>2. QED
      BY <2>1, <3>1 DEF Survivors, PassComplete, RebuildInv, RebuildShape
  <2>3. {members[i] : i \in Incident} \ {{}} = Groups(seen.alerts)
    BY <2>1, <2>2, GroupsPartition
  <2>4. ASSUME NEW i \in Incident, NEW k \in Incident, members[i] \cap members[k] # {}
        PROVE  i = k
    BY <2>2, <2>4, GroupsPartition
  <2>5. QED
    BY <2>3, <2>4 DEF RebuildInv, OnlyOpenLinked
<1>2. QED
  BY <1>1, RebuildInvariant, PTL

----
\* The ledger groups alerts by the same definition.
LEMMA LedgerGroup ==
    ASSUME NEW S, NEW a
    PROVE  Ledger!Group(a, S) = Group(a, S)
BY DEF Ledger!Group, Ledger!Closed, Ledger!Linked, Group, Closed, Linked

\* The steps of the rebuild that change links or a status, as ledger steps.
LEMMA UpdateGrows ==
    ASSUME RebuildInv, NEW g \in DOMAIN home, UpdateIncident(g)
    PROVE  Ledger!Grow(owner[g], g) /\ owner[g] \in Incident
<1>1. /\ pc = "write" /\ home[g] = None /\ owner[g] # None
      /\ members' = [members EXCEPT ![owner[g]] = g]
      /\ UNCHANGED <<alerts, status>>
  BY DEF UpdateIncident, WritesNext, Unwritten
<1>2. /\ owner[g] \in Incident /\ status[owner[g]] = "open"
      /\ members[owner[g]] \subseteq g /\ members[owner[g]] # {}
  BY <1>1, OwnerBeforeUpdate
<1>3. PICK a \in members[owner[g]] : a \in g
  BY <1>2
<1>4. g = Group(a, seen.alerts) /\ a \in seen.alerts /\ seen.alerts \subseteq alerts
  BY <1>1, <1>3, GroupsByMember DEF RebuildInv, RebuildShape
<1>5. g \subseteq Group(a, alerts)
  BY <1>4, GroupsMonotone
<1>6. QED
  BY <1>1, <1>2, <1>3, <1>5, LedgerGroup DEF Ledger!Grow

LEMMA LinkGrows ==
    ASSUME RebuildInv, LinkIncident
    PROVE  Ledger!Grow(home[fresh], fresh) /\ home[fresh] \in Incident /\ fresh \in SUBSET Alert
<1>1. /\ fresh \in Groups(seen.alerts) /\ home[fresh] \in Incident
      /\ status[home[fresh]] = "open" /\ members[home[fresh]] = {}
      /\ seen.alerts \subseteq alerts /\ alerts \subseteq Alert
  BY DEF LinkIncident, RebuildInv, RebuildShape, Placed
<1>2. PICK a \in fresh : fresh = Group(a, seen.alerts) /\ a \in seen.alerts
  BY <1>1, GroupsPartition, GroupsByMember
<1>3. fresh \subseteq Group(a, alerts)
  BY <1>1, <1>2, GroupsMonotone
<1>4. fresh \subseteq Alert
  BY <1>1, <1>2, GroupBasics
<1>5. QED
  BY <1>1, <1>2, <1>3, <1>4, LedgerGroup DEF LinkIncident, Ledger!Grow

LEMMA RetireHandsOver ==
    ASSUME RebuildInv, NEW i \in Incident, RetireIncident(i)
    PROVE  Ledger!Retire(i)
<1>1. pc = "write" /\ Unwritten = {} /\ i \in Retiring
  BY DEF RetireIncident, RetiresNext
<1>2. \A a \in members[i] :
        \E k \in Incident \ {i} : status[k] = "open" /\ a \in members[k]
  BY <1>1, RetiredHandedOver
<1>3. status[i] # "none"
  BY <1>1 DEF Retiring, RebuildInv, RebuildShape
<1>4. QED
  BY <1>2, <1>3 DEF RetireIncident, Ledger!Retire, Ledger!HandedOver

LEMMA LedgerStep == RebuildInv /\ [Next]_vars => [Ledger!Next]_Ledger!ledger
<1> SUFFICES ASSUME RebuildInv, [Next]_vars PROVE [Ledger!Next]_Ledger!ledger
  OBVIOUS
<1> USE DEF Ledger!Next, Ledger!ledger
<1>1. ASSUME NEW a \in Alert, Ingest(a) PROVE Ledger!Store(a)
  BY <1>1 DEF Ingest, Ledger!Store
<1>2. ASSUME NEW a \in Alert, NEW v \in ModelVerdict, Triage(a, v) PROVE UNCHANGED Ledger!ledger
  BY <1>2 DEF Triage
<1>3. ASSUME Rebuild PROVE [Ledger!Next]_Ledger!ledger
  <2>1. CASE ReadAlerts \/ ReadIncidents \/ ReturnSurvivors \/ AbortPass
    BY <2>1 DEF ReadAlerts, ReadIncidents, ReturnSurvivors, AbortPass, tables
  <2>2. ASSUME NEW g \in DOMAIN home, UpdateIncident(g) PROVE Ledger!Next
    <3>1. g \in SUBSET Alert
      BY <2>2, GroupsPartition DEF UpdateIncident, WritesNext, RebuildInv, RebuildShape
    <3>2. QED
      BY <2>2, <3>1, UpdateGrows
  <2>3. ASSUME NEW g \in DOMAIN home, NEW i \in Incident, InsertIncident(g, i)
        PROVE  Ledger!Open(i)
    BY <2>3 DEF InsertIncident, Ledger!Open
  <2>4. CASE LinkIncident
    BY <2>4, LinkGrows
  <2>5. ASSUME NEW i \in Incident, RetireIncident(i) PROVE Ledger!Retire(i)
    BY <2>5, RetireHandsOver
  <2>6. ASSUME NEW i \in Incident, ReadTasks(i) PROVE UNCHANGED Ledger!ledger
    BY <2>6 DEF ReadTasks, tables
  <2>7. QED
    BY <1>3, <2>1, <2>2, <2>3, <2>4, <2>5, <2>6 DEF Rebuild
<1>4. ASSUME NEW r \in Request, RequestNext(r) PROVE UNCHANGED Ledger!ledger
  BY <1>4, RequestsKeep DEF rebuildVars
<1>5. CASE UNCHANGED vars
  BY <1>5 DEF vars, corrVars, tables
<1>6. QED
  BY <1>1, <1>2, <1>3, <1>4, <1>5 DEF Next

\* The rebuild with its crashes, and every request, implements the ledger.
THEOREM RefinesLedger == Spec => LedgerSpec
<1>1. DeskInit => Ledger!Init
  BY DEF DeskInit, CorrInit, Ledger!Init
<1>2. RebuildInv /\ [Next]_vars => [Ledger!Next]_Ledger!ledger
  BY LedgerStep
<1>3. QED
  BY <1>1, <1>2, RebuildInvariant, PTL DEF Spec, LedgerSpec, Ledger!Spec

\* At every commit, and wherever a rebuild dies, an alert that has an incident
\* keeps one.
THEOREM LinksSurvive == Spec => LinkedStaysLinked
<1>1. RebuildInv /\ [Next]_vars =>
        [UNION {members[i] : i \in Incident} \subseteq UNION {members'[i] : i \in Incident}]_vars
  <2> SUFFICES ASSUME RebuildInv, [Next]_vars, NEW i \in Incident, NEW a \in members[i]
               PROVE  \E k \in Incident : a \in members'[k]
    OBVIOUS
  <2>1. members \in [Incident -> SUBSET Alert]
    BY DEF RebuildInv, RebuildShape
  <2>2. [Ledger!Next]_Ledger!ledger
    BY LedgerStep
  <2>3. ASSUME NEW k \in Incident, Ledger!Retire(k) PROVE \E n \in Incident : a \in members'[n]
    <3>1. CASE i = k
      BY <2>1, <2>3, <3>1 DEF Ledger!Retire, Ledger!HandedOver
    <3>2. CASE i # k
      BY <2>1, <2>3, <3>2 DEF Ledger!Retire
    <3>3. QED
      BY <3>1, <3>2
  <2>4. ASSUME NEW k \in Incident, NEW g, Ledger!Grow(k, g) PROVE a \in members'[i]
    BY <2>1, <2>4 DEF Ledger!Grow
  <2>5. CASE UNCHANGED members
    BY <2>5
  <2>6. QED
    BY <2>2, <2>3, <2>4, <2>5
       DEF Ledger!Next, Ledger!ledger, Ledger!Store, Ledger!Open
<1>2. QED
  BY <1>1, RebuildInvariant, PTL DEF Spec, LinkedStaysLinked

\* A merged incident stays merged and without alerts.
THEOREM MergedStaysMerged == Spec => MergedIsFinal
<1>1. RebuildInv /\ [Next]_vars =>
        [\A i \in Incident : status[i] = "merged" =>
            status'[i] = "merged" /\ members'[i] = {}]_vars
  <2> SUFFICES ASSUME RebuildInv, [Next]_vars, NEW i \in Incident, status[i] = "merged"
               PROVE  status'[i] = "merged" /\ members'[i] = {}
    OBVIOUS
  <2>1. /\ members \in [Incident -> SUBSET Alert]
        /\ status \in [Incident -> {"none", "open", "merged"}]
        /\ members[i] = {}
    BY DEF RebuildInv, RebuildShape, OnlyOpenLinked
  <2>2. [Ledger!Next]_Ledger!ledger
    BY LedgerStep
  <2>3. ASSUME NEW k \in Incident, Ledger!Retire(k) \/ Ledger!Open(k)
        PROVE  status'[i] = "merged" /\ members'[i] = {}
    BY <2>1, <2>3 DEF Ledger!Retire, Ledger!Open
  <2>4. ASSUME NEW k \in Incident, NEW g, Ledger!Grow(k, g)
        PROVE  status'[i] = "merged" /\ members'[i] = {}
    BY <2>1, <2>4 DEF Ledger!Grow
  <2>5. QED
    BY <2>1, <2>2, <2>3, <2>4 DEF Ledger!Next, Ledger!ledger, Ledger!Store
<1>2. QED
  BY <1>1, RebuildInvariant, PTL DEF Spec, MergedIsFinal

----
\* Type correctness: the tables and what every request has in hand.
LEMMA SeverityType ==
    ASSUME NEW g, NEW model, NEW override
    PROVE  SeverityOf(g, model, override) \in Severity
BY DEF SeverityOf, Severity

\* While task rows are read but not moved, they are rows of the incident that is retired
\* next, which may have been given more since.
MovedInv ==
    moved # None =>
        /\ pc = "write" /\ Unwritten = {}
        /\ \A i \in Incident : RetiresNext(i) => \A t \in Title : moved[t] <= tasks[i][t]

LEMMA MoveTasksType ==
    ASSUME TypeOK, MovedInv, NEW i \in Incident, NEW k \in Incident,
           RetiresNext(i), moved # None
    PROVE  MoveTasks(i, k) \in [Incident -> [Title -> Nat]]
<1>1. tasks \in [Incident -> [Title -> Nat]] /\ moved \in [Title -> Nat]
  BY DEF TypeOK
<1>2. [t \in Title |-> tasks[k][t] + moved[t]] \in [Title -> Nat]
  BY <1>1
<1>3. [t \in Title |-> tasks[i][t] - moved[t]] \in [Title -> Nat]
  <2>1. ASSUME NEW t \in Title PROVE tasks[i][t] - moved[t] \in Nat
    <3>1. tasks[i][t] \in Nat /\ moved[t] \in Nat /\ moved[t] <= tasks[i][t]
      BY <1>1 DEF MovedInv
    <3> QED BY <3>1
  <2> QED BY <2>1
<1> QED BY <1>1, <1>2, <1>3 DEF MoveTasks

LEMMA TypeRebuild ==
    ASSUME TypeOK, RebuildInv, MovedInv, Rebuild, UNCHANGED request
    PROVE  TypeOK'
<1>1. RebuildShape'
  BY NextRebuildInv DEF Next, RebuildInv
<1>2. {verdict', analyst', seen'.verdict, seen'.analyst} \subseteq [Alert -> Verdict \cup {None}]
  BY DEF TypeOK, Rebuild, ReadAlerts, ReadIncidents, UpdateIncident, InsertIncident,
         LinkIncident, ReadTasks, RetireIncident, ReturnSurvivors, AbortPass, Forget, tables,
         NothingSeen
<1>3. {severity', book'.severity} \subseteq [Incident -> Severity]
  <2>1. "low" \in Severity
    BY DEF Severity
  <2>2. ASSUME NEW g, UpdateIncident(g) PROVE severity' \in [Incident -> Severity]
    BY <2>2, SeverityType DEF UpdateIncident, TypeOK, SeenSeverity
  <2>3. ASSUME NEW g, NEW i, InsertIncident(g, i) PROVE severity' \in [Incident -> Severity]
    BY <2>3, SeverityType DEF InsertIncident, TypeOK, SeenSeverity
  <2>4. severity' \in [Incident -> Severity]
    <3>1. CASE UNCHANGED severity
      BY <3>1 DEF TypeOK
    <3>2. QED
      BY <2>2, <2>3, <3>1 DEF Rebuild, ReadAlerts, ReadIncidents, LinkIncident, ReadTasks,
         RetireIncident, ReturnSurvivors, AbortPass, tables
  <2>5. book'.severity \in [Incident -> Severity]
    <3>1. CASE UNCHANGED book
      BY <3>1 DEF TypeOK
    <3>2. CASE book' = EmptyBook
      BY <2>1, <3>2 DEF EmptyBook
    <3>3. CASE ReadIncidents
      BY <3>3 DEF ReadIncidents, TypeOK
    <3>4. QED
      BY <3>1, <3>2, <3>3 DEF Rebuild, ReadAlerts, UpdateIncident, InsertIncident, LinkIncident,
         ReadTasks, RetireIncident, ReturnSurvivors, AbortPass, Forget
  <2>6. QED
    BY <2>4, <2>5
<1>4. tasks' \in [Incident -> [Title -> Nat]]
  <2>1. ASSUME NEW i \in Incident, RetireIncident(i) PROVE tasks' \in [Incident -> [Title -> Nat]]
    <3>1. ASSUME NEW g \in DOMAIN owner, FirstAbsorbing(g, i), moved # None,
                 tasks' = MoveTasks(i, owner[g])
          PROVE  tasks' \in [Incident -> [Title -> Nat]]
      <4>1. owner[g] \in Incident
        BY <3>1 DEF FirstAbsorbing, Absorbs, TypeOK, RebuildShape
      <4>2. RetiresNext(i)
        BY <2>1 DEF RetireIncident
      <4>3. QED
        BY <3>1, <4>1, <4>2, MoveTasksType
    <3>2. QED
      BY <2>1, <3>1 DEF RetireIncident, TypeOK
  <2>2. QED
    BY <2>1 DEF TypeOK, Rebuild, ReadAlerts, ReadIncidents, UpdateIncident,
         InsertIncident, LinkIncident, ReadTasks, ReturnSurvivors, AbortPass, tables
<1>5. moved' \in [Title -> Nat] \cup {None}
  BY DEF TypeOK, Rebuild, ReadAlerts, ReadIncidents, UpdateIncident, InsertIncident,
         LinkIncident, ReadTasks, RetireIncident, ReturnSurvivors, AbortPass, Forget
<1>6. QED
  BY <1>1, <1>2, <1>3, <1>4, <1>5 DEF TypeOK

LEMMA TypeRequest ==
    ASSUME TypeOK, RebuildInv, NEW r \in Request, RequestNext(r)
    PROVE  TypeOK'
<1>1. RebuildShape'
  BY NextRebuildInv DEF Next, RebuildInv
<1> USE DEF TypeOK, corrVars, tables, locals, Enter, NoRequest
<1>2. ASSUME NEW a \in Alert, NEW v \in AnalystVerdict, BeginOverride(r, a, v) PROVE TypeOK'
  BY <1>1, <1>2, DeskBounds DEF BeginOverride
<1>3. CASE RecordOverride(r)
  BY <1>1, <1>3 DEF RecordOverride
<1>4. CASE LoadIncident(r)
  BY <1>1, <1>4 DEF LoadIncident
<1>5. CASE ComputeSeverity(r)
  BY <1>1, <1>5, SeverityType DEF ComputeSeverity
<1>6. CASE SaveSeverity(r)
  BY <1>1, <1>6 DEF SaveSeverity
<1>7. ASSUME NEW i \in Incident, OpenPage(r, i) PROVE TypeOK'
  BY <1>1, <1>7 DEF OpenPage
<1>8. CASE ReadTitles(r)
  BY <1>1, <1>8 DEF ReadTitles
<1>9. CASE ProposeTasks(r)
  BY <1>1, <1>9 DEF ProposeTasks
<1>10. CASE RequestFails(r)
  BY <1>1, <1>10 DEF RequestFails
<1>11. QED
  BY <1>2, <1>3, <1>4, <1>5, <1>6, <1>7, <1>8, <1>9, <1>10
  DEF RequestNext, BeginRequest, ContinueRequest

\* Requests only add tasks, and only the loop that retires incidents moves any.
LEMMA MovedStep == TypeOK /\ RebuildInv /\ MovedInv /\ [Next]_vars => MovedInv'
<1> SUFFICES ASSUME TypeOK, RebuildInv, MovedInv, [Next]_vars PROVE MovedInv'
  OBVIOUS
<1>1. CASE moved' = None
  BY <1>1 DEF MovedInv
<1>2. ASSUME UNCHANGED <<pc, home, sweep, moved, tasks>> PROVE MovedInv'
  BY <1>2 DEF MovedInv, RetiresNext, Unwritten, Retiring, Survivors
<1>3. ASSUME NEW r \in Request, RequestNext(r) PROVE MovedInv'
  <2>1. UNCHANGED <<pc, home, sweep, moved>>
    BY <1>3, RequestsKeep DEF rebuildVars
  <2>2. CASE UNCHANGED tasks
    BY <1>2, <2>1, <2>2
  <2>3. CASE ProposeTasks(r)
    <3>1. ASSUME moved # None, NEW i \in Incident, RetiresNext(i), NEW t \in Title
          PROVE  moved[t] <= tasks'[i][t]
      <4>1. tasks[i][t] \in Nat /\ moved[t] \in Nat /\ moved[t] <= tasks[i][t]
        BY <3>1 DEF MovedInv, TypeOK
      <4>2. tasks'[i][t] \in {tasks[i][t], tasks[i][t] + 1}
        BY <2>3 DEF ProposeTasks, TypeOK
      <4> QED BY <4>1, <4>2
    <3>2. moved # None => pc = "write" /\ Unwritten = {}
      BY DEF MovedInv
    <3> QED BY <2>1, <3>1, <3>2 DEF MovedInv, RetiresNext, Unwritten, Retiring, Survivors
  <2> QED BY <1>3, <2>2, <2>3 DEF RequestNext, BeginRequest, ContinueRequest, BeginOverride,
             RecordOverride, LoadIncident, ComputeSeverity, SaveSeverity, OpenPage, ReadTitles,
             RequestFails, corrVars, tables
<1>4. ASSUME NEW i \in Incident, ReadTasks(i) PROVE MovedInv'
  <2>1. /\ moved' = tasks[i] /\ RetiresNext(i)
        /\ UNCHANGED <<pc, home, sweep, tasks>>
    BY <1>4 DEF ReadTasks, tables
  <2>2. \A k \in Incident : RetiresNext(k) => k = i
    BY <2>1 DEF RetiresNext, Incident
  <2>3. \A t \in Title : tasks[i][t] \in Nat
    BY DEF TypeOK
  <2>4. \A t \in Title : tasks[i][t] <= tasks[i][t]
    BY <2>3
  <2> QED BY <2>1, <2>2, <2>4 DEF MovedInv, RetiresNext, Unwritten, Retiring, Survivors
<1>5. ASSUME pc # "write" \/ Unwritten # {}, UNCHANGED moved PROVE MovedInv'
  BY <1>1, <1>5 DEF MovedInv
<1>6. ASSUME NEW g \in DOMAIN home, NEW i \in Incident, InsertIncident(g, i) PROVE MovedInv'
  BY <1>5, <1>6 DEF InsertIncident, WritesNext
<1>7. ASSUME NEW g \in DOMAIN home, UpdateIncident(g) PROVE MovedInv'
  BY <1>5, <1>7 DEF UpdateIncident, WritesNext
<1>8. CASE ReadAlerts \/ ReadIncidents \/ LinkIncident
  BY <1>5, <1>8 DEF ReadAlerts, ReadIncidents, LinkIncident
<1> QED BY <1>1, <1>2, <1>3, <1>4, <1>6, <1>7, <1>8
        DEF Next, Ingest, Triage, Rebuild, RetireIncident, ReturnSurvivors, AbortPass, Forget,
            vars, corrVars, tables, locals

LEMMA TypesAndMoved == Spec => [](TypeOK /\ MovedInv)
<1>1. DeskInit => TypeOK /\ MovedInv
  <2>1. DeskInit => RebuildShape
    BY InitRebuildInv DEF RebuildInv
  <2>2. QED
    BY <2>1 DEF DeskInit, CorrInit, TypeOK, MovedInv, NothingSeen, EmptyBook, NoRequest,
                Severity
<1>2. TypeOK /\ MovedInv /\ RebuildInv /\ [Next]_vars => TypeOK' /\ MovedInv'
  <2> SUFFICES ASSUME TypeOK, MovedInv, RebuildInv, [Next]_vars PROVE TypeOK'
    BY MovedStep
  <2>1. RebuildShape'
    BY NextRebuildInv DEF RebuildInv
  <2>2. ASSUME NEW a \in Alert, Ingest(a), UNCHANGED request PROVE TypeOK'
    BY <2>1, <2>2 DEF Ingest, locals, TypeOK
  <2>3. ASSUME NEW a \in Alert, NEW v \in ModelVerdict, Triage(a, v), UNCHANGED request
        PROVE  TypeOK'
    BY <2>1, <2>3, IncidentBounds DEF Triage, locals, TypeOK
  <2>4. ASSUME Rebuild, UNCHANGED request PROVE TypeOK'
    BY <2>4, TypeRebuild
  <2>5. ASSUME NEW r \in Request, RequestNext(r) PROVE TypeOK'
    BY <2>5, TypeRequest
  <2>6. CASE UNCHANGED vars
    BY <2>1, <2>6 DEF vars, corrVars, tables, locals, TypeOK
  <2>7. QED
    BY <2>2, <2>3, <2>4, <2>5, <2>6 DEF Next
<1>3. QED
  BY <1>1, <1>2, RebuildInvariant, PTL DEF Spec

THEOREM TypeCorrect == Spec => []TypeOK
BY TypesAndMoved, PTL

----
\* When the last loop runs, a group that overlaps an incident is no one's to retire
\* has an incident of its own, which holds all its alerts.
LEMMA RetiredIntoOwner ==
    ASSUME RebuildInv, NEW i \in Incident, pc = "write", Unwritten = {}, i \in Retiring,
           NEW g \in DOMAIN home, book.links[i] \cap g # {}
    PROVE  /\ owner[g] \in Incident \ {i}
           /\ home[g] = owner[g]
           /\ members[owner[g]] = g
           /\ members[i] = book.links[i]
           /\ members[i] \subseteq g
<1>1. i \in sweep /\ i \notin Survivors
  BY DEF Retiring
<1>2. members[i] = book.links[i]
  BY <1>1 DEF RebuildInv, Remaining
<1>3. owner[g] # None /\ home[g] # None
  BY DEF RebuildInv, Matched, Unwritten
<1>4. home[g] = owner[g] /\ members[owner[g]] = g
  BY <1>3 DEF RebuildInv, Placed
<1>5. owner[g] \in Incident \ {i}
  BY <1>1, <1>3, <1>4 DEF RebuildInv, RebuildShape, Survivors
<1>6. book.links[i] \subseteq g
  BY RelatedInOneGroup DEF RebuildInv, RebuildShape, Matched
<1> QED BY <1>2, <1>4, <1>5, <1>6

\* An incident with alerts that is retired overlaps a group.
LEMMA RetiredOverlaps ==
    ASSUME RebuildInv, NEW i \in Incident, pc = "write", i \in Retiring, members[i] # {}
    PROVE  \E g \in DOMAIN home : book.links[i] \cap g # {}
<1>1. members[i] = book.links[i]
  BY DEF Retiring, RebuildInv, Remaining
<1>2. PICK a \in members[i] : TRUE
  OBVIOUS
<1>3. a \in Group(a, seen.alerts) /\ a \in seen.alerts
  BY <1>2, GroupBasics DEF RebuildInv, Related, Group
<1>4. Group(a, seen.alerts) \in DOMAIN home
  BY <1>3 DEF RebuildInv, RebuildShape, Groups
<1> QED BY <1>1, <1>2, <1>3, <1>4

\* Only retiring makes an open incident a merged one.
LEMMA OnlyRetiring ==
    ASSUME RebuildInv, [Next]_vars, NEW i \in Incident, status[i] = "open", status'[i] = "merged"
    PROVE  RetireIncident(i)
<1>1. status \in [Incident -> {"none", "open", "merged"}]
  BY DEF RebuildInv, RebuildShape
<1>2. ASSUME NEW k \in Incident, RetireIncident(k) PROVE RetireIncident(i)
  BY <1>1, <1>2 DEF RetireIncident
<1>3. ASSUME NEW g \in DOMAIN home, NEW k \in Incident, InsertIncident(g, k) PROVE FALSE
  BY <1>1, <1>3 DEF InsertIncident
<1>4. ASSUME NEW r \in Request, RequestNext(r) PROVE FALSE
  BY <1>4, RequestsKeep DEF rebuildVars
<1>5. status' # status
  OBVIOUS
<1> QED BY <1>2, <1>3, <1>4, <1>5
        DEF Next, Ingest, Triage, Rebuild, ReadAlerts, ReadIncidents, UpdateIncident,
            LinkIncident, ReadTasks, ReturnSurvivors, AbortPass, vars, corrVars, tables

\* When an incident with alerts is retired, every task row that was read of it goes, in
\* that commit, to an incident that now holds all its alerts; only rows that a request has
\* inserted since the read stay.
THEOREM TasksFollow == Spec => TasksFollowAlerts
<1>1. TypeOK /\ MovedInv /\ RebuildInv /\ [Next]_vars =>
        [\A i \in Incident :
            status[i] = "open" /\ status'[i] = "merged" /\ members[i] # {} =>
                \E k \in Incident \ {i} :
                    /\ members[i] \subseteq members'[k]
                    /\ \A t \in Title :
                        /\ tasks'[k][t] + tasks'[i][t] = tasks[k][t] + tasks[i][t]
                        /\ tasks'[i][t] = tasks[i][t] - moved[t]
                        /\ tasks'[i][t] >= 0]_vars
  <2> SUFFICES ASSUME TypeOK, MovedInv, RebuildInv, [Next]_vars, NEW i \in Incident,
                      status[i] = "open", status'[i] = "merged", members[i] # {}
               PROVE  \E k \in Incident \ {i} :
                        /\ members[i] \subseteq members'[k]
                        /\ \A t \in Title :
                            /\ tasks'[k][t] + tasks'[i][t] = tasks[k][t] + tasks[i][t]
                            /\ tasks'[i][t] = tasks[i][t] - moved[t]
                            /\ tasks'[i][t] >= 0
    OBVIOUS
  <2>1. RetireIncident(i)
    BY OnlyRetiring
  <2>2. pc = "write" /\ Unwritten = {} /\ i \in Retiring /\ RetiresNext(i)
    BY <2>1 DEF RetireIncident, RetiresNext
  <2>3. DOMAIN owner = DOMAIN home
    BY DEF RebuildInv, RebuildShape
  <2>4. \E g \in DOMAIN owner : Absorbs(g, i)
    BY <2>2, <2>3, RetiredOverlaps, RetiredIntoOwner, IncidentBounds DEF Absorbs
  <2>5. PICK g \in DOMAIN owner :
            FirstAbsorbing(g, i) /\ moved # None /\ tasks' = MoveTasks(i, owner[g])
    BY <2>1, <2>4 DEF RetireIncident
  <2> DEFINE k == owner[g]
  <2>6. k \in Incident \ {i} /\ members[k] = g /\ members[i] \subseteq g
    BY <2>2, <2>3, <2>5, RetiredIntoOwner DEF FirstAbsorbing, Absorbs
  <2>7. members \in [Incident -> SUBSET Alert] /\ members' = [members EXCEPT ![i] = {}]
    BY <2>1 DEF RetireIncident, RebuildInv, RebuildShape
  <2>8. members[i] \subseteq members'[k]
    BY <2>6, <2>7
  <2>9. tasks \in [Incident -> [Title -> Nat]] /\ moved \in [Title -> Nat]
    BY <2>5 DEF TypeOK
  <2>10. /\ tasks'[k] = [t \in Title |-> tasks[k][t] + moved[t]]
         /\ tasks'[i] = [t \in Title |-> tasks[i][t] - moved[t]]
    BY <2>5, <2>6, <2>9 DEF MoveTasks
  <2>11. ASSUME NEW t \in Title
         PROVE  /\ tasks'[k][t] + tasks'[i][t] = tasks[k][t] + tasks[i][t]
                /\ tasks'[i][t] = tasks[i][t] - moved[t]
                /\ tasks'[i][t] >= 0
    <3>1. tasks[i][t] \in Nat /\ tasks[k][t] \in Nat /\ moved[t] \in Nat
      BY <2>6, <2>9
    <3>2. moved[t] <= tasks[i][t]
      BY <2>2, <2>5 DEF MovedInv
    <3>3. tasks'[k][t] = tasks[k][t] + moved[t] /\ tasks'[i][t] = tasks[i][t] - moved[t]
      BY <2>10
    <3> QED BY <3>1, <3>2, <3>3
  <2> QED BY <2>6, <2>8, <2>11
<1> QED BY <1>1, RebuildInvariant, TypesAndMoved, PTL DEF Spec, TasksFollowAlerts

----
\* The incident that a group takes shares at least as many alerts with it as any that
\* no group takes.
BestTaken(links, m, gs) ==
    \A g \in gs, i \in Incident :
        links[i] \cap g # {} /\ (\A h \in gs : m[h] # i) =>
            \/ Cardinality(links[m[g]] \cap g) > Cardinality(links[i] \cap g)
            \/ Cardinality(links[m[g]] \cap g) = Cardinality(links[i] \cap g)

BestInv ==
    /\ IsFiniteSet(alerts)
    /\ pc \in {"write", "link"} => BestTaken(book.links, owner, DOMAIN home)

LEMMA MatchingIsBest ==
    ASSUME NEW links, NEW gs, NEW m \in Matchings(gs, links)
    PROVE  BestTaken(links, m, gs)
<1> SUFFICES ASSUME NEW g \in gs, NEW i \in Incident,
                    links[i] \cap g # {}, \A h \in gs : m[h] # i
             PROVE  \/ Cardinality(links[m[g]] \cap g) > Cardinality(links[i] \cap g)
                    \/ Cardinality(links[m[g]] \cap g) = Cardinality(links[i] \cap g)
  BY DEF BestTaken
<1> DEFINE Free(o) == {k \in Incident :
                            /\ links[k] \cap g # {}
                            /\ \A h \in gs : o[h] < o[g] => m[h] # k}
<1>1. PICK o \in ClaimOrders(gs) :
        IF Free(o) = {} THEN m[g] = None ELSE BestOverlap(m[g], Free(o), g, links)
  BY DEF Matchings
<1>2. i \in Free(o)
  OBVIOUS
<1> QED BY <1>1, <1>2 DEF BestOverlap

LEMMA BestInvariant == Spec => []BestInv
<1>1. DeskInit => BestInv
  BY FS_EmptySet DEF DeskInit, CorrInit, BestInv
<1>2. BestInv /\ [Next]_vars => BestInv'
  <2> SUFFICES ASSUME BestInv, [Next]_vars PROVE BestInv'
    OBVIOUS
  <2>1. IsFiniteSet(alerts')
    <3>1. ASSUME NEW a, Ingest(a) PROVE IsFiniteSet(alerts')
      BY <3>1, FS_AddElement DEF Ingest, BestInv
    <3>2. ASSUME NEW r \in Request, RequestNext(r) PROVE IsFiniteSet(alerts')
      BY <3>2, RequestsKeep DEF rebuildVars, BestInv
    <3>3. CASE UNCHANGED alerts
      BY <3>3 DEF BestInv
    <3> QED BY <3>1, <3>2, <3>3
            DEF Next, Triage, Rebuild, ReadAlerts, ReadIncidents, UpdateIncident,
                InsertIncident, LinkIncident, ReadTasks, RetireIncident, ReturnSurvivors,
                AbortPass, vars, corrVars, tables
  <2>2. pc' \in {"write", "link"} => BestTaken(book'.links, owner', DOMAIN home')
    <3>1. CASE ReadIncidents
      <4>1. BestTaken(members, owner', Groups(seen.alerts))
        BY <3>1, MatchingIsBest DEF ReadIncidents
      <4> QED BY <3>1, <4>1 DEF ReadIncidents
    <3>2. ASSUME NEW r \in Request, RequestNext(r) PROVE UNCHANGED <<pc, book, owner, home>>
      BY <3>2, RequestsKeep DEF rebuildVars, locals
    <3>3. CASE ReadAlerts \/ ReturnSurvivors \/ AbortPass
      BY <3>3 DEF ReadAlerts, ReturnSurvivors, AbortPass, Forget
    <3>4. CASE /\ UNCHANGED <<book, owner>> /\ DOMAIN home' = DOMAIN home
               /\ pc' \in {"write", "link"} => pc \in {"write", "link"}
      BY <3>4 DEF BestInv
    <3> QED BY <3>1, <3>2, <3>3, <3>4
            DEF Next, Ingest, Triage, Rebuild, UpdateIncident, InsertIncident, LinkIncident,
                ReadTasks, RetireIncident, RetiresNext, WritesNext, vars, corrVars, locals
  <2> QED BY <2>1, <2>2 DEF BestInv
<1> QED BY <1>1, <1>2, PTL DEF Spec

\* Of the incidents that meet in one group the one with most alerts keeps its id.
THEOREM BiggestIncidentSurvives == Spec => BiggestSurvives
<1>1. RebuildInv /\ BestInv /\ [Next]_vars =>
        [\A i \in Incident :
            status[i] = "open" /\ status'[i] = "merged" =>
                \A k \in Survivors :
                    members[i] # {} /\ members[i] \subseteq members[k] =>
                        Cardinality(members[i]) <= Cardinality(book.links[k])]_vars
  <2> SUFFICES ASSUME RebuildInv, BestInv, [Next]_vars, NEW i \in Incident,
                      status[i] = "open", status'[i] = "merged", NEW k \in Survivors,
                      members[i] # {}, members[i] \subseteq members[k]
               PROVE  Cardinality(members[i]) <= Cardinality(book.links[k])
    OBVIOUS
  <2>1. pc = "write" /\ Unwritten = {} /\ i \in Retiring
    BY OnlyRetiring DEF RetireIncident, RetiresNext
  <2>2. PICK g \in DOMAIN home : home[g] = k
    BY DEF Survivors
  <2>3. members[k] = g /\ members[i] = book.links[i]
    BY <2>1, <2>2 DEF Unwritten, Retiring, RebuildInv, Placed, Remaining
  <2>4. book.links[i] \cap g # {}
    BY <2>3
  <2>5. owner[g] = k /\ k \in Incident
    BY <2>1, <2>2, <2>4, RetiredIntoOwner
  <2>6. \A h \in DOMAIN home : owner[h] # i
    <3> SUFFICES ASSUME NEW h \in DOMAIN home, owner[h] = i PROVE FALSE
      OBVIOUS
    <3>1. home[h] # None /\ home[h] # i
      BY <2>1 DEF Unwritten, Retiring, Survivors
    <3>2. owner[h] \in {None, home[h]}
      BY <2>1, <3>1 DEF RebuildInv, Placed
    <3> QED BY <3>1, <3>2, IncidentBounds
  <2>7. book.links[k] \cap g = book.links[k] /\ book.links[i] \cap g = book.links[i]
    <3>1. book.links[k] \cap g # {}
      BY <2>1, <2>5, IncidentBounds DEF RebuildInv, Matched
    <3> QED BY <2>1, <2>3, <2>5, <3>1, RelatedInOneGroup DEF RebuildInv, RebuildShape, Matched
  <2>8. \/ Cardinality(book.links[k]) > Cardinality(book.links[i])
        \/ Cardinality(book.links[k]) = Cardinality(book.links[i])
    BY <2>1, <2>4, <2>5, <2>6, <2>7 DEF BestInv, BestTaken
  <2>9. ASSUME NEW n \in Incident PROVE Cardinality(book.links[n]) \in Nat
    <3>1. book.links[n] \subseteq alerts
      BY <2>1 DEF RebuildInv, RebuildShape, Matched, Related, Group
    <3> QED BY <3>1, FS_Subset, FS_CardinalityType DEF BestInv
  <2> QED BY <2>3, <2>5, <2>8, <2>9
<1> QED BY <1>1, RebuildInvariant, BestInvariant, PTL DEF Spec, BiggestSurvives

----
\* What holds without overlap holds of fewer steps, so RebuildInv and TypeOK hold too.
LEMMA AloneIsNext == NextAlone => Next
BY DEF NextAlone, Next, RequestNext

LEMMA AloneImplements == OneAtATime => Spec
<1>1. [NextAlone]_vars => [Next]_vars
  BY AloneIsNext
<1> QED BY <1>1, PTL DEF OneAtATime, Spec

\* Only one thing at a time is under way, and so what a rebuild has read is current.
AloneInv ==
    /\ pc # "idle" => \A r \in Request : request[r].at = "done"
    /\ \A r, q \in Request : request[r].at # "done" /\ request[q].at # "done" => r = q
    /\ pc # "idle" => seen.verdict = verdict /\ seen.analyst = analyst

\* The steps of a rebuild change no verdict, and one of them begins it.
LEMMA RebuildBegins ==
    ASSUME Rebuild
    PROVE  /\ UNCHANGED <<verdict, analyst>>
           /\ pc = "idle" => ReadAlerts
           /\ pc # "idle" /\ pc' # "idle" => UNCHANGED seen
BY DEF Rebuild, ReadAlerts, ReadIncidents, UpdateIncident, InsertIncident, LinkIncident,
       ReadTasks, RetireIncident, RetiresNext, ReturnSurvivors, AbortPass, Forget, PassComplete,
       WritesNext, tables

\* A request's step moves that request only.
LEMMA RequestMoves ==
    ASSUME DOMAIN request = Request, NEW r \in Request, RequestNext(r)
    PROVE  \A q \in Request : q # r => request'[q] = request[q]
BY DEF RequestNext, BeginRequest, ContinueRequest, BeginOverride, RecordOverride,
       LoadIncident, ComputeSeverity, SaveSeverity, OpenPage, ReadTitles, ProposeTasks,
       RequestFails, Enter

LEMMA AloneInvariant == OneAtATime => []AloneInv
<1>1. DeskInit => AloneInv
  BY DEF DeskInit, CorrInit, AloneInv, NoRequest
<1>2. TypeOK /\ AloneInv /\ [NextAlone]_vars => AloneInv'
  <2> SUFFICES ASSUME TypeOK, AloneInv, [NextAlone]_vars PROVE AloneInv'
    OBVIOUS
  <2> USE DEF AloneInv
  <2>1. ASSUME NEW a \in Alert, Ingest(a), UNCHANGED request PROVE AloneInv'
    BY <2>1 DEF Ingest, locals
  <2>2. ASSUME NEW a \in Alert, NEW v \in ModelVerdict, Triage(a, v), UNCHANGED request
        PROVE  AloneInv'
    BY <2>2 DEF Triage, locals
  <2>3. ASSUME pc = "idle" => Quiet, Rebuild, UNCHANGED request PROVE AloneInv'
    <3>1. CASE pc = "idle"
      BY <2>3, <3>1, RebuildBegins DEF ReadAlerts, tables, Quiet
    <3>2. CASE pc # "idle"
      BY <2>3, <3>2, RebuildBegins
    <3> QED BY <3>1, <3>2
  <2>4. ASSUME NEW r \in Request, Quiet, BeginRequest(r) PROVE AloneInv'
    <3>1. RequestNext(r)
      BY <2>4 DEF RequestNext
    <3>2. pc' = "idle" /\ \A q \in Request : q # r => request'[q].at = "done"
      BY <2>4, <3>1, RequestsKeep, RequestMoves DEF Quiet, TypeOK, rebuildVars, locals
    <3> QED BY <3>2
  <2>5. ASSUME NEW r \in Request, ContinueRequest(r) PROVE AloneInv'
    <3>1. RequestNext(r)
      BY <2>5 DEF RequestNext
    <3>2. request[r].at # "done"
      BY <2>5 DEF ContinueRequest, RecordOverride, LoadIncident, ComputeSeverity,
                  SaveSeverity, ReadTitles, ProposeTasks, RequestFails
    <3>3. pc' = "idle" /\ \A q \in Request : q # r => request'[q].at = "done"
      BY <3>1, <3>2, RequestsKeep, RequestMoves DEF TypeOK, rebuildVars, locals
    <3> QED BY <3>3
  <2>6. CASE UNCHANGED vars
    BY <2>6 DEF vars, corrVars, tables, locals
  <2> QED BY <2>1, <2>2, <2>3, <2>4, <2>5, <2>6 DEF NextAlone
<1> QED BY <1>1, <1>2, AloneImplements, TypeCorrect, PTL DEF OneAtATime

----
\* Groups that are written have the severity they call for; other incidents still
\* have the severity that was read.
SeverityInv ==
    pc \in {"write", "link"} =>
        /\ \A g \in DOMAIN home : home[g] # None => severity[home[g]] = SeenSeverity(g)
        /\ \A i \in Incident \ Survivors :
            status[i] # "none" => severity[i] = book.severity[i]

LEMMA UpdateSeverity ==
    ASSUME TypeOK, RebuildInv, SeverityInv, NEW g \in DOMAIN home, UpdateIncident(g)
    PROVE  SeverityInv'
<1> DEFINE i == owner[g]
<1>1. /\ pc = "write" /\ home[g] = None /\ i # None
      /\ home' = [home EXCEPT ![g] = i]
      /\ severity' = IF SeenSeverity(g) = book.severity[i] THEN severity
                     ELSE [severity EXCEPT ![i] = SeenSeverity(g)]
      /\ UNCHANGED <<pc, status, seen, book>>
  BY DEF UpdateIncident, WritesNext, Unwritten
<1>2. i \in Incident \ Survivors /\ status[i] = "open"
  BY <1>1, OwnerBeforeUpdate
<1>3. severity[i] = book.severity[i]
  BY <1>1, <1>2 DEF SeverityInv
<1>4. severity'[i] = SeenSeverity(g) /\ \A k \in Incident : k # i => severity'[k] = severity[k]
  BY <1>1, <1>2, <1>3 DEF TypeOK
<1>5. /\ DOMAIN home' = DOMAIN home /\ home'[g] = i
      /\ \A h \in DOMAIN home : h # g => home'[h] = home[h]
  BY <1>1
<1>6. \A h : SeenSeverity(h)' = SeenSeverity(h)
  BY <1>1 DEF SeenSeverity
<1>7. ASSUME NEW h \in DOMAIN home', home'[h] # None
      PROVE  severity'[home'[h]] = SeenSeverity(h)'
  <2>1. CASE h = g
    BY <1>4, <1>5, <1>6, <2>1
  <2>2. CASE h # g
    <3>1. home[h] \in Incident /\ home[h] \in Survivors /\ home'[h] = home[h]
      BY <1>5, <1>7, <2>2 DEF RebuildInv, RebuildShape, Survivors
    <3>2. severity[home[h]] = SeenSeverity(h)
      BY <1>1, <1>5, <1>7, <3>1 DEF SeverityInv
    <3> QED BY <1>2, <1>4, <1>6, <3>1, <3>2
  <2> QED BY <2>1, <2>2
<1>8. ASSUME NEW k \in Incident \ Survivors', status'[k] # "none"
      PROVE  severity'[k] = book'.severity[k]
  <2>1. k # i /\ k \notin Survivors
    BY <1>1, <1>5, <1>8, IncidentBounds DEF Survivors
  <2> QED BY <1>1, <1>4, <1>8, <2>1 DEF SeverityInv
<1> QED BY <1>7, <1>8 DEF SeverityInv

LEMMA InsertSeverity ==
    ASSUME TypeOK, RebuildInv, SeverityInv, NEW g \in DOMAIN home, NEW i \in Incident,
           InsertIncident(g, i)
    PROVE  SeverityInv'
<1>1. /\ pc = "write" /\ home[g] = None /\ status[i] = "none"
      /\ home' = [home EXCEPT ![g] = i]
      /\ status' = [status EXCEPT ![i] = "open"]
      /\ severity' = [severity EXCEPT ![i] = SeenSeverity(g)]
      /\ UNCHANGED <<seen, book>>
  BY DEF InsertIncident, WritesNext, Unwritten
<1>2. i \notin Survivors
  BY <1>1, IncidentBounds DEF RebuildInv, RebuildShape, Placed, Survivors
<1>3. severity'[i] = SeenSeverity(g) /\ \A k \in Incident : k # i => severity'[k] = severity[k]
  BY <1>1 DEF TypeOK
<1>4. /\ DOMAIN home' = DOMAIN home /\ home'[g] = i
      /\ \A h \in DOMAIN home : h # g => home'[h] = home[h]
  BY <1>1
<1>5. \A h : SeenSeverity(h)' = SeenSeverity(h)
  BY <1>1 DEF SeenSeverity
<1>6. ASSUME NEW h \in DOMAIN home', home'[h] # None
      PROVE  severity'[home'[h]] = SeenSeverity(h)'
  <2>1. CASE h = g
    BY <1>3, <1>4, <1>5, <2>1
  <2>2. CASE h # g
    <3>1. home[h] \in Incident /\ home[h] \in Survivors /\ home'[h] = home[h]
      BY <1>4, <1>6, <2>2 DEF RebuildInv, RebuildShape, Survivors
    <3>2. severity[home[h]] = SeenSeverity(h)
      BY <1>1, <1>4, <1>6, <3>1 DEF SeverityInv
    <3> QED BY <1>2, <1>3, <1>5, <3>1, <3>2
  <2> QED BY <2>1, <2>2
<1>7. ASSUME NEW k \in Incident \ Survivors', status'[k] # "none"
      PROVE  severity'[k] = book'.severity[k]
  <2>1. k # i /\ k \notin Survivors
    BY <1>1, <1>4, <1>7, IncidentBounds DEF Survivors
  <2>2. status[k] # "none"
    BY <1>1, <1>7, <2>1 DEF RebuildInv, RebuildShape
  <2> QED BY <1>1, <1>3, <2>1, <2>2 DEF SeverityInv
<1> QED BY <1>6, <1>7 DEF SeverityInv

\* A request runs only while no rebuild does.
LEMMA RequestsAlone ==
    ASSUME AloneInv, NEW r \in Request,
           (Quiet /\ BeginRequest(r)) \/ ContinueRequest(r)
    PROVE  pc = "idle" /\ pc' = "idle" /\ RequestNext(r)
<1>1. RequestNext(r)
  BY DEF RequestNext
<1>2. ContinueRequest(r) => request[r].at # "done"
  BY DEF ContinueRequest, RecordOverride, LoadIncident, ComputeSeverity,
         SaveSeverity, ReadTitles, ProposeTasks, RequestFails
<1>3. pc = "idle"
  BY <1>2 DEF AloneInv, Quiet
<1> QED BY <1>1, <1>3, RequestsKeep DEF rebuildVars, locals

LEMMA SeverityInvariant == OneAtATime => []SeverityInv
<1>1. DeskInit => SeverityInv
  BY DEF DeskInit, CorrInit, SeverityInv
<1>2. TypeOK /\ RebuildInv /\ AloneInv /\ SeverityInv /\ [NextAlone]_vars => SeverityInv'
  <2> SUFFICES ASSUME TypeOK, RebuildInv, AloneInv, SeverityInv, [NextAlone]_vars
               PROVE  SeverityInv'
    OBVIOUS
  <2>1. ASSUME NEW r \in Request, (Quiet /\ BeginRequest(r)) \/ ContinueRequest(r)
        PROVE  SeverityInv'
    BY <2>1, RequestsAlone DEF SeverityInv
  <2>2. ASSUME NEW g \in DOMAIN home, UpdateIncident(g) PROVE SeverityInv'
    BY <2>2, UpdateSeverity
  <2>3. ASSUME NEW g \in DOMAIN home, NEW i \in Incident, InsertIncident(g, i)
        PROVE  SeverityInv'
    BY <2>3, InsertSeverity
  <2>4. CASE ReadIncidents
    BY <2>4 DEF ReadIncidents, tables, SeverityInv
  <2>5. CASE LinkIncident
    BY <2>5 DEF LinkIncident, SeverityInv, Survivors, SeenSeverity
  <2>6. ASSUME NEW i \in Incident, RetireIncident(i) PROVE SeverityInv'
    <3>1. status[i] # "none" /\ \A k \in Incident : k # i => status'[k] = status[k]
      BY <2>6 DEF RetireIncident, RetiresNext, Retiring, RebuildInv, RebuildShape
    <3> QED BY <2>6, <3>1 DEF RetireIncident, SeverityInv, Survivors, SeenSeverity
  <2>7. CASE ReadAlerts \/ ReturnSurvivors \/ AbortPass
    BY <2>7 DEF ReadAlerts, ReturnSurvivors, AbortPass, Forget, SeverityInv
  <2>8. ASSUME NEW a \in Alert, Ingest(a) PROVE SeverityInv'
    BY <2>8 DEF Ingest, locals, SeverityInv, Survivors, SeenSeverity
  <2>9. ASSUME NEW a \in Alert, NEW v \in ModelVerdict, Triage(a, v) PROVE SeverityInv'
    BY <2>9 DEF Triage, locals, SeverityInv
  <2>10. CASE UNCHANGED vars
    BY <2>10 DEF vars, corrVars, tables, locals, SeverityInv, Survivors, SeenSeverity
  <2>11. ASSUME NEW i \in Incident, ReadTasks(i) PROVE SeverityInv'
    BY <2>11 DEF ReadTasks, tables, SeverityInv, Survivors, SeenSeverity
  <2> QED BY <2>1, <2>2, <2>3, <2>4, <2>5, <2>6, <2>7, <2>8, <2>9, <2>10, <2>11
          DEF NextAlone, Rebuild
<1> QED BY <1>1, <1>2, AloneImplements, TypeCorrect, RebuildInvariant, AloneInvariant,
           PTL DEF OneAtATime

\* Without overlap, a completed rebuild leaves every incident with the severity its
\* alerts, verdicts and overrides now call for.
THEOREM SeveritiesAreExact == OneAtATime => []RebuildExact
<1>1. RebuildInv /\ AloneInv /\ SeverityInv => RebuildExact
  <2> SUFFICES ASSUME RebuildInv, AloneInv, SeverityInv, PassComplete,
                      NEW i \in Incident, members[i] # {}
               PROVE  severity[i] = SeverityOf(members[i], verdict, analyst)
    BY DEF RebuildExact
  <2>1. i \in Survivors
    BY DEF PassComplete, Retiring, RebuildInv, Remaining
  <2>2. PICK g \in DOMAIN home : home[g] = i
    BY <2>1 DEF Survivors
  <2>3. members[i] = g /\ severity[i] = SeenSeverity(g)
    BY <2>2, IncidentBounds DEF PassComplete, RebuildInv, Placed, SeverityInv
  <2> QED BY <2>3 DEF PassComplete, AloneInv, SeenSeverity
<1> QED BY <1>1, AloneImplements, RebuildInvariant, AloneInvariant, SeverityInvariant, PTL

\* Without overlap, a rebuild replaces no severity that the recorded overrides call for.
THEOREM OverridesSurvive == OneAtATime => OverrideKept
<1>1. RebuildInv /\ AloneInv /\ [NextAlone]_vars =>
        [\A i \in Incident :
            /\ pc = "write" /\ UNCHANGED request
            /\ members'[i] = members[i]
            /\ \E a \in members[i] : analyst[a] # None
            /\ severity[i] = SeverityOf(members[i], verdict, analyst)
            => severity'[i] = severity[i]]_vars
  <2> SUFFICES ASSUME RebuildInv, AloneInv, [NextAlone]_vars, NEW i \in Incident,
                      pc = "write", members'[i] = members[i], members[i] # {},
                      severity[i] = SeverityOf(members[i], verdict, analyst), severity' # severity
               PROVE  severity'[i] = severity[i]
    OBVIOUS
  <2>1. seen.verdict = verdict /\ seen.analyst = analyst /\ status[i] = "open"
    BY DEF AloneInv, RebuildInv, OnlyOpenLinked
  <2>2. ASSUME NEW g \in DOMAIN home, UpdateIncident(g) PROVE severity'[i] = severity[i]
    <3>1. /\ members' = [members EXCEPT ![owner[g]] = g]
          /\ severity' = [severity EXCEPT ![owner[g]] = SeenSeverity(g)]
      BY <2>2 DEF UpdateIncident
    <3>2. CASE i # owner[g]
      BY <3>1, <3>2
    <3>3. CASE i = owner[g]
      <4>1. members[i] = g
        BY <3>1, <3>3 DEF RebuildInv, RebuildShape
      <4>2. SeenSeverity(g) = severity[i]
        BY <2>1, <4>1 DEF SeenSeverity
      <4> QED BY <3>1, <3>3, <4>2
    <3> QED BY <3>2, <3>3
  <2>3. ASSUME NEW g \in DOMAIN home, NEW k \in Incident, InsertIncident(g, k)
        PROVE  severity'[i] = severity[i]
    <3>1. i # k
      BY <2>1, <2>3 DEF InsertIncident
    <3> QED BY <2>3, <3>1 DEF InsertIncident
  <2>4. ASSUME NEW r \in Request, (Quiet /\ BeginRequest(r)) \/ ContinueRequest(r) PROVE FALSE
    BY <2>4, RequestsAlone
  <2> QED BY <2>2, <2>3, <2>4 DEF NextAlone, Ingest, Triage, Rebuild, ReadAlerts, ReadIncidents,
             LinkIncident, ReadTasks, RetireIncident, ReturnSurvivors, AbortPass, Forget,
             vars, corrVars, tables
<1> QED BY <1>1, AloneImplements, RebuildInvariant, AloneInvariant, PTL DEF OneAtATime, OverrideKept

----
\* Only an incident with alerts has tasks, or is about to be given any, and it is given
\* only tasks it has not got.
TaskInv ==
    /\ \A i \in Incident, t \in Title : tasks[i][t] # 0 => members[i] # {}
    /\ \A r \in Request :
        /\ request[r].at = "titles" /\ request[r].wanted # {} => members[request[r].incident] # {}
        /\ request[r].at = "propose" /\ request[r].missing # {} => members[request[r].incident] # {}
        /\ request[r].at = "propose" =>
            \A t \in request[r].missing : tasks[request[r].incident][t] = 0

\* Without overlap the task rows that were read are still all the incident has.
MovedExact ==
    moved # None => \A i \in Incident : RetiresNext(i) => moved = tasks[i]

LEMMA MovedExactly == OneAtATime => []MovedExact
<1>1. DeskInit => MovedExact
  BY DEF DeskInit, CorrInit, MovedExact
<1>2. MovedInv /\ AloneInv /\ MovedExact /\ [NextAlone]_vars => MovedExact'
  <2> SUFFICES ASSUME MovedInv, AloneInv, MovedExact, [NextAlone]_vars PROVE MovedExact'
    OBVIOUS
  <2>1. CASE moved' = None
    BY <2>1 DEF MovedExact
  <2>2. ASSUME UNCHANGED <<pc, home, sweep, moved, tasks>> PROVE MovedExact'
    BY <2>2 DEF MovedExact, RetiresNext, Unwritten, Retiring, Survivors
  <2>3. ASSUME pc # "write" \/ Unwritten # {}, UNCHANGED moved PROVE MovedExact'
    BY <2>1, <2>3 DEF MovedInv
  <2>4. ASSUME NEW r \in Request, (Quiet /\ BeginRequest(r)) \/ ContinueRequest(r)
        PROVE  MovedExact'
    BY <2>3, <2>4, RequestsAlone, RequestsKeep
  <2>5. ASSUME NEW i \in Incident, ReadTasks(i) PROVE MovedExact'
    <3>1. /\ moved' = tasks[i] /\ RetiresNext(i)
          /\ UNCHANGED <<pc, home, sweep, tasks>>
      BY <2>5 DEF ReadTasks, tables
    <3>2. \A k \in Incident : RetiresNext(k) => k = i
      BY <3>1 DEF RetiresNext, Incident
    <3> QED BY <3>1, <3>2 DEF MovedExact, RetiresNext, Unwritten, Retiring, Survivors
  <2>6. ASSUME NEW g \in DOMAIN home, NEW i \in Incident, InsertIncident(g, i)
        PROVE  MovedExact'
    BY <2>3, <2>6 DEF InsertIncident, WritesNext
  <2>7. ASSUME NEW g \in DOMAIN home, UpdateIncident(g) PROVE MovedExact'
    BY <2>3, <2>7 DEF UpdateIncident, WritesNext
  <2>8. CASE ReadAlerts \/ ReadIncidents \/ LinkIncident
    BY <2>3, <2>8 DEF ReadAlerts, ReadIncidents, LinkIncident
  <2> QED BY <2>1, <2>2, <2>4, <2>5, <2>6, <2>7, <2>8
          DEF NextAlone, Ingest, Triage, Rebuild, RetireIncident, ReturnSurvivors, AbortPass,
              Forget, vars, corrVars, tables, locals
<1> QED BY <1>1, <1>2, AloneImplements, TypesAndMoved, AloneInvariant, PTL DEF OneAtATime

\* An incident with no alerts is proposed nothing.
LEMMA NothingSuggested == Suggest({}) = {}
BY DEF Suggest

\* The first part of TaskInv, which a rebuild keeps.
LEMMA RebuildKeepsTasks ==
    ASSUME TypeOK, RebuildInv, TaskInv, MovedExact, Rebuild,
           NEW i \in Incident, NEW t \in Title, tasks'[i][t] # 0
    PROVE  members'[i] # {}
<1> USE DEF TaskInv
<1>0. /\ members \in [Incident -> SUBSET Alert]
      /\ tasks \in [Incident -> [Title -> Nat]]
  BY DEF TypeOK, RebuildShape
<1>1. ASSUME NEW g \in DOMAIN home, UpdateIncident(g) PROVE members'[i] # {}
  <2>1. g # {}
    BY GroupsPartition, <1>1 DEF UpdateIncident, WritesNext, RebuildInv, RebuildShape
  <2> QED BY <1>0, <1>1, <2>1 DEF UpdateIncident
<1>2. ASSUME NEW g \in DOMAIN home, NEW k \in Incident, InsertIncident(g, k)
      PROVE  members'[i] # {}
  BY <1>2 DEF InsertIncident
<1>3. CASE LinkIncident
  <2>1. fresh # {}
    BY GroupsPartition, <1>3 DEF LinkIncident, RebuildInv, RebuildShape
  <2> QED BY <1>0, <1>3, <2>1 DEF LinkIncident
<1>4. ASSUME NEW k \in Incident, RetireIncident(k) PROVE members'[i] # {}
  <2>1. pc = "write" /\ Unwritten = {} /\ k \in Retiring /\ DOMAIN owner = DOMAIN home
        /\ members' = [members EXCEPT ![k] = {}] /\ RetiresNext(k)
    BY <1>4 DEF RetireIncident, RetiresNext, RebuildInv, RebuildShape
  <2>2. ASSUME NEW g \in DOMAIN owner, FirstAbsorbing(g, k), moved # None,
               tasks' = MoveTasks(k, owner[g])
        PROVE  members'[i] # {}
    <3> DEFINE n == owner[g]
    <3>1. n \in Incident \ {k} /\ members[n] = g
      BY <2>1, <2>2, RetiredIntoOwner DEF FirstAbsorbing, Absorbs
    <3>2. g # {}
      BY <2>1, GroupsPartition DEF RebuildInv, RebuildShape
    <3>3. /\ tasks'[k] = [u \in Title |-> tasks[k][u] - moved[u]]
          /\ i # k /\ i # n => tasks'[i] = tasks[i]
      BY <1>0, <2>2, <3>1 DEF MoveTasks
    <3>4. i # k
      <4>1. moved = tasks[k] /\ tasks[k][t] \in Nat
        BY <1>0, <2>1, <2>2 DEF MovedExact
      <4>2. tasks'[k][t] = 0
        BY <3>3, <4>1
      <4> QED BY <4>2
    <3> QED BY <1>0, <2>1, <3>1, <3>2, <3>3, <3>4
  <2>3. CASE ~(\E g \in DOMAIN owner : Absorbs(g, k)) /\ UNCHANGED tasks
    <3>1. members[k] = {}
      BY <2>1, <2>3, RetiredOverlaps, RetiredIntoOwner, IncidentBounds DEF Absorbs
    <3> QED BY <1>0, <2>1, <2>3, <3>1
  <2> QED BY <1>4, <2>2, <2>3 DEF RetireIncident
<1>5. CASE ReadAlerts \/ ReadIncidents \/ ReturnSurvivors \/ AbortPass
  BY <1>5 DEF ReadAlerts, ReadIncidents, ReturnSurvivors, AbortPass, tables
<1>6. ASSUME NEW k \in Incident, ReadTasks(k) PROVE members'[i] # {}
  BY <1>6 DEF ReadTasks, tables
<1> QED BY <1>1, <1>2, <1>3, <1>4, <1>5, <1>6 DEF Rebuild

\* A request that proposes tasks keeps TaskInv if no other is under way.
LEMMA RequestKeepsTasks ==
    ASSUME TypeOK, TaskInv, NEW r \in Request, RequestNext(r),
           \A q \in Request : q # r => request[q].at = "done"
    PROVE  TaskInv'
<1>1. members' = members
  BY RequestsKeep DEF rebuildVars
<1>2. \A q \in Request : q # r => request'[q].at = "done"
  BY RequestMoves DEF TypeOK
<1>3. ASSUME UNCHANGED tasks, request'[r].at \notin {"titles", "propose"} PROVE TaskInv'
  BY <1>1, <1>2, <1>3 DEF TaskInv
<1>4. ASSUME NEW i \in Incident, OpenPage(r, i) PROVE TaskInv'
  <2>1. request'[r] = [at |-> "titles", incident |-> i, wanted |-> Suggest(members[i])]
        /\ UNCHANGED tasks
    BY <1>4 DEF OpenPage, Enter, TypeOK, corrVars, tables
  <2>2. Suggest(members[i]) # {} => members[i] # {}
    BY NothingSuggested
  <2>3. /\ request'[r].at = "titles" /\ request'[r].incident = i
        /\ request'[r].wanted = Suggest(members[i])
    BY <2>1
  <2> QED BY <1>1, <1>2, <2>1, <2>2, <2>3 DEF TaskInv
<1>5. CASE ReadTitles(r)
  <2>1. /\ request'[r] = [at |-> "propose", incident |-> request[r].incident,
                 missing |-> {t \in request[r].wanted : tasks[request[r].incident][t] = 0}]
        /\ request[r].at = "titles" /\ UNCHANGED tasks
    BY <1>5 DEF ReadTitles, Enter, TypeOK, corrVars, tables
  <2> QED BY <1>1, <1>2, <2>1 DEF TaskInv
<1>6. CASE ProposeTasks(r)
  <2> DEFINE k == request[r].incident
  <2>1. /\ request'[r] = NoRequest /\ request[r].at = "propose" /\ k \in Incident
        /\ tasks \in [Incident -> [Title -> Nat]]
        /\ tasks' = [tasks EXCEPT ![k] = [t \in Title |-> @[t] + IF t \in request[r].missing THEN 1 ELSE 0]]
    BY <1>6 DEF ProposeTasks, Enter, TypeOK
  <2>2. ASSUME NEW i \in Incident, NEW t \in Title, tasks'[i][t] # 0 PROVE members[i] # {}
    <3>1. CASE i = k /\ t \in request[r].missing
      BY <2>1, <3>1 DEF TaskInv
    <3>2. CASE ~(i = k /\ t \in request[r].missing)
      <4>1. tasks'[i][t] = tasks[i][t]
        BY <2>1, <3>2
      <4> QED BY <2>2, <4>1 DEF TaskInv
    <3> QED BY <3>1, <3>2
  <2>3. request'[r].at = "done"
    BY <2>1 DEF NoRequest
  <2>4. \A q \in Request : request'[q].at = "done"
    BY <1>2, <2>3
  <2> QED BY <1>1, <2>2, <2>4 DEF TaskInv
<1>7. ASSUME NEW a \in Alert, NEW v \in AnalystVerdict, BeginOverride(r, a, v) PROVE TaskInv'
  BY <1>3, <1>7 DEF BeginOverride, Enter, TypeOK, corrVars, tables
<1>8. CASE RecordOverride(r)
  BY <1>3, <1>8 DEF RecordOverride, Enter, TypeOK, NoRequest
<1>9. CASE LoadIncident(r) \/ ComputeSeverity(r) \/ SaveSeverity(r) \/ RequestFails(r)
  BY <1>3, <1>9 DEF LoadIncident, ComputeSeverity, SaveSeverity, RequestFails, Enter, TypeOK,
                    NoRequest, corrVars, tables
<1> QED BY <1>4, <1>5, <1>6, <1>7, <1>8, <1>9 DEF RequestNext, BeginRequest, ContinueRequest

\* The requests that may be beside one that makes a step: none.
LEMMA OthersAreDone ==
    ASSUME AloneInv, NEW r \in Request, (Quiet /\ BeginRequest(r)) \/ ContinueRequest(r)
    PROVE  \A q \in Request : q # r => request[q].at = "done"
<1>1. ContinueRequest(r) => request[r].at # "done"
  BY DEF ContinueRequest, RecordOverride, LoadIncident, ComputeSeverity,
         SaveSeverity, ReadTitles, ProposeTasks, RequestFails
<1> QED BY <1>1 DEF AloneInv, Quiet

LEMMA TaskInvariant == OneAtATime => []TaskInv
<1>1. DeskInit => TaskInv
  BY DEF DeskInit, CorrInit, TaskInv, NoRequest
<1>2. TypeOK /\ RebuildInv /\ AloneInv /\ TaskInv /\ MovedExact /\ [NextAlone]_vars => TaskInv'
  <2> SUFFICES ASSUME TypeOK, RebuildInv, AloneInv, TaskInv, MovedExact, [NextAlone]_vars
               PROVE  TaskInv'
    OBVIOUS
  <2>1. ASSUME NEW r \in Request, (Quiet /\ BeginRequest(r)) \/ ContinueRequest(r)
        PROVE  TaskInv'
    BY <2>1, RequestsAlone, OthersAreDone, RequestKeepsTasks
  <2>2. ASSUME pc = "idle" => Quiet, Rebuild, UNCHANGED request PROVE TaskInv'
    <3>1. \A r \in Request : request'[r].at = "done"
      BY <2>2 DEF AloneInv, Quiet
    <3> QED BY <2>2, <3>1, RebuildKeepsTasks DEF TaskInv
  <2>3. CASE UNCHANGED <<tasks, members, request>>
    BY <2>3 DEF TaskInv
  <2> QED BY <2>1, <2>2, <2>3 DEF NextAlone, Ingest, Triage, vars, corrVars, tables
<1> QED BY <1>1, <1>2, AloneImplements, TypeCorrect, RebuildInvariant, AloneInvariant,
           MovedExactly, PTL DEF OneAtATime

\* Without overlap, tasks are never left behind on a merged incident.
THEOREM MergedHasNoTask == OneAtATime => []NoTaskOnMerged
<1>1. RebuildInv /\ TaskInv => NoTaskOnMerged
  BY DEF RebuildInv, OnlyOpenLinked, TaskInv, NoTaskOnMerged
<1> QED BY <1>1, AloneImplements, RebuildInvariant, TaskInvariant, PTL

\* Without overlap, opening a page never adds a task the incident has, also after a
\* merge brought it the task of another.
THEOREM ProposingIsIdempotent == OneAtATime => ProposesOnce
<1>1. TypeOK /\ AloneInv /\ TaskInv /\ [NextAlone]_vars =>
        [\A i \in Incident, t \in Title :
            tasks[i][t] > 0 /\ tasks'[i][t] > tasks[i][t] => UNCHANGED request]_vars
  <2> SUFFICES ASSUME TypeOK, AloneInv, TaskInv, [NextAlone]_vars,
                      NEW i \in Incident, NEW t \in Title,
                      tasks[i][t] > 0, tasks'[i][t] > tasks[i][t], request' # request
               PROVE  FALSE
    OBVIOUS
  <2>1. PICK r \in Request : RequestNext(r)
    BY DEF NextAlone, RequestNext, vars
  <2>2. tasks[i][t] \in Nat /\ tasks[i][t] # 0 /\ tasks'[i][t] # tasks[i][t]
    BY DEF TypeOK
  <2>3. ProposeTasks(r)
    BY <2>1, <2>2 DEF RequestNext, BeginRequest, ContinueRequest, BeginOverride, RecordOverride,
       LoadIncident, ComputeSeverity, SaveSeverity, OpenPage, ReadTitles, RequestFails,
       corrVars, tables
  <2>4. /\ request[r].at = "propose" /\ request[r].incident \in Incident
        /\ tasks \in [Incident -> [Title -> Nat]]
        /\ tasks' = [tasks EXCEPT ![request[r].incident] =
                        [u \in Title |-> @[u] + IF u \in request[r].missing THEN 1 ELSE 0]]
    BY <2>3 DEF ProposeTasks, TypeOK
  <2>5. i = request[r].incident /\ t \in request[r].missing
    BY <2>2, <2>4
  <2> QED BY <2>2, <2>4, <2>5 DEF TaskInv
<1> QED BY <1>1, AloneImplements, TypeCorrect, AloneInvariant, TaskInvariant,
           PTL DEF OneAtATime, ProposesOnce
====
