---- MODULE Chains_proofs ----
(***************************************************************************)
(* Proofs about the attack chains: the groups of one rebuild are disjoint  *)
(* and linked throughout, no commit leaves an incident in two chains, and  *)
(* a completed rebuild has written exactly the groups.                     *)
(***************************************************************************)
EXTENDS Chains, FiniteSetTheorems, TLAPS

IsClosed(v, C) == \A a \in C, b \in Candidates(v) : Linked(v, a, b) => b \in C

\* The link relation is symmetric: spans are ordered, so the gap is the same both ways.
LEMMA LinkedSymmetric ==
    ASSUME NEW v \in [Incident -> View], NEW i \in Incident, NEW j \in Incident
    PROVE  Linked(v, i, j) <=> Linked(v, j, i)
<1>1. Shared(v, i, j) = Shared(v, j, i)
  BY DEF Shared
<1>2. Gap(v[i], v[j]) = Gap(v[j], v[i])
  <2>1. /\ v[i].first \in Int /\ v[i].last \in Int /\ v[i].first <= v[i].last
        /\ v[j].first \in Int /\ v[j].last \in Int /\ v[j].first <= v[j].last
    BY DEF View
  <2> QED BY <2>1 DEF Gap
<1> QED BY <1>1, <1>2 DEF Linked

\* A group holds its own incident, is closed under links and is the least such set.
LEMMA GroupLeast ==
    ASSUME NEW v, NEW i \in Candidates(v)
    PROVE  /\ i \in Group(v, i)
           /\ Group(v, i) \in SUBSET Candidates(v)
           /\ IsClosed(v, Group(v, i))
           /\ \A C \in SUBSET Candidates(v) : i \in C /\ IsClosed(v, C) => Group(v, i) \subseteq C
<1>1. i \in Group(v, i) /\ Group(v, i) \in SUBSET Candidates(v)
  BY DEF Group
<1>2. \A C \in SUBSET Candidates(v) : i \in C /\ IsClosed(v, C) => Group(v, i) \subseteq C
  BY DEF Group, IsClosed
<1>3. ASSUME NEW a \in Group(v, i), NEW b \in Candidates(v), Linked(v, a, b)
      PROVE  b \in Group(v, i)
  BY <1>3 DEF Group
<1> QED BY <1>1, <1>2, <1>3 DEF IsClosed

\* Two groups that share an incident are one group.
LEMMA GroupOfMember ==
    ASSUME NEW v \in [Incident -> View], NEW i \in Candidates(v), NEW k \in Group(v, i)
    PROVE  Group(v, k) = Group(v, i)
<1>1. k \in Candidates(v) /\ Candidates(v) \subseteq Incident
  BY GroupLeast DEF Candidates
<1>2. Group(v, k) \subseteq Group(v, i)
  BY <1>1, GroupLeast
<1>3. i \in Group(v, k)
  <2> SUFFICES ASSUME i \notin Group(v, k) PROVE FALSE
    OBVIOUS
  <2> DEFINE Rest == Group(v, i) \ Group(v, k)
  <2>1. IsClosed(v, Rest)
    <3> SUFFICES ASSUME NEW a \in Rest, NEW b \in Candidates(v), Linked(v, a, b)
                 PROVE  b \in Rest
      BY DEF IsClosed
    <3>1. b \in Group(v, i)
      BY GroupLeast DEF IsClosed
    <3>2. a \in Candidates(v) /\ Linked(v, b, a)
      BY <1>1, GroupLeast, LinkedSymmetric
    <3>3. b \notin Group(v, k)
      BY <1>1, <3>2, GroupLeast DEF IsClosed
    <3> QED BY <3>1, <3>3
  <2>2. Rest \in SUBSET Candidates(v) /\ i \in Rest
    BY GroupLeast
  <2>3. Group(v, i) \subseteq Rest
    BY <2>1, <2>2, GroupLeast
  <2> QED BY <1>1, <2>3, GroupLeast
<1>4. Group(v, i) \subseteq Group(v, k)
  BY <1>1, <1>3, GroupLeast
<1> QED BY <1>2, <1>4

\* The groups that become chains are disjoint.
LEMMA GroupsDisjoint ==
    ASSUME NEW v \in [Incident -> View], NEW g \in Groups(v), NEW h \in Groups(v), g # h
    PROVE  g \cap h = {}
<1>1. PICK i \in Candidates(v), j \in Candidates(v) : g = Group(v, i) /\ h = Group(v, j)
  BY DEF Groups
<1> QED BY <1>1, GroupOfMember

\* A chain cannot be split into two parts without a link between them.
LEMMA GroupsConnected ==
    ASSUME NEW v \in [Incident -> View], NEW g \in Groups(v),
           NEW S \in (SUBSET g) \ {{}, g}
    PROVE  \E i \in S, j \in g \ S : Linked(v, i, j)
<1> SUFFICES ASSUME \A i \in S, j \in g \ S : ~Linked(v, i, j) PROVE FALSE
  OBVIOUS
<1>1. PICK k \in Candidates(v) : g = Group(v, k)
  BY DEF Groups
<1>2. PICK i \in S : i \in Group(v, k)
  BY <1>1
<1>3. g = Group(v, i) /\ i \in Candidates(v) /\ S \in SUBSET Candidates(v)
  BY <1>1, <1>2, GroupOfMember, GroupLeast
<1>4. IsClosed(v, S)
  BY <1>1, GroupLeast DEF IsClosed
<1>5. g \subseteq S
  BY <1>3, <1>4, GroupLeast
<1> QED BY <1>5

\* Two linked candidates are in one of the groups that become chains.
LEMMA GroupsCoverLinks ==
    ASSUME NEW v \in [Incident -> View], NEW i \in Candidates(v), NEW j \in Candidates(v),
           i # j, Linked(v, i, j)
    PROVE  \E g \in Groups(v) : {i, j} \subseteq g
<1>1. i \in Group(v, i) /\ j \in Group(v, i) /\ Group(v, i) \subseteq Incident
  BY GroupLeast DEF IsClosed, Candidates
<1>2. IsFiniteSet(Group(v, i))
  BY <1>1, ChainBounds, FS_Subset
<1>3. Cardinality({i, j}) = 2
  <2>1. IsFiniteSet({i}) /\ Cardinality({i}) = 1
    BY FS_Singleton
  <2>2. Cardinality({i} \cup {j}) = 2
    BY <2>1, FS_AddElement
  <2>3. {i, j} = {i} \cup {j}
    OBVIOUS
  <2> QED BY <2>2, <2>3
<1>4. Cardinality({i, j}) <= Cardinality(Group(v, i)) /\ Cardinality(Group(v, i)) \in Nat
  BY <1>1, <1>2, FS_Subset, FS_CardinalityType
<1> QED BY <1>1, <1>3, <1>4 DEF Groups

\* A chain's confidence is one of the three levels.
LEMMA ConfidenceRange == ASSUME NEW v, NEW g PROVE Confidence(v, g) \in 0..2
BY DEF Confidence

\* Stage orders start at zero and stay below the number of stages.
LEMMA StageOrderRange ==
    ASSUME NEW v \in [Incident -> View], NEW g \in SUBSET Incident
    PROVE  /\ DOMAIN StageOrder(v, g) = g
           /\ \A i \in g : StageOrder(v, g)[i] \in 0..(Cardinality(g) - 1)
<1>1. ASSUME NEW i \in g PROVE StageOrder(v, g)[i] \in 0..(Cardinality(g) - 1)
  <2> DEFINE Earlier == {j \in g : Before(v, j, i)}
  <2>1. i \in Incident /\ i \in Nat /\ v[i].rank \in Nat /\ v[i].first \in Int
    BY ChainBounds DEF View
  <2>2. i \notin Earlier
    BY <2>1 DEF Before
  <2>3. IsFiniteSet(g)
    BY ChainBounds, FS_Subset
  <2>4. IsFiniteSet(g \ {i}) /\ Cardinality(g \ {i}) = Cardinality(g) - 1
    BY <2>3, FS_RemoveElement
  <2>5. Earlier \subseteq g \ {i}
    BY <2>2
  <2>6. IsFiniteSet(Earlier) /\ Cardinality(Earlier) <= Cardinality(g \ {i})
    BY <2>4, <2>5, FS_Subset
  <2>7. Cardinality(Earlier) \in Nat /\ Cardinality(g) \in Nat
    BY <2>3, <2>6, FS_CardinalityType
  <2>8. StageOrder(v, g)[i] = Cardinality(Earlier)
    BY DEF StageOrder
  <2> QED BY <2>4, <2>6, <2>7, <2>8
<1> QED BY <1>1 DEF StageOrder

----
\* The type invariant holds for every set of incidents, views and requests.
THEOREM ChainsTypeCorrect == Spec => []TypeOK
<1> DEFINE Row == {Gone} \cup [status : Status, level : 0..2]
<1>1. Init => TypeOK
  <2> SUFFICES ASSUME Init PROVE TypeOK
    OBVIOUS
  <2>1. view \in [Incident -> View]
    BY ChainBounds DEF Init
  <2>2. snap \in [Incident -> View]
    BY DEF Init, Unread, View
  <2>3. prior \in [SUBSET Incident -> Status \cup {"none"}]
    BY DEF Init, NoPrior
  <2>4. chain \in [ChainId -> Row]
    BY DEF Init
  <2>5. \A c \in ChainId : DOMAIN stages[c] = {}
    BY DEF Init, NoStages
  <2> QED BY <2>1, <2>2, <2>3, <2>4, <2>5, ChainBounds DEF Init, TypeOK
<1>2. TypeOK /\ [Next]_vars => TypeOK'
  <2> SUFFICES ASSUME TypeOK, [Next]_vars PROVE TypeOK'
    OBVIOUS
  <2> USE ChainBounds DEF TypeOK
  <2>1. ASSUME NEW i \in Incident, NEW v \in Views[i], Change(i, v) PROVE TypeOK'
    <3>1. view' \in [Incident -> View]
      BY <2>1 DEF Change
    <3> QED BY <2>1, <3>1 DEF Change
  <2>2. CASE ReadIncidents
    BY <2>2 DEF ReadIncidents
  <2>3. CASE ReadPrior
    <3>1. ASSUME NEW S \in SUBSET Incident PROVE StatusOf(S) \in Status \cup {"none"}
      <4>1. \A c \in ChainId : chain[c] \in Row /\ (chain[c] # Gone => chain[c].status \in Status)
        OBVIOUS
      <4> QED BY <4>1 DEF StatusOf
    <3>2. prior' \in [SUBSET Incident -> Status \cup {"none"}]
      BY <2>3, <3>1 DEF ReadPrior
    <3> QED BY <2>3, <3>2 DEF ReadPrior
  <2>4. CASE Erase
    <3>1. left' \subseteq SUBSET Incident
      BY <2>4 DEF Erase, Groups, Group, Candidates
    <3>2. chain' \in [ChainId -> Row] /\ \A c \in ChainId : DOMAIN stages'[c] = {}
      BY <2>4 DEF Erase, NoStages
    <3>3. fresh' = {}
      BY <2>4 DEF Erase
    <3> QED BY <2>4, <3>1, <3>2, <3>3 DEF Erase
  <2>5. ASSUME NEW g \in left, NEW c \in ChainId, InsertChain(g, c) PROVE TypeOK'
    <3>1. prior[g] \in Status \cup {"none"}
      OBVIOUS
    <3>2. chain' \in [ChainId -> Row]
      BY <2>5, <3>1, ConfidenceRange DEF InsertChain
    <3> QED BY <2>5, <3>2 DEF InsertChain
  <2>6. ASSUME NEW c \in ChainId, LinkChain(c) PROVE TypeOK'
    <3> DEFINE order == StageOrder(snap, fresh)
    <3>1. /\ DOMAIN order \subseteq Incident
          /\ \A i \in DOMAIN order : order[i] \in 0..(Cardinality(DOMAIN order) - 1)
      <4>1. fresh \in SUBSET Incident /\ snap \in [Incident -> View]
        BY <2>6 DEF LinkChain
      <4>2. /\ DOMAIN order = fresh
            /\ \A i \in fresh : order[i] \in 0..(Cardinality(fresh) - 1)
        BY <4>1, StageOrderRange
      <4> HIDE DEF order
      <4> QED BY <4>1, <4>2
    <3>2. \A d \in ChainId : stages'[d] = stages[d] \/ stages'[d] = order
      BY <2>6 DEF LinkChain
    <3> QED BY <2>6, <3>1, <3>2 DEF LinkChain
  <2>7. CASE Finish
    BY <2>7 DEF Finish, Forget, Unread, View, NoPrior
  <2>8. CASE Crash
    BY <2>8 DEF Crash, Forget, Unread, View, NoPrior
  <2>9. ASSUME NEW r \in Request, NEW c \in ChainId, NEW st \in Status, LoadChain(r, c, st)
        PROVE  TypeOK'
    <3>1. chain[c].status \in Status
      BY <2>9 DEF LoadChain
    <3> QED BY <2>9, <3>1 DEF LoadChain
  <2>10. ASSUME NEW r \in Request, SaveStatus(r) PROVE TypeOK'
    <3>1. request[r].id \in ChainId /\ request[r].choice \in Status
      BY <2>10 DEF SaveStatus, Done
    <3>2. chain' \in [ChainId -> Row]
      BY <2>10, <3>1 DEF SaveStatus
    <3>3. late' \subseteq SUBSET Incident
      BY <2>10, <3>1 DEF SaveStatus
    <3> QED BY <2>10, <3>2, <3>3 DEF SaveStatus
  <2>11. CASE UNCHANGED vars
    BY <2>11 DEF vars
  <2> QED
    BY <2>1, <2>2, <2>3, <2>4, <2>5, <2>6, <2>7, <2>8, <2>9, <2>10, <2>11 DEF Next
<1> QED BY <1>1, <1>2, PTL DEF Spec

----
\* What makes the two properties below inductive: while chains are written, each
\* group is either still to come or has its chain, and the row that is about to be
\* linked has no links yet.
ChainInv ==
    /\ stages = [c \in ChainId |-> stages[c]]
    /\ EachIncidentOnce
    /\ pc \notin {"write", "link"} => left = {}
    /\ \A c \in ChainId : pc = "link" /\ LastId(c) => DOMAIN stages[c] = {}
    /\ pc \in {"write", "link"} =>
        /\ left \subseteq Groups(snap)
        /\ \A c \in ChainId :
            /\ DOMAIN stages[c] \in Groups(snap) \cup {{}}
            /\ DOMAIN stages[c] # {} => chain[c] # Gone
            /\ \A g \in left : DOMAIN stages[c] \cap g = {}
        /\ \A g \in Groups(snap) : g \in left \/ \E c \in ChainId : DOMAIN stages[c] = g

LEMMA ChainInvariant == Spec => []ChainInv
<1>1. Init => ChainInv
  BY DEF Init, ChainInv, EachIncidentOnce, NoStages
<1>2. TypeOK /\ ChainInv /\ [Next]_vars => ChainInv'
  <2> SUFFICES ASSUME TypeOK, ChainInv, [Next]_vars PROVE ChainInv'
    OBVIOUS
  <2> USE DEF ChainInv, EachIncidentOnce
  <2>1. ASSUME NEW i \in Incident, NEW v \in Views[i], Change(i, v) PROVE ChainInv'
    BY <2>1 DEF Change, LastId
  <2>2. CASE ReadIncidents
    BY <2>2 DEF ReadIncidents
  <2>3. CASE ReadPrior
    BY <2>3 DEF ReadPrior
  <2>4. CASE Erase
    BY <2>4 DEF Erase, NoStages
  <2>5. ASSUME NEW g \in left, NEW c \in ChainId, InsertChain(g, c) PROVE ChainInv'
    <3>1. chain = [d \in ChainId |-> chain[d]] /\ prior[g] \in Status \cup {"none"}
      BY DEF TypeOK
    <3>2. chain[c] = Gone
      BY <2>5 DEF InsertChain, NextId, ChainId
    <3>3. chain'[c] # Gone /\ \A d \in ChainId \ {c} : chain'[d] = chain[d]
      BY <2>5, <3>1, ChainBounds DEF InsertChain, Gone
    <3>4. \A d \in ChainId : LastId(d)' => d = c
      <4>1. SUFFICES ASSUME NEW d \in ChainId, LastId(d)' PROVE d = c
        OBVIOUS
      <4>2. \A e \in ChainId : (e <= d) <=> (chain'[e] # Gone)
        BY <4>1 DEF LastId
      <4>3. \A e \in ChainId : (e < c) <=> (chain[e] # Gone)
        BY <2>5 DEF InsertChain, NextId
      <4>4. c <= d
        BY <3>3, <4>2
      <4>5. d \in Int /\ c \in Int /\ d <= d
        BY DEF ChainId
      <4>6. chain'[d] # Gone
        BY <4>2, <4>5
      <4>7. d # c => d < c
        BY <3>3, <4>3, <4>6
      <4> QED BY <4>4, <4>5, <4>7
    <3>5. DOMAIN stages[c] = {}
      BY <2>5, <3>2 DEF InsertChain
    <3> QED BY <2>5, <3>3, <3>4, <3>5 DEF InsertChain
  <2>6. ASSUME NEW c \in ChainId, LinkChain(c) PROVE ChainInv'
    <3>1. snap \in [Incident -> View] /\ fresh \in left /\ fresh \in SUBSET Incident
      BY <2>6 DEF LinkChain, TypeOK
    <3>2. /\ stages' = [stages EXCEPT ![c] = StageOrder(snap, fresh)]
          /\ left' = left \ {fresh} /\ pc' = "write" /\ pc = "link"
          /\ UNCHANGED <<chain, snap>> /\ LastId(c)
      BY <2>6 DEF LinkChain
    <3>3. DOMAIN stages'[c] = fresh /\ \A d \in ChainId \ {c} : stages'[d] = stages[d]
      BY <3>1, <3>2, StageOrderRange
    <3>4. \A g \in left' : g \cap fresh = {}
      BY <3>1, <3>2, GroupsDisjoint
    <3>5. \A d \in ChainId : DOMAIN stages[d] \cap fresh = {}
      BY <3>1, <3>2
    <3>6. EachIncidentOnce'
      BY <3>3, <3>5
    <3>7. chain[c] # Gone
      BY <3>2 DEF LastId, ChainId
    <3>8. DOMAIN stages[c] = {}
      BY <3>2
    <3>9. \A g \in Groups(snap) : g # {}
      <4>1. \A i \in Candidates(snap) : i \in Group(snap, i)
        BY GroupLeast
      <4> QED BY <4>1 DEF Groups
    <3>10. stages' = [d \in ChainId |-> stages'[d]]
      BY <3>2
    <3>11. \A d \in ChainId :
             /\ DOMAIN stages'[d] \in Groups(snap) \cup {{}}
             /\ DOMAIN stages'[d] # {} => chain[d] # Gone
             /\ \A g \in left' : DOMAIN stages'[d] \cap g = {}
      <4>1. fresh \in Groups(snap)
        BY <3>1, <3>2
      <4>2. ASSUME NEW d \in ChainId PROVE
             /\ DOMAIN stages[d] \in Groups(snap) \cup {{}}
             /\ DOMAIN stages[d] # {} => chain[d] # Gone
             /\ \A g \in left : DOMAIN stages[d] \cap g = {}
        BY <3>2
      <4> QED BY <3>2, <3>3, <3>4, <3>7, <4>1, <4>2
    <3>12. \A g \in Groups(snap) : g \in left' \/ \E d \in ChainId : DOMAIN stages'[d] = g
      BY <3>2, <3>3, <3>8, <3>9
    <3> QED BY <3>2, <3>6, <3>10, <3>11, <3>12
  <2>7. CASE Finish
    BY <2>7 DEF Finish, Forget
  <2>8. CASE Crash
    BY <2>8 DEF Crash, Forget
  <2>9. ASSUME NEW r \in Request, NEW c \in ChainId, NEW st \in Status, LoadChain(r, c, st)
        PROVE  ChainInv'
    BY <2>9 DEF LoadChain, LastId
  <2>10. ASSUME NEW r \in Request, SaveStatus(r) PROVE ChainInv'
    <3>1. \A c \in ChainId : (chain'[c] # Gone) <=> (chain[c] # Gone)
      <4>1. request[r].choice \in Status
        BY <2>10 DEF SaveStatus, Done, TypeOK
      <4>2. \A c \in ChainId : chain[c] \in {Gone} \cup [status : Status, level : 0..2]
        BY DEF TypeOK
      <4>3. chain = [c \in ChainId |-> chain[c]]
        BY DEF TypeOK
      <4> QED BY <2>10, <4>1, <4>2, <4>3, ChainBounds DEF SaveStatus, Gone
    <3>2. \A c \in ChainId : LastId(c)' => LastId(c)
      BY <3>1 DEF LastId
    <3> QED BY <2>10, <3>1, <3>2 DEF SaveStatus
  <2>11. CASE UNCHANGED vars
    BY <2>11 DEF vars, LastId
  <2> QED
    BY <2>1, <2>2, <2>3, <2>4, <2>5, <2>6, <2>7, <2>8, <2>9, <2>10, <2>11 DEF Next
<1> QED BY <1>1, <1>2, ChainsTypeCorrect, PTL DEF Spec

\* No commit of a rebuild, also of one that dies, leaves an incident in two chains.
THEOREM IncidentsInOneChain == Spec => []EachIncidentOnce
<1>1. ChainInv => EachIncidentOnce
  BY DEF ChainInv
<1> QED BY <1>1, ChainInvariant, PTL

\* A completed rebuild has put linked incidents together and nothing else.
THEOREM ChainsAreExact == Spec => []PassExact
<1>1. TypeOK /\ ChainInv => PassExact
  <2> SUFFICES ASSUME TypeOK, ChainInv, PassComplete PROVE
        /\ \A i, j \in Candidates(snap) : i # j /\ Linked(snap, i, j) =>
            \E c \in ChainId : chain[c] # Gone /\ {i, j} \subseteq DOMAIN stages[c]
        /\ \A c \in ChainId : \A S \in (SUBSET DOMAIN stages[c]) \ {{}, DOMAIN stages[c]} :
            \E i \in S, j \in DOMAIN stages[c] \ S : Linked(snap, i, j)
    BY DEF PassExact
  <2>1. snap \in [Incident -> View] /\ left = {} /\ pc = "write"
    BY DEF TypeOK, PassComplete
  <2>2. /\ \A c \in ChainId : /\ DOMAIN stages[c] \in Groups(snap) \cup {{}}
                              /\ DOMAIN stages[c] # {} => chain[c] # Gone
        /\ \A g \in Groups(snap) : \E c \in ChainId : DOMAIN stages[c] = g
    BY <2>1 DEF ChainInv
  <2>3. ASSUME NEW i \in Candidates(snap), NEW j \in Candidates(snap),
               i # j, Linked(snap, i, j)
        PROVE  \E c \in ChainId : chain[c] # Gone /\ {i, j} \subseteq DOMAIN stages[c]
    <3>1. PICK g \in Groups(snap) : {i, j} \subseteq g
      BY <2>1, <2>3, GroupsCoverLinks
    <3> QED BY <2>2, <3>1
  <2>4. ASSUME NEW c \in ChainId, NEW S \in (SUBSET DOMAIN stages[c]) \ {{}, DOMAIN stages[c]}
        PROVE  \E i \in S, j \in DOMAIN stages[c] \ S : Linked(snap, i, j)
    <3>1. DOMAIN stages[c] \in Groups(snap)
      BY <2>2, <2>4
    <3> QED BY <2>1, <3>1, GroupsConnected
  <2> QED BY <2>3, <2>4
<1> QED BY <1>1, ChainInvariant, ChainsTypeCorrect, PTL

----
\* What a status request commits: at most the status of its chain, and while the
\* rebuild may still have read the old one, the chain's set of incidents is late.
LEMMA SaveFacts ==
    ASSUME TypeOK, NEW r \in Request, SaveStatus(r), NEW c \in ChainId
    PROVE  /\ chain'[c] # Gone <=> chain[c] # Gone
           /\ chain'[c].level = chain[c].level
           /\ \/ chain'[c].status = chain[c].status
              \/ pc = "erase" => DOMAIN stages[c] \in late'
           /\ UNCHANGED <<stages, pc, snap, prior, left, fresh>> /\ late \subseteq late'
<1>1. /\ chain = [d \in ChainId |-> chain[d]] /\ request[r].choice \in Status
      /\ chain[c] \in {Gone} \cup [status : Status, level : 0..2]
  BY DEF TypeOK, SaveStatus, Done
<1>2. CASE chain' = chain
  BY <1>2 DEF SaveStatus
<1>3. CASE chain' # chain
  <2> DEFINE d == request[r].id
  <2>1. /\ chain' = [chain EXCEPT ![d].status = request[r].choice] /\ chain[d] # Gone
        /\ pc = "erase" => late' = late \cup {DOMAIN stages[d]}
    BY <1>3 DEF SaveStatus
  <2>2. CASE c = d
    <3>1. chain'[c] = [chain[c] EXCEPT !.status = request[r].choice]
      BY <1>1, <2>1, <2>2
    <3>2. chain[c] \in [status : Status, level : 0..2]
      BY <1>1, <2>1, <2>2
    <3>3. chain'[c].status \in Status /\ chain'[c].level = chain[c].level
      BY <1>1, <3>1, <3>2
    <3> QED BY <2>1, <2>2, <3>3, ChainBounds DEF SaveStatus, Gone
  <2>3. CASE c # d
    BY <1>1, <2>1, <2>3 DEF SaveStatus
  <2> QED BY <2>2, <2>3
<1> QED BY <1>2, <1>3

\* The row inserted last is the one the rebuild is about to link.
LEMMA InsertedIsLast ==
    ASSUME TypeOK, NEW g \in left, NEW c \in ChainId, InsertChain(g, c)
    PROVE  /\ chain[c] = Gone /\ chain'[c] # Gone
           /\ chain'[c].status = IF prior[g] = "none" THEN "open" ELSE prior[g]
           /\ chain'[c].level = Confidence(snap, g)
           /\ \A d \in ChainId \ {c} : chain'[d] = chain[d]
           /\ \A d \in ChainId : LastId(d)' <=> d = c
<1>1. chain = [d \in ChainId |-> chain[d]] /\ prior[g] \in Status \cup {"none"}
  BY DEF TypeOK
<1>2. \A d \in ChainId : d \in Int
  BY DEF ChainId
<1>3. chain[c] = Gone
  BY <1>2 DEF InsertChain, NextId
<1>4. /\ chain'[c] = [status |-> IF prior[g] = "none" THEN "open" ELSE prior[g],
                      level |-> Confidence(snap, g)]
      /\ \A d \in ChainId \ {c} : chain'[d] = chain[d]
  BY <1>1 DEF InsertChain
<1>5. chain'[c] # Gone
  BY <1>1, <1>4, ChainBounds DEF Gone
<1>6. \A d \in ChainId : chain'[d] # Gone <=> d <= c
  <2>1. \A d \in ChainId : (d < c) <=> (chain[d] # Gone)
    BY DEF InsertChain, NextId
  <2> QED BY <1>2, <1>4, <1>5, <2>1
<1>7. ASSUME NEW d \in ChainId PROVE LastId(d)' <=> d = c
  <2>1. LastId(d)' <=> \A e \in ChainId : (e <= d) <=> (e <= c)
    BY <1>6 DEF LastId
  <2> QED BY <1>2, <2>1
<1> QED BY <1>3, <1>4, <1>5, <1>7

\* There is one such row at a time.
LEMMA LastIsUnique ==
    ASSUME NEW c \in ChainId, NEW d \in ChainId, LastId(c), LastId(d)
    PROVE  c = d
<1>1. c \in Int /\ d \in Int
  BY DEF ChainId
<1>2. (c <= d) <=> (c <= c)
  BY DEF LastId
<1>3. (d <= c) <=> (d <= d)
  BY DEF LastId
<1> QED BY <1>1, <1>2, <1>3

\* A linked chain carries the stages and the confidence of its own incidents; the row
\* still to be linked, the confidence of the group it is for.
LevelsExact ==
    /\ pc \in {"write", "link"} => \A c \in ChainId : DOMAIN stages[c] # {} =>
            /\ stages[c] = StageOrder(snap, DOMAIN stages[c])
            /\ chain[c].level = Confidence(snap, DOMAIN stages[c])
    /\ pc = "link" => \A c \in ChainId : LastId(c) => chain[c].level = Confidence(snap, fresh)

LEMMA LevelsInvariant == Spec => []LevelsExact
<1>1. Init => LevelsExact
  BY DEF Init, LevelsExact
<1>2. TypeOK /\ ChainInv /\ LevelsExact /\ [Next]_vars => LevelsExact'
  <2> SUFFICES ASSUME TypeOK, ChainInv, LevelsExact, [Next]_vars PROVE LevelsExact'
    OBVIOUS
  <2> USE DEF LevelsExact
  <2>1. ASSUME NEW i \in Incident, NEW v \in Views[i], Change(i, v) PROVE LevelsExact'
    BY <2>1 DEF Change, LastId
  <2>2. CASE ReadIncidents \/ ReadPrior \/ Finish \/ Crash
    BY <2>2 DEF ReadIncidents, ReadPrior, Finish, Crash, Forget
  <2>3. CASE Erase
    BY <2>3 DEF Erase, NoStages
  <2>4. ASSUME NEW g \in left, NEW c \in ChainId, InsertChain(g, c) PROVE LevelsExact'
    <3>1. UNCHANGED <<stages, snap>> /\ fresh' = g /\ pc = "write"
      BY <2>4 DEF InsertChain
    <3>2. DOMAIN stages[c] = {}
      BY <2>4, <3>1, InsertedIsLast DEF ChainInv
    <3> QED BY <2>4, <3>1, <3>2, InsertedIsLast
  <2>5. ASSUME NEW c \in ChainId, LinkChain(c) PROVE LevelsExact'
    <3>1. snap \in [Incident -> View] /\ fresh \in SUBSET Incident
      BY <2>5 DEF LinkChain, TypeOK
    <3>2. /\ stages' = [stages EXCEPT ![c] = StageOrder(snap, fresh)]
          /\ pc' = "write" /\ pc = "link" /\ LastId(c) /\ UNCHANGED <<chain, snap>>
      BY <2>5 DEF LinkChain
    <3>3. /\ stages'[c] = StageOrder(snap, fresh) /\ DOMAIN stages'[c] = fresh
          /\ \A d \in ChainId \ {c} : stages'[d] = stages[d]
      BY <3>1, <3>2, StageOrderRange DEF ChainInv
    <3> QED BY <3>2, <3>3
  <2>6. ASSUME NEW r \in Request, NEW c \in ChainId, NEW st \in Status, LoadChain(r, c, st)
        PROVE  LevelsExact'
    BY <2>6 DEF LoadChain, LastId
  <2>7. ASSUME NEW r \in Request, SaveStatus(r) PROVE LevelsExact'
    <3>1. \A c \in ChainId : LastId(c)' => LastId(c)
      BY <2>7, SaveFacts DEF LastId
    <3> QED BY <2>7, <3>1, SaveFacts
  <2>8. CASE UNCHANGED vars
    BY <2>8 DEF vars, LastId
  <2> QED BY <2>1, <2>2, <2>3, <2>4, <2>5, <2>6, <2>7, <2>8 DEF Next
<1> QED BY <1>1, <1>2, ChainsTypeCorrect, ChainInvariant, PTL DEF Spec

\* Full confidence rules out an unlinked and a long step between adjacent stages.
LEMMA FullConfidence ==
    ASSUME NEW v, NEW g, Confidence(v, g) = 2, NEW i \in g, NEW j \in g,
           Adjacent(StageOrder(v, g), i, j)
    PROVE  Shared(v, i, j) # {} /\ ~(Gap(v[i], v[j]) > StrongHours)
<1> DEFINE pairs == {p \in g \X g : Adjacent(StageOrder(v, g), p[1], p[2])}
           linkers == UNION {Shared(v, p[1], p[2]) : p \in pairs}
           hubHost == \A p \in pairs : \E h \in Host : Shared(v, p[1], p[2]) = {h}
           a == IF hubHost THEN 2 ELSE 0
           b == IF \E p \in pairs : Shared(v, p[1], p[2]) = {} THEN 2 ELSE 0
           c == IF \E p \in pairs : Gap(v[p[1]], v[p[2]]) > StrongHours THEN 1 ELSE 0
           d == IF \A k \in g : ~v[k].native THEN 1 ELSE 0
           e == IF Cardinality(linkers) <= 1 THEN 1 ELSE 0
<1>1. /\ a \in {0, 2} /\ b \in {0, 2} /\ c \in {0, 1} /\ d \in {0, 1} /\ e \in {0, 1}
  OBVIOUS
<1>2. Confidence(v, g) = IF a + b + c + d + e >= 2 THEN 0 ELSE 2 - (a + b + c + d + e)
  BY DEF Confidence
<1>3. <<i, j>> \in pairs
  OBVIOUS
<1>4. b = 0 /\ c = 0
  <2> HIDE DEF a, b, c, d, e
  <2> QED BY <1>1, <1>2
<1> QED BY <1>3, <1>4

\* High confidence means that successive stages are linked directly.
THEOREM HighConfidenceIsDirect == Spec => []HighIsDirect
<1>1. TypeOK /\ LevelsExact => HighIsDirect
  <2> SUFFICES ASSUME TypeOK, LevelsExact, pc = "write",
                      NEW c \in ChainId, chain[c].level = 2,
                      NEW i \in DOMAIN stages[c], NEW j \in DOMAIN stages[c],
                      Adjacent(stages[c], i, j)
               PROVE  Linked(snap, i, j)
    BY DEF HighIsDirect
  <2>1. /\ stages[c] = StageOrder(snap, DOMAIN stages[c])
        /\ Confidence(snap, DOMAIN stages[c]) = 2
    BY DEF LevelsExact
  <2>2. Shared(snap, i, j) # {} /\ ~(Gap(snap[i], snap[j]) > StrongHours)
    BY <2>1, FullConfidence
  <2>3. Gap(snap[i], snap[j]) \in Int
    <3>1. i \in Incident /\ j \in Incident /\ snap \in [Incident -> View]
      BY DEF TypeOK
    <3> QED BY <3>1 DEF Gap, View
  <2>4. Gap(snap[i], snap[j]) <= LinkHours
    BY <2>2, <2>3, ChainBounds
  <2> QED BY <2>2, <2>4 DEF Linked
<1> QED BY <1>1, LevelsInvariant, ChainsTypeCorrect, PTL

----
\* StatusOf, over any rows and links.
Carries(ch, st, c, S) == ch[c] # Gone /\ DOMAIN st[c] = S
StatusIn(ch, st, S) ==
    IF \E c \in ChainId : Carries(ch, st, c, S)
    THEN ch[CHOOSE c \in ChainId : Carries(ch, st, c, S)].status
    ELSE "none"

\* Among disjoint chains at most one has the incidents S, and its status is theirs.
LEMMA StatusOfOne ==
    ASSUME NEW ch, NEW st, NEW S, S # {},
           \A c, d \in ChainId : c # d => DOMAIN st[c] \cap DOMAIN st[d] = {},
           NEW c \in ChainId, Carries(ch, st, c, S)
    PROVE  StatusIn(ch, st, S) = ch[c].status
<1>1. \A d \in ChainId : Carries(ch, st, d, S) => d = c
  BY DEF Carries
<1>2. (CHOOSE d \in ChainId : Carries(ch, st, d, S)) = c
  BY <1>1
<1> QED BY <1>2 DEF StatusIn

LEMMA StatusOfNone ==
    ASSUME NEW ch, NEW st, NEW S, \A c \in ChainId : ~Carries(ch, st, c, S)
    PROVE  StatusIn(ch, st, S) = "none"
BY DEF StatusIn

\* What changes no row of S keeps its status.
LEMMA StatusStays ==
    ASSUME NEW ch, NEW st, NEW dh, NEW dt, NEW S, S # {},
           \A c, d \in ChainId : c # d => DOMAIN st[c] \cap DOMAIN st[d] = {},
           \A c, d \in ChainId : c # d => DOMAIN dt[c] \cap DOMAIN dt[d] = {},
           \A c \in ChainId : Carries(ch, st, c, S) <=> Carries(dh, dt, c, S),
           \A c \in ChainId : Carries(ch, st, c, S) => ch[c].status = dh[c].status
    PROVE  StatusIn(ch, st, S) = StatusIn(dh, dt, S)
<1>1. CASE \E c \in ChainId : Carries(ch, st, c, S)
  BY <1>1, StatusOfOne
<1>2. CASE \A c \in ChainId : ~Carries(ch, st, c, S)
  BY <1>2, StatusOfNone
<1> QED BY <1>1, <1>2

LEMMA StatusOfIn ==
    ASSUME NEW S
    PROVE  /\ StatusOf(S) = StatusIn(chain, stages, S)
           /\ StatusOf(S)' = StatusIn(chain', stages', S)
BY DEF StatusOf, StatusIn, Carries

\* The statuses a rebuild has read are still those of the tables, but for the sets of
\* incidents that were given one since.
CallsInv ==
    /\ pc \in {"idle", "prior"} => prior = NoPrior
    /\ pc = "erase" => \A S \in (SUBSET Incident) \ {{}} : S \notin late => prior[S] = StatusOf(S)

LEMMA CallsInvariant == Spec => []CallsInv
<1>1. Init => CallsInv
  BY DEF Init, CallsInv
<1>2. TypeOK /\ ChainInv /\ CallsInv /\ [Next]_vars => CallsInv'
  <2> SUFFICES ASSUME TypeOK, ChainInv, CallsInv, [Next]_vars PROVE CallsInv'
    OBVIOUS
  <2> USE DEF CallsInv
  <2>1. ASSUME NEW i \in Incident, NEW v \in Views[i], Change(i, v) PROVE CallsInv'
    BY <2>1 DEF Change, StatusOf
  <2>2. CASE ReadIncidents
    BY <2>2 DEF ReadIncidents
  <2>3. CASE ReadPrior
    BY <2>3 DEF ReadPrior, StatusOf
  <2>4. CASE Erase
    BY <2>4 DEF Erase
  <2>5. ASSUME NEW g \in left, NEW c \in ChainId, InsertChain(g, c) PROVE CallsInv'
    BY <2>5 DEF InsertChain
  <2>6. ASSUME NEW c \in ChainId, LinkChain(c) PROVE CallsInv'
    BY <2>6 DEF LinkChain
  <2>7. CASE Finish \/ Crash
    BY <2>7 DEF Finish, Crash, Forget
  <2>8. ASSUME NEW r \in Request, NEW c \in ChainId, NEW st \in Status, LoadChain(r, c, st)
        PROVE  CallsInv'
    BY <2>8 DEF LoadChain, StatusOf
  <2>9. ASSUME NEW r \in Request, SaveStatus(r) PROVE CallsInv'
    <3>1. ASSUME pc = "erase", NEW S \in (SUBSET Incident) \ {{}}, S \notin late'
          PROVE  StatusOf(S)' = StatusOf(S) /\ S \notin late
      <4>1. \A c \in ChainId : /\ chain'[c] # Gone <=> chain[c] # Gone
                               /\ DOMAIN stages[c] = S => chain'[c].status = chain[c].status
        BY <2>9, <3>1, SaveFacts
      <4>2. stages' = stages /\ late \subseteq late'
        BY <2>9 DEF SaveStatus
      <4>3. StatusIn(chain', stages', S) = StatusIn(chain, stages, S)
        BY <4>1, <4>2, StatusStays DEF Carries, ChainInv, EachIncidentOnce
      <4> QED BY <3>1, <4>2, <4>3, StatusOfIn
    <3> QED BY <2>9, <3>1 DEF SaveStatus
  <2>10. CASE UNCHANGED vars
    BY <2>10 DEF vars, StatusOf
  <2> QED BY <2>1, <2>2, <2>3, <2>4, <2>5, <2>6, <2>7, <2>8, <2>9, <2>10 DEF Next
<1> QED BY <1>1, <1>2, ChainsTypeCorrect, ChainInvariant, PTL DEF Spec

\* What a set of incidents counts as, in the middle of a link and otherwise.
LEMMA BoardOf ==
    ASSUME NEW S
    PROVE  /\ ~(pc = "link" /\ S = fresh) =>
                Board(S) = IF StatusOf(S) = "none" THEN prior[S] ELSE StatusOf(S)
           /\ \A c \in ChainId : pc = "link" /\ S = fresh /\ LastId(c) => Board(S) = chain[c].status
           /\ ~(pc' = "link" /\ S = fresh') =>
                Board(S)' = IF StatusOf(S)' = "none" THEN prior'[S] ELSE StatusOf(S)'
<1>1. ASSUME NEW c \in ChainId, pc = "link", S = fresh, LastId(c)
      PROVE  Board(S) = chain[c].status
  <2>1. (CHOOSE d \in ChainId : LastId(d)) = c
    BY <1>1, LastIsUnique
  <2> QED BY <1>1, <2>1 DEF Board
<1> QED BY <1>1 DEF Board

\* The statuses in the rebuild's hands are not touched by what touches neither.
LEMMA BoardStays ==
    ASSUME NEW S, UNCHANGED <<chain, stages, prior, fresh>>,
           pc = "link" <=> pc' = "link"
    PROVE  Board(S)' = Board(S)
BY DEF Board, StatusOf, LastId

LEMMA InsertKeepsCalls ==
    ASSUME TypeOK, ChainInv, NEW g \in left, NEW c \in ChainId, InsertChain(g, c),
           NEW S \in (SUBSET Incident) \ {{}}, Board(S) # "none"
    PROVE  Board(S)' = Board(S)
<1>1. /\ UNCHANGED <<stages, prior>> /\ fresh' = g /\ pc = "write" /\ pc' = "link"
      /\ chain[c] = Gone /\ DOMAIN stages[c] = {}
  BY InsertedIsLast DEF InsertChain, ChainInv
<1>2. Board(S) = IF StatusOf(S) = "none" THEN prior[S] ELSE StatusOf(S)
  BY <1>1, BoardOf
<1>3. CASE S = g
  <2>1. \A d \in ChainId : ~Carries(chain, stages, d, S)
    BY <1>1, <1>3 DEF ChainInv, Carries
  <2>2. Board(S) = prior[S]
    BY <1>2, <2>1, StatusOfNone, StatusOfIn
  <2>3. (CHOOSE d \in ChainId : LastId(d)') = c
    BY InsertedIsLast
  <2>4. Board(S)' = chain'[c].status
    BY <1>1, <1>3, <2>3 DEF Board
  <2> QED BY <1>3, <2>2, <2>4, InsertedIsLast
<1>4. CASE S # g
  <2>1. \A d \in ChainId : /\ Carries(chain, stages, d, S) <=> Carries(chain', stages', d, S)
                           /\ Carries(chain, stages, d, S) => chain'[d].status = chain[d].status
    BY <1>1, InsertedIsLast DEF Carries
  <2>2. \A d, e \in ChainId : d # e => DOMAIN stages[d] \cap DOMAIN stages[e] = {}
    BY DEF ChainInv, EachIncidentOnce
  <2>3. \A d, e \in ChainId : d # e => DOMAIN stages'[d] \cap DOMAIN stages'[e] = {}
    BY <1>1, <2>2
  <2>4. StatusIn(chain, stages, S) = StatusIn(chain', stages', S)
    BY <2>1, <2>2, <2>3, StatusStays
  <2>5. StatusOf(S)' = StatusOf(S)
    BY <2>4, StatusOfIn
  <2> QED BY <1>1, <1>2, <1>4, <2>5, BoardOf
<1> QED BY <1>3, <1>4

LEMMA LinkKeepsCalls ==
    ASSUME TypeOK, ChainInv, ChainInv', NEW c \in ChainId, LinkChain(c),
           NEW S \in (SUBSET Incident) \ {{}}
    PROVE  Board(S)' = Board(S)
<1>1. /\ UNCHANGED <<chain, prior>> /\ fresh' = {} /\ pc = "link" /\ pc' = "write" /\ LastId(c)
      /\ DOMAIN stages[c] = {} /\ chain[c] # Gone /\ chain[c].status \in Status
  <2>1. LastId(c) /\ c <= c
    BY DEF LinkChain, ChainId
  <2>2. chain[c] # Gone
    BY <2>1 DEF LastId
  <2>3. chain[c] \in {Gone} \cup [status : Status, level : 0..2]
    BY DEF TypeOK
  <2> QED BY <2>1, <2>2, <2>3 DEF LinkChain, ChainInv
<1>2. DOMAIN stages'[c] = fresh /\ \A d \in ChainId \ {c} : stages'[d] = stages[d]
  <2>1. snap \in [Incident -> View] /\ fresh \in SUBSET Incident
    BY DEF LinkChain, TypeOK
  <2>2. stages' = [stages EXCEPT ![c] = StageOrder(snap, fresh)]
    BY DEF LinkChain
  <2> QED BY <2>1, <2>2, StageOrderRange DEF ChainInv
<1>3. Board(S)' = IF StatusOf(S)' = "none" THEN prior[S] ELSE StatusOf(S)'
  BY <1>1, BoardOf
<1>4. \A d, e \in ChainId : d # e => DOMAIN stages[d] \cap DOMAIN stages[e] = {}
  BY DEF ChainInv, EachIncidentOnce
<1>5. \A d, e \in ChainId : d # e => DOMAIN stages'[d] \cap DOMAIN stages'[e] = {}
  BY DEF ChainInv, EachIncidentOnce
<1>6. CASE S = fresh
  <2>1. Carries(chain', stages', c, S)
    BY <1>1, <1>2, <1>6 DEF Carries
  <2>2. StatusIn(chain', stages', S) = chain'[c].status
    BY <1>5, <2>1, StatusOfOne
  <2>3. StatusOf(S)' = chain[c].status
    BY <1>1, <2>2, StatusOfIn
  <2>4. Board(S) = chain[c].status
    BY <1>1, <1>6, BoardOf
  <2> QED BY <1>1, <1>3, <2>3, <2>4, ChainBounds
<1>7. CASE S # fresh
  <2>1. \A d \in ChainId : Carries(chain, stages, d, S) <=> Carries(chain', stages', d, S)
    BY <1>1, <1>2, <1>7 DEF Carries
  <2>2. StatusIn(chain, stages, S) = StatusIn(chain', stages', S)
    BY <1>1, <1>4, <1>5, <2>1, StatusStays
  <2>3. StatusOf(S)' = StatusOf(S)
    BY <2>2, StatusOfIn
  <2> QED BY <1>1, <1>3, <1>7, <2>3, BoardOf
<1> QED BY <1>6, <1>7

\* An analyst's call on a chain survives every commit of every rebuild, but for the
\* exceptions CallsKept names.
THEOREM CallsAreKept == Spec => CallsKept
<1> DEFINE Lost(S) == Board(S) # "none" /\ Board(S)' # Board(S)
           Excused(S) == \/ crashes' > crashes
                         \/ request' # request
                         \/ S \in late
                         \/ PassComplete /\ S \notin Groups(snap)
<1>1. TypeOK /\ ChainInv /\ ChainInv' /\ CallsInv /\ [Next]_vars =>
        [\A S \in (SUBSET Incident) \ {{}} : Lost(S) => Excused(S)]_vars
  <2> SUFFICES ASSUME TypeOK, ChainInv, ChainInv', CallsInv, [Next]_vars,
                      NEW S \in (SUBSET Incident) \ {{}}, Lost(S)
               PROVE  Excused(S)
    BY DEF Lost, Excused
  <2>1. ASSUME NEW i \in Incident, NEW v \in Views[i], Change(i, v) PROVE FALSE
    BY <2>1, BoardStays DEF Change
  <2>2. CASE ReadIncidents
    BY <2>2, BoardStays DEF ReadIncidents
  <2>3. CASE ReadPrior
    <3>1. /\ pc = "prior" /\ pc' = "erase" /\ prior = NoPrior /\ prior'[S] = StatusOf(S)
          /\ StatusOf(S)' = StatusOf(S)
      BY <2>3 DEF ReadPrior, CallsInv, StatusOf
    <3>2. Board(S) = IF StatusOf(S) = "none" THEN prior[S] ELSE StatusOf(S)
      BY <3>1, BoardOf
    <3>3. Board(S)' = IF StatusOf(S)' = "none" THEN prior'[S] ELSE StatusOf(S)'
      BY <3>1, BoardOf
    <3> QED BY <3>1, <3>2, <3>3 DEF NoPrior
  <2>4. CASE Erase
    <3>1. /\ pc = "erase" /\ pc' = "write" /\ prior' = prior
          /\ S \notin late => prior[S] = StatusOf(S)
      BY <2>4 DEF Erase, CallsInv
    <3>2. \A c \in ChainId : ~Carries(chain', stages', c, S)
      BY <2>4 DEF Erase, Carries
    <3>3. StatusOf(S)' = "none"
      BY <3>2, StatusOfNone, StatusOfIn
    <3>4. Board(S) = IF StatusOf(S) = "none" THEN prior[S] ELSE StatusOf(S)
      BY <3>1, BoardOf
    <3>5. Board(S)' = prior[S]
      BY <3>1, <3>3, BoardOf
    <3> QED BY <3>1, <3>4, <3>5
  <2>5. ASSUME NEW g \in left, NEW c \in ChainId, InsertChain(g, c) PROVE FALSE
    BY <2>5, InsertKeepsCalls
  <2>6. ASSUME NEW c \in ChainId, LinkChain(c) PROVE FALSE
    BY <2>6, LinkKeepsCalls
  <2>7. CASE Finish
    <3>1. SUFFICES ASSUME S \in Groups(snap) PROVE FALSE
      BY <2>7 DEF Finish
    <3>2. UNCHANGED <<chain, stages>> /\ pc = "write" /\ pc' = "idle" /\ left = {}
      BY <2>7 DEF Finish, Forget, PassComplete
    <3>3. PICK c \in ChainId : Carries(chain, stages, c, S)
      BY <3>1, <3>2 DEF ChainInv, Carries
    <3>4. \A d, e \in ChainId : d # e => DOMAIN stages[d] \cap DOMAIN stages[e] = {}
      BY DEF ChainInv, EachIncidentOnce
    <3>5. StatusIn(chain, stages, S) = chain[c].status
      BY <3>3, <3>4, StatusOfOne
    <3>6. StatusOf(S) = chain[c].status /\ StatusOf(S)' = chain[c].status
      BY <3>2, <3>5, StatusOfIn
    <3>7. StatusOf(S) # "none"
      BY <3>3, <3>6, ChainBounds DEF TypeOK, Carries
    <3> QED BY <3>2, <3>6, <3>7, BoardOf
  <2>8. CASE Crash
    BY <2>8 DEF Crash, TypeOK
  <2>9. ASSUME NEW r \in Request, NEW c \in ChainId, NEW st \in Status, LoadChain(r, c, st)
        PROVE  request' # request
    BY <2>9 DEF LoadChain, TypeOK
  <2>10. ASSUME NEW r \in Request, SaveStatus(r) PROVE request' # request
    BY <2>10 DEF SaveStatus, Done, TypeOK
  <2>11. CASE UNCHANGED vars
    BY <2>11, BoardStays DEF vars
  <2> QED BY <2>1, <2>2, <2>3, <2>4, <2>5, <2>6, <2>7, <2>8, <2>9, <2>10, <2>11 DEF Next
<1> QED BY <1>1, ChainsTypeCorrect, ChainInvariant, CallsInvariant, PTL DEF Spec, CallsKept
====
