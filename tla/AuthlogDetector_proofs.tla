---- MODULE AuthlogDetector_proofs ----
(***************************************************************************)
(* Proofs about the auth-log detector, for every log, page and threshold.  *)
(***************************************************************************)
EXTENDS AuthlogDetector, FiniteSetTheorems, SequenceTheorems, WellFoundedInduction, TLAPS

\* There is an alert for the row, whatever the numbers of its templates.
Stored(row) == \E a \in alerts : a.id[1] = row

\* The two commits of a run: once the alerts are in, each flagged row has one.
DeliveryInv ==
    /\ pc = "commit" => \A r \in run.flagged : Stored(r)
    /\ FlaggedIsStored

\* However runs die between the two commits, and whatever changes under a run in
\* progress, a completed run leaves an alert for each window it flagged.
THEOREM FlaggedWindowsAreStored == Spec => []FlaggedIsStored
<1>1. Init => DeliveryInv
  BY DEF Init, DeliveryInv, FlaggedIsStored
<1>2. DeliveryInv /\ [Next]_vars => DeliveryInv'
  <2> SUFFICES ASSUME DeliveryInv, [Next]_vars PROVE DeliveryInv'
    OBVIOUS
  <2> USE DEF DeliveryInv, FlaggedIsStored, Stored
  <2>1. ASSUME NEW w \in 0..MaxTime, Index(w) PROVE DeliveryInv'
    BY <2>1 DEF Index
  <2>2. CASE Tick
    BY <2>2 DEF Tick
  <2>3. CASE Score
    BY <2>3 DEF Score
  <2>4. CASE Ingest
    <3>1. alerts \subseteq alerts' /\ run' = run /\ reported' = reported
      BY <2>4 DEF Ingest
    <3>2. ASSUME NEW r \in run.flagged PROVE Stored(r)'
      <4>1. AlertId(r, run.page)[1] = r
        BY DEF AlertId
      <4>2. CASE \E a \in alerts : a.id = AlertId(r, run.page)
        BY <3>1, <4>1, <4>2
      <4>3. CASE \A a \in alerts : a.id # AlertId(r, run.page)
        <5> DEFINE new == Alert(r, run.page)
        <5>1. new.id = AlertId(r, run.page)
          BY DEF Alert
        <5>2. new \in alerts'
          BY <5>1, <3>2, <4>3, <2>4 DEF Ingest
        <5> QED BY <5>1, <5>2, <4>1
      <4> QED BY <4>2, <4>3
    <3> QED BY <3>1, <3>2
  <2>5. CASE Commit
    BY <2>5 DEF Commit, MoveCursor
  <2>6. CASE Abort
    BY <2>6 DEF Abort
  <2>7. CASE UNCHANGED vars
    BY <2>7 DEF vars
  <2> QED BY <2>1, <2>2, <2>3, <2>4, <2>5, <2>6, <2>7 DEF Next
<1>3. DeliveryInv => FlaggedIsStored
  BY DEF DeliveryInv
<1> QED BY <1>1, <1>2, <1>3, PTL DEF Spec

----
\* The least number principle, from the well-foundedness of finite sets under inclusion.
LEMMA LeastExists ==
    ASSUME NEW S \in SUBSET Nat, S # {}
    PROVE  \E m \in S : \A n \in S : m <= n
<1> DEFINE T == {0..m : m \in S}
<1>1. T \subseteq FiniteSubsetsOf(Nat) /\ T # {}
  <2>1. ASSUME NEW m \in S PROVE 0..m \in FiniteSubsetsOf(Nat)
    <3>1. 0..m \subseteq Nat /\ IsFiniteSet(0..m)
      BY FS_Interval
    <3> QED BY <3>1 DEF FiniteSubsetsOf
  <2> QED BY <2>1
<1>2. PICK x \in T : \A y \in T : <<y, x>> \notin StrictSubsetOrdering(Nat)
  <2> HIDE DEF T
  <2> QED BY <1>1, WFMin, FS_StrictSubsetOrderingWellFounded
<1>3. PICK m \in S : x = 0..m
  OBVIOUS
<1>4. ASSUME NEW n \in S PROVE m <= n
  <2> SUFFICES ASSUME n < m PROVE FALSE
    OBVIOUS
  <2>1. 0..n \in T /\ 0..n \subseteq 0..m /\ m \in 0..m /\ m \notin 0..n
    OBVIOUS
  <2>2. <<0..n, 0..m>> \in StrictSubsetOrdering(Nat)
    BY <2>1 DEF StrictSubsetOrdering
  <2> QED BY <1>2, <1>3, <2>1, <2>2
<1> QED BY <1>4

LEMMA GreatestExists ==
    ASSUME NEW b \in Nat, NEW S \in SUBSET (0..b), S # {}
    PROVE  \E m \in S : \A n \in S : n <= m
<1> DEFINE T == {b - n : n \in S}
<1>1. T \in SUBSET Nat /\ T # {}
  <2>1. ASSUME NEW n \in S PROVE b - n \in Nat
    <3>1. n \in 0..b
      OBVIOUS
    <3> QED BY <3>1
  <2> QED BY <2>1
<1>2. PICK t \in T : \A u \in T : t <= u
  <2> HIDE DEF T
  <2> QED BY <1>1, LeastExists
<1>3. PICK m \in S : t = b - m
  OBVIOUS
<1>4. ASSUME NEW n \in S PROVE n <= m
  BY <1>2, <1>3
<1> QED BY <1>4

\* Lines are only ever appended to the index.
LEMMA LogGrows ==
    ASSUME TypeOK, [Next]_vars
    PROVE  /\ now \in Nat /\ now' \in 0..MaxTime /\ now <= now'
           /\ log' \in Seq([at : 0..now', window : 0..now']) /\ Len(log') <= N
           /\ DOMAIN log \subseteq DOMAIN log'
           /\ \A n \in DOMAIN log : log'[n] = log[n]
<1> USE DetectorBounds DEF TypeOK
<1>1. CASE UNCHANGED <<log, now>>
  BY <1>1
<1>2. ASSUME NEW w \in 0..MaxTime, Index(w)
      PROVE  /\ now \in Nat /\ now' \in 0..MaxTime /\ now <= now'
             /\ log' \in Seq([at : 0..now', window : 0..now']) /\ Len(log') <= N
             /\ DOMAIN log \subseteq DOMAIN log'
             /\ \A n \in DOMAIN log : log'[n] = log[n]
  <2> DEFINE e == [at |-> now, window |-> w]
             L == [at : 0..now, window : 0..now]
  <2>1. log' = Append(log, e) /\ now' = now /\ Len(log) < N /\ e \in L
    BY <1>2 DEF Index
  <2>2. log \in Seq(L) /\ Len(log) \in Nat /\ N \in Nat
    BY DEF N
  <2> HIDE DEF e, L
  <2>3. /\ log' \in Seq(L) /\ Len(log') = Len(log) + 1
        /\ \A n \in 1..Len(log) : log'[n] = log[n]
    BY <2>1, <2>2, AppendProperties
  <2>4. DOMAIN log = 1..Len(log) /\ DOMAIN log' = 1..Len(log')
    BY <2>2, <2>3
  <2> QED BY <2>1, <2>2, <2>3, <2>4 DEF L
<1>3. CASE Tick
  <2> DEFINE L == [at : 0..now, window : 0..now]
             M == [at : 0..now', window : 0..now']
  <2>1. log' = log /\ now' = now + 1 /\ now' \in 0..MaxTime /\ now \in Nat /\ L \subseteq M
    BY <1>3 DEF Tick
  <2>2. log \in Seq(L) /\ Len(log) \in Nat
    OBVIOUS
  <2> HIDE DEF L, M
  <2>3. log \in Seq(M)
    BY <2>1, <2>2, SeqMonotonic
  <2> QED BY <2>1, <2>3 DEF M
<1>4. CASE Score \/ Ingest \/ Commit \/ Abort
  BY <1>1, <1>4 DEF Score, Ingest, Commit, MoveCursor, Abort
<1> QED BY <1>1, <1>2, <1>3, <1>4 DEF Next, vars

LEMMA RowStays ==
    ASSUME TypeOK, [Next]_vars, NEW n \in DOMAIN log
    PROVE  n \in DOMAIN log' /\ RowOf(n)' = RowOf(n)
BY LogGrows DEF RowOf

\* The newest of a run's windows is one of them.
LEMMA NewestWindow ==
    ASSUME TypeOK, run.recent # {}
    PROVE  /\ Newest(run.recent) \in 0..now
           /\ \E r \in run.recent : Newest(run.recent) = r[2]
<1> DEFINE W == {r[2] : r \in run.recent}
<1>1. now \in Nat
  BY DetectorBounds DEF TypeOK
<1>2. ASSUME NEW r \in run.recent PROVE r[2] \in 0..now
  <2>1. PICK n \in run.page : r = RowOf(n)
    BY <1>2 DEF TypeOK, Rows
  <2>2. n \in DOMAIN log /\ log[n] \in [at : 0..now, window : 0..now]
    BY <2>1, ElementOfSeq, LenProperties DEF TypeOK
  <2> QED BY <2>1, <2>2 DEF RowOf
<1>3. W \in SUBSET (0..now) /\ W # {}
  BY <1>2
<1>4. \E w \in W : \A v \in W : v <= w
  <2> HIDE DEF W
  <2> QED BY <1>1, <1>3, GreatestExists
<1>5. \E w \in W : \A r \in run.recent : r[2] <= w
  BY <1>4
<1>6. Newest(run.recent) \in W
  BY <1>5 DEF Newest
<1> QED BY <1>3, <1>6

\* What a run scores and flags is among the rows of its page.
LEMMA ScoreTypes ==
    ASSUME TypeOK, Score
    PROVE  /\ run'.from = now /\ run'.page \subseteq DOMAIN log
           /\ run'.recent \subseteq Rows(run'.page) /\ run'.flagged \subseteq run'.recent
           /\ run'.page = Hits(now) /\ run'.flagged \subseteq Flaggable(run'.recent, run'.page)
<1>1. Hits(now) \subseteq DOMAIN log
  BY DEF Hits
<1>2. ASSUME NEW rows PROVE Recent(rows, cursor) \subseteq rows
  BY DEF Recent
<1>3. \A rows, page : Flaggable(rows, page) \subseteq rows
  BY DEF Flaggable
<1> QED BY <1>1, <1>2, <1>3 DEF Score

\* The detector's state has its type.
THEOREM TypeInvariant == Spec => []TypeOK
<1>1. Init => TypeOK
  <2> SUFFICES ASSUME Init PROVE TypeOK
    OBVIOUS
  <2>1. N \in Nat
    BY DetectorBounds, LenProperties DEF N
  <2>2. <<>> \in Seq([at : 0..now, window : 0..now]) /\ Len(<<>>) = 0
    BY EmptySeq
  <2> QED BY <2>1, <2>2, DetectorBounds DEF Init, Idle, TypeOK, Rows
<1>2. TypeOK /\ [Next]_vars => TypeOK'
  <2> SUFFICES ASSUME TypeOK, [Next]_vars PROVE TypeOK'
    OBVIOUS
  <2>1. /\ now \in Nat /\ now' \in 0..MaxTime /\ now <= now' /\ 0..now \subseteq 0..now'
        /\ log' \in Seq([at : 0..now', window : 0..now']) /\ Len(log') <= N
        /\ DOMAIN log \subseteq DOMAIN log'
    BY LogGrows, DetectorBounds
  <2>2. \A n \in DOMAIN log : RowOf(n)' = RowOf(n)
    BY RowStays
  <2>3. \A S : S \subseteq DOMAIN log => {RowOf(n)' : n \in S \ Junk} = {RowOf(n) : n \in S \ Junk}
    BY <2>2
  <2>4. Rows(DOMAIN log) \subseteq Rows(DOMAIN log)'
    BY <2>1, <2>2 DEF Rows
  <2>5. ASSUME UNCHANGED <<cursor, lastRun, alerts, scored, passed, reported>>
        PROVE  /\ lastRun' \in 0..now' /\ cursor' \in 0..now' \cup {None}
               /\ \A a \in alerts' : a.lines \subseteq DOMAIN log'
               /\ reported' \subseteq Rows(DOMAIN log)'
               /\ scored' \subseteq DOMAIN log' /\ passed' \subseteq DOMAIN log'
    BY <2>1, <2>4, <2>5 DEF TypeOK
  <2>6. ASSUME UNCHANGED run
        PROVE  /\ run.from' \in 0..now' /\ run.page' \subseteq DOMAIN log'
               /\ run.recent' \subseteq Rows(run.page)' /\ run.flagged' \subseteq run.recent'
    BY <2>1, <2>3, <2>6 DEF TypeOK, Rows
  <2>7. ASSUME run' = Idle
        PROVE  /\ run.from' \in 0..now' /\ run.page' \subseteq DOMAIN log'
               /\ run.recent' \subseteq Rows(run.page)' /\ run.flagged' \subseteq run.recent'
    BY <2>1, <2>7 DEF Idle
  <2>8. ASSUME NEW w \in 0..MaxTime, Index(w) PROVE TypeOK'
    BY <2>1, <2>5, <2>6, <2>8 DEF Index, TypeOK
  <2>9. CASE Tick
    BY <2>1, <2>5, <2>6, <2>9 DEF Tick, TypeOK
  <2>10. CASE Score
    <3>1. UNCHANGED <<now, log, cursor, lastRun, alerts, scored, passed, reported>> /\ pc' = "ingest"
      BY <2>10 DEF Score
    <3>2. /\ run'.from \in 0..now /\ run'.page \subseteq DOMAIN log
          /\ run'.recent \subseteq {RowOf(n) : n \in run'.page \ Junk}
          /\ run'.flagged \subseteq run'.recent
      BY <2>1, <2>10, ScoreTypes DEF Rows
    <3>3. run'.recent \subseteq Rows(run.page)'
      BY <2>3, <3>2 DEF Rows
    <3> QED BY <2>1, <2>5, <3>1, <3>2, <3>3 DEF TypeOK
  <2>11. CASE Ingest
    <3>1. UNCHANGED <<now, log, cursor, lastRun, run, scored, passed, reported>> /\ pc' = "commit"
      BY <2>11 DEF Ingest
    <3>2. ASSUME NEW a \in alerts' PROVE a.lines \subseteq DOMAIN log'
      <4>1. CASE a \in alerts
        BY <2>1, <4>1 DEF TypeOK
      <4>2. CASE a \notin alerts
        <5>1. PICK r \in run.flagged : a = Alert(r, run.page)
          BY <2>11, <3>2, <4>2 DEF Ingest
        <5>2. a.lines \subseteq run.page
          BY <5>1 DEF Alert, LinesOf
        <5> QED BY <2>1, <5>2 DEF TypeOK
      <4> QED BY <4>1, <4>2
    <3> QED BY <2>1, <2>4, <2>6, <3>1, <3>2 DEF TypeOK
  <2>12. CASE Commit
    <3>1. UNCHANGED <<now, log, alerts>> /\ pc' = "idle" /\ run' = Idle /\ lastRun' = run.from
      BY <2>12 DEF Commit, MoveCursor
    <3>2. cursor' \in 0..now \cup {None}
      BY <2>12, NewestWindow DEF Commit, MoveCursor, TypeOK
    <3>3. scored' \subseteq DOMAIN log /\ passed' \subseteq DOMAIN log
      BY <2>12 DEF Commit, MoveCursor, TypeOK
    <3>4. reported' \subseteq Rows(DOMAIN log)
      <4>1. run.flagged \subseteq Rows(DOMAIN log)
        BY DEF TypeOK, Rows
      <4> QED BY <2>12, <4>1 DEF Commit, MoveCursor, TypeOK
    <3> QED BY <2>1, <2>4, <2>7, <3>1, <3>2, <3>3, <3>4 DEF TypeOK
  <2>13. CASE Abort
    BY <2>1, <2>5, <2>7, <2>13 DEF Abort, TypeOK
  <2>14. CASE UNCHANGED vars
    BY <2>1, <2>5, <2>6, <2>14 DEF vars, TypeOK
  <2> QED BY <2>8, <2>9, <2>10, <2>11, <2>12, <2>13, <2>14 DEF Next
<1> QED BY <1>1, <1>2, PTL DEF Spec

----
\* A page is a stretch of the log, as the index keeps its order.
Stretch(page) == \A l, n \in page : \A m \in Nat : l <= m /\ m <= n => m \in page

\* Lines are indexed in the order of time.
InOrder == \A m, n \in DOMAIN log : m <= n => log[m].at <= log[n].at

\* A run's page is a stretch, and the rows it flags have lines in it.
RunStretch == Stretch(run.page) /\ \A r \in run.flagged : LinesOf(r, run.page) # {}

\* Each alert is that of some row of some stretch.
AlertStretch ==
    \A a \in alerts : \E page \in SUBSET DOMAIN log : \E row :
        Stretch(page) /\ LinesOf(row, page) # {} /\ a = Alert(row, page)

PageInv == InOrder /\ RunStretch /\ AlertStretch

LEMMA LogDomain ==
    ASSUME TypeOK
    PROVE  /\ DOMAIN log = 1..Len(log) /\ Len(log) \in Nat /\ DOMAIN log \subseteq Nat
           /\ \A n \in DOMAIN log : log[n].at \in 0..now
<1>1. DOMAIN log = 1..Len(log) /\ Len(log) \in Nat
  BY LenProperties DEF TypeOK
<1>2. \A n \in DOMAIN log : log[n] \in [at : 0..now, window : 0..now]
  BY <1>1, ElementOfSeq DEF TypeOK
<1> QED BY <1>1, <1>2

\* The search answers with a stretch of the log.
LEMMA HitsIsStretch ==
    ASSUME TypeOK, PageInv
    PROVE  Stretch(Hits(now))
<1> DEFINE day == {n \in DOMAIN log : log[n].at > now - Fetch}
           before(n) == {m \in day : m < n}
<1>1. SUFFICES ASSUME NEW l \in Hits(now), NEW n \in Hits(now), NEW m \in Nat, l <= m, m <= n
               PROVE  m \in Hits(now)
  BY DEF Stretch
<1>2. l \in day /\ n \in day /\ Cardinality(before(n)) < Page
  BY DEF Hits
<1>3. m \in day
  <2>1. m \in DOMAIN log
    BY <1>1, <1>2, LogDomain
  <2>2. log[l].at <= log[m].at
    BY <1>1, <1>2, <2>1 DEF PageInv, InOrder
  <2>3. now \in Nat /\ Fetch \in Nat
    BY DetectorBounds DEF TypeOK
  <2>4. log[l].at \in 0..now /\ log[m].at \in 0..now
    BY <1>2, <2>1, LogDomain
  <2>5. log[l].at > now - Fetch
    BY <1>2
  <2>6. log[m].at > now - Fetch
    BY <2>2, <2>3, <2>4, <2>5
  <2> QED BY <2>1, <2>6
<1>4. before(m) \subseteq before(n) /\ before(n) \subseteq 1..Len(log)
  BY <1>1, <1>2, LogDomain
<1>5. IsFiniteSet(before(n))
  <2>1. IsFiniteSet(1..Len(log))
    BY LogDomain, FS_Interval
  <2> HIDE DEF before
  <2> QED BY <1>4, <2>1, FS_Subset
<1>6. Cardinality(before(m)) < Page
  <2>1. Cardinality(before(m)) <= Cardinality(before(n))
    BY <1>4, <1>5, FS_Subset
  <2>2. Cardinality(before(m)) \in Nat /\ Cardinality(before(n)) \in Nat
    BY <1>4, <1>5, FS_Subset, FS_CardinalityType
  <2> QED BY <1>2, <2>1, <2>2, DetectorBounds
<1> QED BY <1>3, <1>6 DEF Hits

\* The first line of a page with a template, by that description alone.
LEMMA FirstWithIs ==
    ASSUME NEW page \in SUBSET Nat, NEW n \in page \ Junk
    PROVE  /\ FirstWith(Template[n], page) \in page \ Junk
           /\ Template[FirstWith(Template[n], page)] = Template[n]
           /\ \A m \in page \ Junk : Template[m] = Template[n] => FirstWith(Template[n], page) <= m
<1> DEFINE S == {m \in page \ Junk : Template[m] = Template[n]}
<1>1. S \in SUBSET Nat /\ S # {}
  OBVIOUS
<1>2. \E f \in S : \A m \in S : f <= m
  <2> HIDE DEF S
  <2> QED BY <1>1, LeastExists
<1>3. \E f \in page \ Junk :
        Template[f] = Template[n] /\ \A m \in page \ Junk : Template[m] = Template[n] => f <= m
  BY <1>2
<1> QED BY <1>3 DEF FirstWith

\* Two stretches with the same first line are the same up to any line they share.
LEMMA SameFront ==
    ASSUME NEW p \in SUBSET Nat, NEW q \in SUBSET Nat, Stretch(p), Stretch(q),
           First(p) = First(q), NEW n \in p, n \in q
    PROVE  \A m \in Nat : m <= n => (m \in p <=> m \in q)
<1>1. First(p) \in p /\ (\A m \in p : First(p) <= m)
  BY LeastExists DEF First
<1>2. First(q) \in q /\ (\A m \in q : First(q) <= m)
  BY LeastExists DEF First
<1> QED BY <1>1, <1>2 DEF Stretch

\* ... and so they number alike the template of a line they share.
LEMMA SameNumber ==
    ASSUME NEW p \in SUBSET Nat, NEW q \in SUBSET Nat, Stretch(p), Stretch(q),
           First(p) = First(q), NEW n \in p \ Junk, n \in q
    PROVE  TemplateId(Template[n], p) = TemplateId(Template[n], q)
<1> DEFINE k == Template[n]
           older(page) == {j \in {Template[m] : m \in page \ Junk} :
                              FirstWith(j, page) <= FirstWith(k, page)}
<1>1. ASSUME NEW a \in SUBSET Nat, NEW b \in SUBSET Nat, n \in a, n \in b,
             \A m \in Nat : m <= n => (m \in a <=> m \in b)
      PROVE  FirstWith(k, b) <= FirstWith(k, a) /\ FirstWith(k, a) <= n /\ FirstWith(k, a) \in Nat
  <2>1. /\ FirstWith(k, a) \in a \ Junk /\ Template[FirstWith(k, a)] = k /\ FirstWith(k, a) <= n
    BY <1>1, FirstWithIs
  <2>2. FirstWith(k, a) \in b
    BY <1>1, <2>1
  <2> QED BY <1>1, <2>1, <2>2, FirstWithIs
<1>2. \A m \in Nat : m <= n => (m \in p <=> m \in q)
  BY SameFront
<1>3. FirstWith(k, p) = FirstWith(k, q) /\ FirstWith(k, p) <= n /\ FirstWith(k, p) \in Nat
  <2>1. /\ FirstWith(k, q) <= FirstWith(k, p) /\ FirstWith(k, p) <= n /\ FirstWith(k, p) \in Nat
    BY <1>1, <1>2
  <2>2. /\ FirstWith(k, p) <= FirstWith(k, q) /\ FirstWith(k, q) \in Nat
    BY <1>1, <1>2
  <2> QED BY <2>1, <2>2
<1>4. ASSUME NEW a \in SUBSET Nat, NEW b \in SUBSET Nat, FirstWith(k, a) = FirstWith(k, b),
             FirstWith(k, a) <= n, FirstWith(k, a) \in Nat,
             \A m \in Nat : m <= n => (m \in a <=> m \in b)
      PROVE  older(a) \subseteq older(b)
  <2> SUFFICES ASSUME NEW j \in older(a) PROVE j \in older(b)
    OBVIOUS
  <2> DEFINE f == FirstWith(j, a)
  <2>1. PICK m \in a \ Junk : j = Template[m]
    OBVIOUS
  <2>2. f \in a \ Junk /\ Template[f] = j
    BY <2>1, FirstWithIs
  <2>3. f <= FirstWith(k, a) /\ f \in Nat
    BY <2>2
  <2>4. f \in b \ Junk
    <3>1. f <= n
      <4>1. n \in Nat
        OBVIOUS
      <4> HIDE DEF f, k
      <4> QED BY <1>4, <2>3, <4>1
    <3> QED BY <1>4, <2>2, <2>3, <3>1
  <2>5. FirstWith(j, b) <= f /\ FirstWith(j, b) \in Nat
    BY <2>2, <2>4, FirstWithIs
  <2>6. FirstWith(j, b) <= FirstWith(k, b)
    <3> HIDE DEF f, k
    <3> QED BY <1>4, <2>3, <2>5
  <2> QED BY <2>2, <2>4, <2>6
<1>5. older(p) = older(q)
  <2>1. older(p) \subseteq older(q)
    BY <1>2, <1>3, <1>4
  <2>2. older(q) \subseteq older(p)
    BY <1>2, <1>3, <1>4
  <2> QED BY <2>1, <2>2
<1> QED BY <1>5 DEF TemplateId

\* Alerts on the same lines, from pages with the same first line, have the same id.
LEMMA PagesGiveIds == TypeOK /\ PageInv => RenumberedOnlyByAging
<1> SUFFICES ASSUME TypeOK, PageInv, NEW a \in alerts, NEW b \in alerts,
                    a.lines = b.lines, a.first = b.first
             PROVE  a.id = b.id
  BY DEF RenumberedOnlyByAging
<1>1. PICK p \in SUBSET DOMAIN log : \E row :
        Stretch(p) /\ LinesOf(row, p) # {} /\ a = Alert(row, p)
  BY DEF PageInv, AlertStretch
<1>2. PICK r : Stretch(p) /\ LinesOf(r, p) # {} /\ a = Alert(r, p)
  BY <1>1
<1>3. PICK q \in SUBSET DOMAIN log : \E row :
        Stretch(q) /\ LinesOf(row, q) # {} /\ b = Alert(row, q)
  BY DEF PageInv, AlertStretch
<1>4. PICK s : Stretch(q) /\ LinesOf(s, q) # {} /\ b = Alert(s, q)
  BY <1>3
<1>5. LinesOf(r, p) = LinesOf(s, q) /\ First(p) = First(q)
  BY <1>2, <1>4 DEF Alert
<1>6. p \in SUBSET Nat /\ q \in SUBSET Nat
  BY LogDomain
<1>7. \A n \in LinesOf(r, p) : n \in p \ Junk /\ RowOf(n) = r
  BY DEF LinesOf
<1>8. \A n \in LinesOf(r, p) : n \in q \ Junk /\ RowOf(n) = s
  BY <1>5 DEF LinesOf
<1>9. r = s
  BY <1>2, <1>7, <1>8
<1>10. \A n \in LinesOf(r, p) : TemplateId(Template[n], p) = TemplateId(Template[n], q)
  BY <1>2, <1>4, <1>5, <1>6, <1>7, <1>8, SameNumber
<1>11. AlertId(r, p) = AlertId(s, q)
  BY <1>5, <1>9, <1>10 DEF AlertId
<1> QED BY <1>2, <1>4, <1>11 DEF Alert

LEMMA PageInvStep ==
    ASSUME TypeOK, PageInv, [Next]_vars
    PROVE  PageInv'
<1>1. DOMAIN log \subseteq DOMAIN log' /\ DOMAIN log \subseteq Nat
  BY LogGrows, LogDomain
<1>2. \A n \in DOMAIN log : log'[n] = log[n] /\ RowOf(n)' = RowOf(n)
  BY LogGrows, RowStays
\* What a page gave its alerts does not change.
<1>3. ASSUME NEW page \in SUBSET DOMAIN log, NEW row
      PROVE  LinesOf(row, page)' = LinesOf(row, page) /\ Alert(row, page)' = Alert(row, page)
  <2>1. LinesOf(row, page)' = LinesOf(row, page)
    BY <1>2 DEF LinesOf
  <2>2. AlertId(row, page)' = AlertId(row, page)
    BY <2>1 DEF AlertId
  <2> QED BY <2>1, <2>2 DEF Alert
<1>4. ASSUME NEW a \in alerts
      PROVE  \E page \in SUBSET DOMAIN log' : \E row :
                Stretch(page) /\ LinesOf(row, page)' # {} /\ a = Alert(row, page)'
  <2>1. PICK page \in SUBSET DOMAIN log : \E row :
            Stretch(page) /\ LinesOf(row, page) # {} /\ a = Alert(row, page)
    BY <1>4 DEF PageInv, AlertStretch
  <2>2. PICK row : Stretch(page) /\ LinesOf(row, page) # {} /\ a = Alert(row, page)
    BY <2>1
  <2>3. LinesOf(row, page)' # {} /\ a = Alert(row, page)'
    BY <1>3, <2>2
  <2> QED BY <1>1, <2>1, <2>2, <2>3
<1>5. ASSUME UNCHANGED log
      PROVE  InOrder'
  BY <1>5 DEF PageInv, InOrder
<1>6. ASSUME UNCHANGED run
      PROVE  RunStretch'
  <2>1. run.page \in SUBSET DOMAIN log
    BY DEF TypeOK
  <2>2. \A r : {n \in run.page \ Junk : RowOf(n)' = r} = {n \in run.page \ Junk : RowOf(n) = r}
    BY <1>2, <2>1
  <2> QED BY <1>6, <2>2 DEF PageInv, RunStretch, Stretch, LinesOf
<1>7. ASSUME run' = Idle
      PROVE  RunStretch'
  BY <1>7 DEF Idle, RunStretch, Stretch
<1>8. ASSUME alerts' = alerts
      PROVE  AlertStretch'
  BY <1>4, <1>8 DEF AlertStretch
<1> USE DEF PageInv
<1>9. ASSUME NEW w \in 0..MaxTime, Index(w) PROVE PageInv'
  <2> DEFINE e == [at |-> now, window |-> w]
  <2>1. log' = Append(log, e) /\ UNCHANGED <<run, alerts>>
    BY <1>9 DEF Index
  <2>2. /\ DOMAIN log' = 1..(Len(log) + 1) /\ log'[Len(log) + 1] = e
        /\ DOMAIN log = 1..Len(log) /\ Len(log) \in Nat
    <3> DEFINE L == [at : 0..now, window : 0..now]
    <3>1. log \in Seq(L) /\ e \in L
      BY <1>9, DetectorBounds DEF TypeOK, Index
    <3> HIDE DEF e, L
    <3> QED BY <2>1, <3>1, AppendProperties, LenProperties
  <2>3. ASSUME NEW m \in DOMAIN log', NEW n \in DOMAIN log', m <= n
        PROVE  log'[m].at <= log'[n].at
    <3>1. CASE n \in DOMAIN log
      <4>1. m \in DOMAIN log
        BY <2>2, <2>3, <3>1
      <4> QED BY <1>2, <2>3, <3>1, <4>1 DEF InOrder
    <3>2. CASE n \notin DOMAIN log
      <4>1. n = Len(log) + 1 /\ log'[n].at = now
        BY <2>2, <3>2
      <4>2. CASE m \in DOMAIN log
        BY <1>2, <4>1, <4>2, LogDomain, DetectorBounds DEF TypeOK
      <4>3. CASE m \notin DOMAIN log
        <5>1. m = n
          BY <2>2, <4>1, <4>3
        <5> QED BY <4>1, <5>1, DetectorBounds DEF TypeOK
      <4> QED BY <4>2, <4>3
    <3> QED BY <3>1, <3>2
  <2>4. InOrder'
    BY <2>3 DEF InOrder
  <2> QED BY <1>6, <1>8, <2>1, <2>4
<1>10. CASE Tick
  BY <1>5, <1>6, <1>8, <1>10 DEF Tick
<1>11. CASE Score
  <2>1. UNCHANGED <<log, alerts>>
    BY <1>11 DEF Score
  <2>2. run'.page = Hits(now) /\ run'.flagged \subseteq Flaggable(run'.recent, run'.page)
    BY <1>11, ScoreTypes
  <2>3. Stretch(Hits(now))
    BY HitsIsStretch
  <2>4. \A r \in run'.flagged : LinesOf(r, run'.page) # {}
    BY <2>2 DEF Flaggable
  <2>5. RunStretch'
    BY <2>1, <2>2, <2>3, <2>4 DEF RunStretch, Stretch, LinesOf, RowOf
  <2> QED BY <1>5, <1>8, <2>1, <2>5
<1>12. CASE Ingest
  <2>1. UNCHANGED <<log, run>>
    BY <1>12 DEF Ingest
  <2>2. ASSUME NEW a \in alerts'
        PROVE  \E page \in SUBSET DOMAIN log' : \E row :
                  Stretch(page) /\ LinesOf(row, page)' # {} /\ a = Alert(row, page)'
    <3>1. CASE a \in alerts
      BY <1>4, <3>1
    <3>2. CASE a \notin alerts
      <4>1. PICK r \in run.flagged : a = Alert(r, run.page)
        BY <1>12, <2>2, <3>2 DEF Ingest
      <4>2. run.page \in SUBSET DOMAIN log
        BY DEF TypeOK
      <4>3. LinesOf(r, run.page) # {} /\ Stretch(run.page)
        BY DEF RunStretch
      <4>4. PICK page \in SUBSET DOMAIN log : page = run.page
        BY <4>2
      <4>5. LinesOf(r, page)' # {} /\ a = Alert(r, page)' /\ Stretch(page)
        BY <1>3, <4>1, <4>3, <4>4
      <4> QED BY <1>1, <4>5
    <3> QED BY <3>1, <3>2
  <2>3. AlertStretch'
    BY <2>2 DEF AlertStretch
  <2> QED BY <1>5, <1>6, <2>1, <2>3
<1>13. CASE Commit
  BY <1>5, <1>7, <1>8, <1>13 DEF Commit, MoveCursor
<1>14. CASE Abort
  BY <1>5, <1>7, <1>8, <1>14 DEF Abort
<1>15. CASE UNCHANGED vars
  BY <1>5, <1>6, <1>8, <1>15 DEF vars
<1> QED BY <1>9, <1>10, <1>11, <1>12, <1>13, <1>14, <1>15 DEF Next

LEMMA PageInvariant == Spec => []PageInv
<1>1. Init => PageInv
  BY DEF Init, Idle, PageInv, InOrder, RunStretch, AlertStretch, Stretch
<1>2. TypeOK /\ PageInv /\ [Next]_vars => PageInv'
  BY PageInvStep
<1> QED BY <1>1, <1>2, TypeInvariant, PTL DEF Spec

\* A re-run numbers the templates of a window as before, unless lines have aged out of
\* its page's front: however many lines, hosts and templates there are, and wherever the
\* search cuts the page off.
THEOREM SameLinesSameId == Spec => []RenumberedOnlyByAging
BY PageInvariant, TypeInvariant, PagesGiveIds, PTL

----
\* Lines are indexed within their window.
InTime == \A n \in DOMAIN log : log[n].window = log[n].at

\* Within an outage of any line there are fewer than Burst before it.
BurstInv ==
    \A n \in DOMAIN log :
        Cardinality({m \in DOMAIN log : m < n /\ log[m].at > log[n].at - Outage}) < Burst

\* A line was scored or seen in vain, or the next run still finds it: it will not have
\* aged out by then, and the cursor is not past it.
Ahead(n) ==
    \/ n \in scored \cup passed
    \/ /\ log[n].at > lastRun + Outage - Fetch
       /\ cursor # None => cursor <= log[n].window

\* A line that a page of time t misses had aged out by then; or it came after the lines
\* of the page, and late enough for the next page.
Reaches(page, t) ==
    \A n \in DOMAIN log :
        \/ n \in page
        \/ log[n].at <= t - Fetch
        \/ log[n].at > t + Outage - Fetch /\ \A m \in page : log[m].at <= log[n].at

\* What makes ScoredUpToHere inductive.
CoverInv ==
    /\ InTime /\ BurstInv
    /\ now <= lastRun + Outage
    /\ \A n \in DOMAIN log \ Junk : Ahead(n)
    /\ pc # "idle" =>
        /\ lastRun <= run.from
        /\ Reaches(run.page, run.from)
        /\ run.recent = IF Enough(Rows(run.page)) THEN Recent(Rows(run.page), cursor) ELSE {}

LEMMA TimeTypes ==
    ASSUME TypeOK
    PROVE  /\ now \in Nat /\ lastRun \in Nat /\ lastRun <= now
           /\ Outage \in Nat /\ Fetch \in Nat /\ Burst \in Nat /\ Page \in Nat
           /\ cursor # None => cursor \in Nat /\ cursor <= now
           /\ run.from \in Nat /\ run.from <= now
           /\ \A n \in DOMAIN log : /\ log[n].at \in Nat /\ log[n].at <= now
                                    /\ log[n].window \in Nat /\ log[n].window <= now
<1>1. \A n \in DOMAIN log : log[n] \in [at : 0..now, window : 0..now]
  BY LogDomain, ElementOfSeq DEF TypeOK
<1>2. now \in Nat /\ Outage \in Nat /\ Fetch \in Nat /\ Burst \in Nat /\ Page \in Nat
  BY DetectorBounds DEF TypeOK
<1>3. lastRun \in 0..now /\ run.from \in 0..now /\ cursor \in 0..now \cup {None}
  BY DEF TypeOK
<1>4. ASSUME NEW n \in DOMAIN log
      PROVE  /\ log[n].at \in Nat /\ log[n].at <= now
             /\ log[n].window \in Nat /\ log[n].window <= now
  <2>1. log[n].at \in 0..now /\ log[n].window \in 0..now
    BY <1>1
  <2> QED BY <1>2, <2>1
<1> QED BY <1>2, <1>3, <1>4

LEMMA IndexFacts ==
    ASSUME TypeOK, NEW w \in 0..MaxTime, Index(w)
    PROVE  /\ DOMAIN log' = DOMAIN log \cup {Len(log) + 1}
           /\ \A n \in DOMAIN log : n < Len(log) + 1 /\ log'[n] = log[n]
           /\ log'[Len(log) + 1] = [at |-> now, window |-> w]
<1> DEFINE e == [at |-> now, window |-> w]
           L == [at : 0..now, window : 0..now]
<1>1. log \in Seq(L) /\ e \in L /\ log' = Append(log, e)
  BY DetectorBounds DEF TypeOK, Index
<1> HIDE DEF e, L
<1>2. /\ DOMAIN log' = 1..(Len(log) + 1) /\ log'[Len(log) + 1] = e
      /\ DOMAIN log = 1..Len(log) /\ Len(log) \in Nat
      /\ \A n \in 1..Len(log) : log'[n] = log[n]
  BY <1>1, AppendProperties, LenProperties
<1> QED BY <1>2 DEF e

\* The lines before a given one are finitely many.
LEMMA FewBefore ==
    ASSUME TypeOK, NEW S \in SUBSET DOMAIN log
    PROVE  IsFiniteSet(S) /\ Cardinality(S) \in Nat
<1>1. IsFiniteSet(1..Len(log))
  BY LogDomain, FS_Interval
<1> QED BY <1>1, LogDomain, FS_Subset, FS_CardinalityType

\* The rows of a run's page are what they were when it was fetched.
LEMMA PageRowsStay ==
    ASSUME TypeOK, [Next]_vars
    PROVE  \A page \in SUBSET DOMAIN log : Rows(page)' = Rows(page)
<1>1. \A n \in DOMAIN log : RowOf(n)' = RowOf(n)
  BY RowStays
<1> QED BY <1>1 DEF Rows

\* A line that is indexed is ahead of the cursor and of any page in hand.
LEMMA IndexCovers ==
    ASSUME Late = 0, Outage < Fetch, TypeOK, CoverInv, NEW w \in 0..MaxTime, Index(w)
    PROVE  CoverInv'
<1> DEFINE l == Len(log) + 1
<1>1. /\ DOMAIN log' = DOMAIN log \cup {l} /\ log'[l] = [at |-> now, window |-> w]
      /\ \A n \in DOMAIN log : n < l /\ log'[n] = log[n]
      /\ l \in Nat /\ DOMAIN log \subseteq Nat
  <2>1. l \in Nat /\ DOMAIN log \subseteq Nat
    BY LogDomain
  <2>2. /\ DOMAIN log' = DOMAIN log \cup {l} /\ log'[l] = [at |-> now, window |-> w]
        /\ \A n \in DOMAIN log : n < l /\ log'[n] = log[n]
    BY IndexFacts
  <2> QED BY <2>1, <2>2
<1>2. /\ UNCHANGED <<now, cursor, lastRun, pc, run, scored, passed>> /\ w = now
      /\ Cardinality({n \in DOMAIN log : log[n].at > now - Outage}) < Burst
  BY TimeTypes DEF Index
<1> HIDE DEF l
<1>3. InTime'
  BY <1>1, <1>2 DEF CoverInv, InTime
<1>4. BurstInv'
  <2> SUFFICES ASSUME NEW n \in DOMAIN log'
               PROVE  Cardinality({m \in DOMAIN log' : m < n /\ log'[m].at > log'[n].at - Outage}) < Burst
    BY DEF BurstInv
  <2>1. CASE n \in DOMAIN log
    <3>1. {m \in DOMAIN log' : m < n /\ log'[m].at > log'[n].at - Outage}
            = {m \in DOMAIN log : m < n /\ log[m].at > log[n].at - Outage}
      BY <1>1, <2>1
    <3> QED BY <2>1, <3>1 DEF CoverInv, BurstInv
  <2>2. CASE n = l
    <3>1. {m \in DOMAIN log' : m < n /\ log'[m].at > log'[n].at - Outage}
            = {m \in DOMAIN log : log[m].at > now - Outage}
      BY <1>1, <2>2
    <3> QED BY <1>2, <3>1
  <2> QED BY <1>1, <2>1, <2>2
<1>5. now' <= lastRun' + Outage
  BY <1>2 DEF CoverInv
<1>6. ASSUME NEW n \in DOMAIN log' \ Junk PROVE Ahead(n)'
  <2>1. CASE n \in DOMAIN log
    BY <1>1, <1>2, <2>1 DEF CoverInv, Ahead
  <2>2. CASE n = l
    BY <1>1, <1>2, <2>2, TimeTypes DEF Ahead
  <2> QED BY <1>1, <2>1, <2>2
<1>7. ASSUME pc' # "idle"
      PROVE  /\ lastRun' <= run'.from
             /\ Reaches(run.page, run.from)'
             /\ run'.recent = IF Enough(Rows(run.page)') THEN Recent(Rows(run.page)', cursor') ELSE {}
  <2>1. run.page \in SUBSET DOMAIN log
    BY DEF TypeOK
  <2>2. /\ lastRun <= run.from /\ Reaches(run.page, run.from)
        /\ run.recent = IF Enough(Rows(run.page)) THEN Recent(Rows(run.page), cursor) ELSE {}
    BY <1>2, <1>7 DEF CoverInv
  <2>3. Rows(run.page)' = Rows(run.page)
    BY <1>1, <1>2, <2>1 DEF Rows, RowOf
  <2>4. ASSUME NEW n \in DOMAIN log'
        PROVE  \/ n \in run.page
               \/ log'[n].at <= run.from - Fetch
               \/ log'[n].at > run.from + Outage - Fetch /\ \A m \in run.page : log'[m].at <= log'[n].at
    <3>1. CASE n \in DOMAIN log
      BY <1>1, <2>1, <2>2, <3>1 DEF Reaches
    <3>2. CASE n = l
      <4>1. log'[n].at = now /\ now > run.from + Outage - Fetch
        BY <1>1, <3>2, TimeTypes
      <4>2. \A m \in run.page : log'[m].at <= now
        BY <1>1, <2>1, TimeTypes
      <4> QED BY <4>1, <4>2
    <3> QED BY <1>1, <3>1, <3>2
  <2>5. Reaches(run.page, run.from)'
    BY <1>2, <2>4 DEF Reaches
  <2> QED BY <1>2, <2>2, <2>3, <2>5
<1> QED BY <1>3, <1>4, <1>5, <1>6, <1>7 DEF CoverInv

\* The page that a run fetches misses only lines that had aged out, or that are so new
\* that the next run, an outage later at most, finds them: before a line that the limit
\* cuts off there are Page lines of the day, so one of them is an outage older.
LEMMA HitsReach ==
    ASSUME Burst <= Page, TypeOK, PageInv, CoverInv
    PROVE  Reaches(Hits(now), now)
<1> SUFFICES ASSUME NEW n \in DOMAIN log, n \notin Hits(now), ~(log[n].at <= now - Fetch)
             PROVE  log[n].at > now + Outage - Fetch /\ \A m \in Hits(now) : log[m].at <= log[n].at
  BY DEF Reaches
<1> DEFINE day == {m \in DOMAIN log : log[m].at > now - Fetch}
           before(k) == {m \in day : m < k}
           near == {m \in DOMAIN log : m < n /\ log[m].at > log[n].at - Outage}
<1>1. /\ now \in Nat /\ Outage \in Nat /\ Fetch \in Nat /\ Burst \in Nat /\ Page \in Nat
      /\ \A m \in DOMAIN log : log[m].at \in Nat
      /\ DOMAIN log \subseteq Nat
  BY TimeTypes, LogDomain
<1>2. n \in day /\ Hits(now) = {m \in day : Cardinality(before(m)) < Page}
  BY <1>1 DEF Hits
<1>3. /\ \A k : before(k) \in SUBSET DOMAIN log
      /\ near \in SUBSET DOMAIN log
  OBVIOUS
<1>4. \A k : IsFiniteSet(before(k)) /\ Cardinality(before(k)) \in Nat
  <2> HIDE DEF before
  <2> QED BY <1>3, FewBefore
<1>5. IsFiniteSet(near) /\ Cardinality(near) \in Nat /\ Cardinality(near) < Burst
  BY <1>3, FewBefore DEF CoverInv, BurstInv
<1>6. ~(Cardinality(before(n)) < Page)
  BY <1>2
<1>7. ~(before(n) \subseteq near)
  <2> HIDE DEF before, near
  <2> SUFFICES ASSUME before(n) \subseteq near PROVE FALSE
    OBVIOUS
  <2>1. Cardinality(before(n)) <= Cardinality(near)
    BY <1>5, FS_Subset
  <2> QED BY <1>1, <1>4, <1>5, <1>6, <2>1
<1>8. log[n].at > now + Outage - Fetch
  <2>1. PICK m \in before(n) : m \notin near
    BY <1>7
  <2>2. m \in DOMAIN log /\ log[m].at > now - Fetch /\ ~(log[m].at > log[n].at - Outage)
    BY <2>1
  <2> QED BY <1>1, <2>2
<1>9. ASSUME NEW m \in Hits(now) PROVE log[m].at <= log[n].at
  <2>1. m \in day /\ Cardinality(before(m)) < Page
    BY <1>2
  <2>2. ~(n < m)
    <3> SUFFICES ASSUME n < m PROVE FALSE
      OBVIOUS
    <3>1. before(n) \subseteq before(m)
      <4>1. \A k \in day : k < n => k < m
        BY <1>1, <1>2, <2>1
      <4> QED BY <4>1
    <3> HIDE DEF before
    <3>2. Cardinality(before(n)) <= Cardinality(before(m))
      BY <1>4, <3>1, FS_Subset
    <3> QED BY <1>1, <1>4, <1>6, <2>1, <3>2
  <2>3. m <= n /\ m \in DOMAIN log
    BY <1>1, <2>1, <2>2
  <2> QED BY <2>3 DEF PageInv, InOrder
<1> QED BY <1>8, <1>9

\* A run that completes scores what its page holds from the cursor on, or passes over all
\* it holds, and moves the cursor no further than the page goes.
LEMMA CommitCovers ==
    ASSUME Outage < Fetch, TypeOK, CoverInv, Commit
    PROVE  CoverInv'
<1> DEFINE t == run.from
           page == run.page
           lines == {n \in page \ Junk : RowOf(n) \in run.recent}
<1>1. /\ pc # "idle" /\ pc' = "idle" /\ lastRun' = t /\ UNCHANGED <<now, log>>
      /\ cursor' = IF run.recent = {} THEN cursor ELSE Newest(run.recent)
      /\ scored' = scored \cup lines
      /\ passed' = IF Enough(Rows(page)) /\ HasHistory(Rows(page), cursor)
                   THEN passed ELSE passed \cup (page \ lines)
  BY DEF Commit, MoveCursor
<1>2. /\ lastRun <= t /\ now <= lastRun + Outage
      /\ Reaches(page, t)
      /\ run.recent = IF Enough(Rows(page)) THEN Recent(Rows(page), cursor) ELSE {}
  BY <1>1 DEF CoverInv
<1>3. /\ now \in Nat /\ lastRun \in Nat /\ t \in Nat /\ t <= now /\ Outage \in Nat /\ Fetch \in Nat
      /\ \A n \in DOMAIN log : log[n].at \in Nat /\ log[n].window = log[n].at
      /\ page \subseteq DOMAIN log /\ run.recent \subseteq Rows(page)
  BY TimeTypes DEF CoverInv, InTime, TypeOK
<1> HIDE DEF t, page, lines
<1>4. InTime' /\ BurstInv'
  BY <1>1 DEF CoverInv, InTime, BurstInv
<1>5. now' <= lastRun' + Outage
  BY <1>1, <1>2, <1>3
\* The cursor is in the window of some line of the page, if it moves.
<1>6. run.recent # {} => \E m \in page : cursor' = log[m].at
  <2> SUFFICES ASSUME run.recent # {} PROVE \E m \in page : cursor' = log[m].at
    OBVIOUS
  <2>1. PICK r \in run.recent : cursor' = r[2]
    BY <1>1, NewestWindow
  <2>2. PICK m \in page : r = RowOf(m)
    BY <1>3 DEF Rows
  <2> QED BY <1>3, <2>1, <2>2 DEF RowOf
<1>7. ASSUME NEW n \in DOMAIN log \ Junk PROVE Ahead(n)'
  <2>1. CASE n \in scored \cup passed
    BY <1>1, <2>1 DEF Ahead
  <2>2. CASE n \notin scored \cup passed
    <3>1. /\ log[n].at > lastRun + Outage - Fetch
          /\ cursor # None => cursor <= log[n].window
      BY <2>2 DEF CoverInv, Ahead
    <3>2. CASE n \in page
      <4>1. CASE Enough(Rows(page)) /\ HasHistory(Rows(page), cursor)
        <5>1. run.recent = {r \in Rows(page) : r[2] >= cursor} /\ cursor # None
          BY <1>2, <4>1 DEF Recent, HasHistory
        <5>2. RowOf(n) \in Rows(page) /\ RowOf(n)[2] = log[n].window
          BY <3>2 DEF Rows, RowOf
        <5>3. cursor <= log[n].window /\ cursor \in Nat /\ log[n].window \in Nat
          BY <3>1, <5>1, TimeTypes
        <5>4. RowOf(n) \in run.recent
          BY <5>1, <5>2, <5>3
        <5> QED BY <1>1, <3>2, <5>4 DEF Ahead, lines
      <4>2. CASE ~(Enough(Rows(page)) /\ HasHistory(Rows(page), cursor))
        BY <1>1, <3>2, <4>2 DEF Ahead
      <4> QED BY <4>1, <4>2
    <3>3. CASE n \notin page
      <4>1. ~(log[n].at <= t - Fetch)
        BY <1>2, <1>3, <3>1
      <4>2. log[n].at > t + Outage - Fetch /\ \A m \in page : log[m].at <= log[n].at
        BY <1>2, <3>3, <4>1 DEF Reaches
      <4>3. cursor' # None => cursor' <= log[n].window
        <5>1. CASE run.recent = {}
          BY <1>1, <3>1, <5>1
        <5>2. CASE run.recent # {}
          BY <1>3, <1>6, <4>2, <5>2
        <5> QED BY <5>1, <5>2
      <4> QED BY <1>1, <4>2, <4>3 DEF Ahead
    <3> QED BY <3>2, <3>3
  <2> QED BY <2>1, <2>2
<1> QED BY <1>1, <1>4, <1>5, <1>7 DEF CoverInv

LEMMA NextCovers ==
    ASSUME Late = 0, Outage < Fetch, Burst <= Page, TypeOK, PageInv, CoverInv, [Next]_vars
    PROVE  CoverInv'
\* Most steps leave all but pc and run as it is.
<1>1. ASSUME UNCHANGED <<now, log, cursor, lastRun, scored, passed>>
      PROVE  /\ InTime' /\ BurstInv'
             /\ now' <= lastRun' + Outage
             /\ \A n \in DOMAIN log' \ Junk : Ahead(n)'
             /\ \A page : Rows(page)' = Rows(page)
             /\ \A page, t : Reaches(page, t) => Reaches(page, t)'
  BY <1>1 DEF CoverInv, InTime, BurstInv, Ahead, Rows, RowOf, Reaches
<1>2. ASSUME NEW w \in 0..MaxTime, Index(w) PROVE CoverInv'
  BY <1>2, IndexCovers
<1>3. CASE Tick
  <2>1. UNCHANGED <<log, cursor, lastRun, pc, run, scored, passed>> /\ now' = now + 1
        /\ now < lastRun + Outage
    BY <1>3 DEF Tick
  <2>2. now' <= lastRun' + Outage
    BY <2>1, TimeTypes
  <2> QED BY <2>1, <2>2 DEF CoverInv, InTime, BurstInv, Ahead, Rows, RowOf, Reaches
<1>4. CASE Score
  <2>1. /\ UNCHANGED <<now, log, cursor, lastRun, scored, passed>>
        /\ run'.from = now /\ run'.page = Hits(now)
        /\ run'.recent = IF Enough(Rows(Hits(now))) THEN Recent(Rows(Hits(now)), cursor) ELSE {}
    BY <1>4 DEF Score
  <2>2. Reaches(Hits(now), now) /\ lastRun <= now
    BY HitsReach, TimeTypes
  <2>3. Reaches(run.page, run.from)'
    BY <2>1, <2>2 DEF Reaches
  <2>4. Rows(run.page)' = Rows(Hits(now))
    BY <2>1 DEF Rows, RowOf
  <2> QED BY <1>1, <2>1, <2>2, <2>3, <2>4 DEF CoverInv
<1>5. CASE Ingest
  BY <1>1, <1>5 DEF Ingest, CoverInv, Reaches
<1>6. CASE Commit
  BY <1>6, CommitCovers
<1>7. CASE Abort
  BY <1>1, <1>7 DEF Abort, CoverInv
<1>8. CASE UNCHANGED vars
  BY <1>1, <1>8 DEF vars, CoverInv, Reaches
<1> QED BY <1>2, <1>3, <1>4, <1>5, <1>6, <1>7, <1>8 DEF Next

\* If lines are indexed within their window, runs complete more often than lines age out
\* and a page holds what is indexed within an outage, then every line of a window before
\* the cursor was scored, or seen by a run that had not enough history.
THEOREM EveryLineIsScored ==
    ASSUME Late = 0, Outage < Fetch, Burst <= Page
    PROVE  Spec => []ScoredUpToHere
<1>1. Init => CoverInv
  BY DetectorBounds DEF Init, CoverInv, InTime, BurstInv
<1>2. TypeOK /\ PageInv /\ CoverInv /\ [Next]_vars => CoverInv'
  BY NextCovers
<1>3. TypeOK /\ CoverInv => ScoredUpToHere
  <2> SUFFICES ASSUME TypeOK, CoverInv, NEW n \in DOMAIN log \ Junk,
                      cursor # None, log[n].window < cursor
               PROVE  n \in scored \cup passed
    BY DEF ScoredUpToHere
  <2>1. ~(cursor <= log[n].window)
    BY TimeTypes
  <2> QED BY <2>1 DEF CoverInv, Ahead
<1> QED BY <1>1, <1>2, <1>3, TypeInvariant, PageInvariant, PTL DEF Spec
====
