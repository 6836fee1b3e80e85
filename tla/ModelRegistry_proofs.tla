---- MODULE ModelRegistry_proofs ----
(***************************************************************************)
(* Proofs about the model registry, for every set of trainers, servers and *)
(* accuracies, and about the second opinions their models give.            *)
(***************************************************************************)
EXTENDS Opinions, FiniteSetTheorems, TLAPS

\* A running trainer has its candidate, and one inside its transaction holds the
\* lock, with a version to give.
LocalsInv ==
    /\ \A t \in Trainer : pc[t] # "idle" => cand[t] \in Accuracy
    /\ \A t \in Trainer :
        pc[t] \in {"flushed", "dumping", "dumped"} => writer = t /\ Len(acc) < MaxRows

\* A finished dump holds its trainer's candidate under the version to come, and
\* what is promoted, or was when a server read it, is in its file.
FilesInv ==
    /\ \A t \in Trainer : pc[t] = "dumped" => files[NextVersion] = cand[t]
    /\ \A v \in promoted : files[v] = acc[v]
    /\ \A s \in Server : want[s] # 0 => files[want[s]] = acc[want[s]]
    /\ ServesWhatItRead

\* Without a race at most one version is promoted.
UniqueInv == ~raced => \A v, w \in promoted : v = w

RegistryInv == TypeOK /\ LocalsInv /\ FilesInv /\ UniqueInv

USE RegistryBounds

\* A commit appends one row with the candidate's accuracy and leaves the others.
LEMMA CommitAppends ==
    ASSUME TypeOK, LocalsInv, NEW t \in Trainer, Commit(t)
    PROVE  /\ Len(acc) < MaxRows
           /\ acc' \in Seq(Accuracy) /\ Len(acc') = Len(acc) + 1
           /\ acc'[NextVersion] = cand[t]
           /\ \A v \in 1..Len(acc) : acc'[v] = acc[v]
<1>1. cand[t] \in Accuracy /\ Len(acc) < MaxRows
  BY DEF Commit, LocalsInv
<1>2. acc' = Append(acc, cand[t]) /\ acc \in Seq(Accuracy)
  BY DEF Commit, Register, TypeOK
<1> QED BY <1>1, <1>2 DEF NextVersion

\* A trainer's step that is over leaves the others as they are.
LEMMA EndKeeps ==
    ASSUME TypeOK, LocalsInv, NEW t \in Trainer, End(t), Len(acc') = Len(acc) \/ writer = t
    PROVE  /\ writer' \in Trainer \cup {None}
           /\ pc' \in [Trainer -> {"idle", "trained", "decided", "flushed", "dumping", "dumped"}]
           /\ cand' \in [Trainer -> Accuracy \cup {None}]
           /\ inc' \in [Trainer -> 0..Len(acc)]
           /\ \A u \in Trainer : pc'[u] # "idle" => cand'[u] = cand[u] /\ pc'[u] = pc[u] /\ u # t
           /\ \A u \in Trainer :
                pc'[u] \in {"flushed", "dumping", "dumped"} => writer' = u /\ Len(acc') = Len(acc)
<1>1. 0 \in 0..Len(acc)
  BY DEF TypeOK
<1> QED BY <1>1 DEF End, TypeOK, LocalsInv

\* The inductive invariant holds in every initial state and survives every step.
THEOREM RegistryInvariant == Spec => []RegistryInv
<1>1. Init => RegistryInv
  <2> SUFFICES ASSUME Init PROVE RegistryInv
    OBVIOUS
  <2>1. acc \in Seq(Accuracy) /\ Len(acc) = 0
    BY DEF Init
  <2>2. TypeOK
    <3>1. 0 \in 0..Len(acc) /\ Len(acc) <= MaxRows
      BY <2>1
    <3> QED BY <2>1, <3>1 DEF Init, TypeOK
  <2> QED
    BY <2>2 DEF Init, RegistryInv, LocalsInv, FilesInv, UniqueInv, ServesWhatItRead
<1>2. RegistryInv /\ [Next]_vars => RegistryInv'
  <2> SUFFICES ASSUME RegistryInv, [Next]_vars PROVE RegistryInv'
    OBVIOUS
  <2> USE DEF RegistryInv
  <2>0. /\ acc \in Seq(Accuracy) /\ Len(acc) \in Nat /\ promoted \subseteq 1..Len(acc)
        /\ NextVersion = Len(acc) + 1
    BY DEF TypeOK, NextVersion
  <2>1. ASSUME NEW t \in Trainer, NEW a \in Accuracy, Train(t, a) PROVE RegistryInv'
    BY <2>1 DEF Train, TypeOK, LocalsInv, FilesInv, UniqueInv, ServesWhatItRead, NextVersion
  <2>2. ASSUME NEW t \in Trainer, ReadIncumbent(t) PROVE RegistryInv'
    <3>1. \A v \in PromotedRow : v \in 0..Len(acc)
      BY <2>0 DEF PromotedRow
    <3> QED
      BY <2>2, <3>1
      DEF ReadIncumbent, TypeOK, LocalsInv, FilesInv, UniqueInv, ServesWhatItRead, NextVersion
  <2>3. ASSUME NEW t \in Trainer, Flush(t) PROVE RegistryInv'
    BY <2>3 DEF Flush, TypeOK, LocalsInv, FilesInv, UniqueInv, ServesWhatItRead, NextVersion
  <2>4. ASSUME NEW t \in Trainer, DumpStarts(t) PROVE RegistryInv'
    <3>1. writer = t /\ \A u \in Trainer : pc[u] # "dumped"
      BY <2>4 DEF DumpStarts, LocalsInv
    <3>2. files' = [files EXCEPT ![NextVersion] = Torn]
          /\ \A v \in 1..Len(acc) : files'[v] = files[v]
      BY <2>0, <2>4 DEF DumpStarts, TypeOK
    <3>3. TypeOK' /\ LocalsInv'
      BY <2>4, <3>1 DEF DumpStarts, TypeOK, LocalsInv
    <3>4. FilesInv' /\ UniqueInv'
      BY <2>0, <2>4, <3>1, <3>2
      DEF DumpStarts, TypeOK, FilesInv, UniqueInv, ServesWhatItRead, NextVersion
    <3> QED BY <3>3, <3>4
  <2>5. ASSUME NEW t \in Trainer, DumpEnds(t) PROVE RegistryInv'
    <3>1. writer = t /\ cand[t] \in Accuracy /\ NextVersion \in Version
          /\ \A u \in Trainer : pc'[u] = "dumped" => u = t
      BY <2>0, <2>5 DEF DumpEnds, LocalsInv, TypeOK, Version
    <3>2. files'[NextVersion] = cand[t] /\ \A v \in 1..Len(acc) : files'[v] = files[v]
      BY <2>0, <2>5, <3>1 DEF DumpEnds, TypeOK
    <3>3. TypeOK' /\ LocalsInv'
      BY <2>5, <3>1 DEF DumpEnds, TypeOK, LocalsInv
    <3>4. FilesInv' /\ UniqueInv'
      BY <2>0, <2>5, <3>1, <3>2
      DEF DumpEnds, TypeOK, FilesInv, UniqueInv, ServesWhatItRead, NextVersion
    <3> QED BY <3>3, <3>4
  <2>6. ASSUME NEW t \in Trainer, Commit(t) PROVE RegistryInv'
    <3>1. /\ Len(acc) < MaxRows /\ acc' \in Seq(Accuracy) /\ Len(acc') = Len(acc) + 1
          /\ acc'[NextVersion] = cand[t] /\ \A v \in 1..Len(acc) : acc'[v] = acc[v]
      BY <2>6, CommitAppends
    <3>2. End(t) /\ writer = t /\ UNCHANGED <<files, cache, want>>
      BY <2>6 DEF Commit, Register, LocalsInv
    <3>3. /\ promoted' = IF Gate(t) THEN (promoted \ {inc[t]}) \cup {NextVersion} ELSE promoted
          /\ raced' = (raced \/ (Gate(t) /\ promoted \ {inc[t]} # {}))
          /\ Gate(t) => files[NextVersion] = cand[t]
      BY <2>6 DEF Commit, Register, Demote, FilesInv
    <3>4. /\ writer' \in Trainer \cup {None}
          /\ pc' \in [Trainer -> {"idle", "trained", "decided", "flushed", "dumping", "dumped"}]
          /\ cand' \in [Trainer -> Accuracy \cup {None}]
          /\ inc' \in [Trainer -> 0..Len(acc)]
          /\ \A u \in Trainer : pc'[u] # "idle" => cand'[u] = cand[u] /\ pc'[u] = pc[u]
          /\ \A u \in Trainer : pc'[u] \notin {"flushed", "dumping", "dumped"}
      BY <3>1, <3>2, EndKeeps
    <3>5. TypeOK'
      <4>0. NextVersion \in 1..Len(acc') /\ 1..Len(acc) \subseteq 1..Len(acc')
        BY <2>0, <3>1
      <4>1. promoted' \subseteq 1..Len(acc')
        BY <2>0, <3>3, <4>0
      <4>2. inc' \in [Trainer -> 0..Len(acc')] /\ want' \in [Server -> 0..Len(acc')]
        BY <2>0, <3>1, <3>2, <3>4 DEF TypeOK
      <4>3. raced' \in BOOLEAN
        BY <3>3 DEF TypeOK, Gate
      <4> QED BY <2>0, <3>1, <3>2, <3>4, <4>1, <4>2, <4>3 DEF TypeOK
    <3>6. LocalsInv'
      BY <3>4 DEF LocalsInv
    <3>7. FilesInv'
      <4>1. \A v \in promoted' : files'[v] = acc'[v]
        BY <2>0, <3>1, <3>2, <3>3 DEF FilesInv
      <4>2. \A s \in Server : want[s] # 0 => acc'[want[s]] = acc[want[s]]
        BY <2>0, <3>1 DEF TypeOK
      <4> QED BY <3>2, <3>4, <4>1, <4>2 DEF FilesInv, ServesWhatItRead
    <3>8. UniqueInv'
      BY <3>3 DEF UniqueInv
    <3> QED BY <3>5, <3>6, <3>7, <3>8
  <2>7. ASSUME NEW t \in Trainer, Abort(t) PROVE RegistryInv'
    <3>1. End(t) /\ UNCHANGED <<acc, promoted, files, cache, want, raced>>
      BY <2>7 DEF Abort
    <3>2. TypeOK' /\ LocalsInv' /\ \A u \in Trainer : pc'[u] # "idle" => pc[u] = pc'[u] /\ cand[u] = cand'[u]
      BY <3>1, EndKeeps DEF TypeOK, LocalsInv
    <3> QED BY <3>1, <3>2 DEF FilesInv, UniqueInv, ServesWhatItRead, NextVersion
  <2>8. ASSUME NEW s \in Server, ReadPromoted(s) PROVE RegistryInv'
    <3>1. \A v \in PromotedRow : v \in 0..Len(acc) /\ (v # 0 => v \in promoted)
      BY <2>0 DEF PromotedRow
    <3> QED
      BY <2>8, <3>1
      DEF ReadPromoted, TypeOK, LocalsInv, FilesInv, UniqueInv, ServesWhatItRead, NextVersion
  <2>9. ASSUME NEW s \in Server, LoadFile(s) PROVE RegistryInv'
    <3>1. acc[want[s]] \in Accuracy /\ files[want[s]] = acc[want[s]]
      BY <2>0, <2>9 DEF LoadFile, TypeOK, FilesInv
    <3> QED
      BY <2>9, <3>1
      DEF LoadFile, TypeOK, LocalsInv, FilesInv, UniqueInv, ServesWhatItRead, NextVersion
  <2>10. ASSUME NEW s \in Server, Restart(s) PROVE RegistryInv'
    BY <2>10 DEF Restart, TypeOK, LocalsInv, FilesInv, UniqueInv, ServesWhatItRead, NextVersion
  <2>11. CASE UNCHANGED vars
    BY <2>11 DEF vars, TypeOK, LocalsInv, FilesInv, UniqueInv, ServesWhatItRead, NextVersion
  <2> QED
    BY <2>1, <2>2, <2>3, <2>4, <2>5, <2>6, <2>7, <2>8, <2>9, <2>10, <2>11 DEF Next, Retrains
<1> QED BY <1>1, <1>2, PTL DEF Spec

----
\* The type invariant holds for every set of trainers, servers and accuracies.
THEOREM RegistryTypeCorrect == Spec => []TypeOK
<1>1. RegistryInv => TypeOK
  BY DEF RegistryInv
<1> QED BY <1>1, RegistryInvariant, PTL

\* At most one row is promoted, unless a run was promoted over a promotion it had
\* not read.
THEOREM PromotedIsUnique == Spec => []OnlyOnePromoted
<1>1. RegistryInv => OnlyOnePromoted
  <2> SUFFICES ASSUME RegistryInv, ~raced PROVE Cardinality(promoted) <= 1
    BY DEF OnlyOnePromoted
  <2>1. CASE promoted = {}
    BY <2>1, FS_EmptySet
  <2>2. ASSUME NEW v \in promoted PROVE Cardinality(promoted) <= 1
    <3>1. promoted = {v}
      BY <2>2 DEF RegistryInv, UniqueInv
    <3>2. Cardinality({v}) = 1
      BY FS_Singleton
    <3> QED BY <3>1, <3>2
  <2> QED BY <2>1, <2>2
<1> QED BY <1>1, RegistryInvariant, PTL

\* A server never serves anything but the model of the promoted row it read.
THEOREM ServedIsRegistered == Spec => []ServesWhatItRead
<1>1. RegistryInv => ServesWhatItRead
  BY DEF RegistryInv, FilesInv
<1> QED BY <1>1, RegistryInvariant, PTL

\* No step leaves production without a model or, without a race, with a worse one.
THEOREM ProductionNeverRegresses == Spec => NeverRegress
<1> DEFINE Step == /\ promoted # {} => promoted' # {}
                   /\ ~raced' => \A v \in promoted, w \in promoted' : acc'[w] >= acc[v]
<1>1. RegistryInv /\ [Next]_vars => [Step]_vars
  <2> SUFFICES ASSUME RegistryInv, [Next]_vars PROVE [Step]_vars
    OBVIOUS
  <2>0. /\ Len(acc) \in Nat /\ promoted \subseteq 1..Len(acc)
        /\ \A v \in 1..Len(acc) : acc[v] \in Nat
    <3>1. acc \in Seq(Accuracy) /\ promoted \subseteq 1..Len(acc)
      BY DEF RegistryInv, TypeOK
    <3>2. Len(acc) \in Nat /\ \A v \in 1..Len(acc) : acc[v] \in Accuracy
      BY <3>1
    <3> QED BY <3>1, <3>2
  <2>1. CASE UNCHANGED <<acc, promoted, raced>>
    BY <2>0, <2>1 DEF RegistryInv, UniqueInv
  <2>2. ASSUME NEW t \in Trainer, Commit(t) PROVE Step
    <3>1. /\ acc'[NextVersion] = cand[t] /\ \A v \in 1..Len(acc) : acc'[v] = acc[v]
          /\ cand[t] \in Nat
      BY <2>2, CommitAppends DEF RegistryInv, LocalsInv, Commit
    <3>2. /\ promoted' = IF Gate(t) THEN (promoted \ {inc[t]}) \cup {NextVersion} ELSE promoted
          /\ ~raced' => ~raced /\ (Gate(t) => promoted \ {inc[t]} = {})
      BY <2>2 DEF Commit, Register, Demote
    <3>3. CASE ~Gate(t)
      BY <2>0, <3>1, <3>2, <3>3 DEF RegistryInv, UniqueInv
    <3>4. CASE Gate(t)
      <4>1. NextVersion \in promoted'
        BY <3>2, <3>4
      <4>2. ASSUME ~raced', NEW v \in promoted, NEW w \in promoted' PROVE acc'[w] >= acc[v]
        <5>1. v = inc[t] /\ w = NextVersion
          BY <3>2, <3>4, <4>2
        <5>2. inc[t] # 0
          BY <2>0, <5>1
        <5> QED BY <3>1, <3>4, <5>1, <5>2 DEF Gate
      <4> QED BY <4>1, <4>2
    <3> QED BY <3>3, <3>4
  <2> QED
    BY <2>1, <2>2
    DEF Next, Retrains, vars, Train, ReadIncumbent, Flush, DumpStarts, DumpEnds, Abort, ReadPromoted,
        LoadFile, Restart
<1>2. Spec => [][Step]_vars
  BY <1>1, RegistryInvariant, PTL DEF Spec
<1> QED BY <1>2 DEF NeverRegress

----
\* Giving opinions only reads the registry: what is proved of it holds beside them.
THEOREM OpinionsKeepRegistry == OpinionSpec => Spec
<1>1. OpinionInit => Init
  BY DEF OpinionInit
<1>2. [OpinionNext]_<<vars, opinionVars>> => [Next]_vars
  <2>1. OpinionNext => Next \/ UNCHANGED vars
    BY DEF OpinionNext, Next, StoreVerdict, ReadMissing, Fill
  <2>2. UNCHANGED <<vars, opinionVars>> => UNCHANGED vars
    OBVIOUS
  <2> QED BY <2>1, <2>2
<1> QED BY <1>1, <1>2, PTL DEF OpinionSpec, Spec

\* What a backfill that nobody has overtaken is about to fill in is still missing.
StillMissing ==
    /\ judged \subseteq Alert
    /\ pending \in [Server -> SUBSET Alert]
    /\ opinion \in [Alert -> Accuracy \cup {Default, None}]
    /\ \A s \in Server \ overtaken : \A a \in pending[s] : a \in judged /\ opinion[a] = None

LEMMA MissingInvariant == OpinionSpec => []StillMissing
<1>1. OpinionInit => StillMissing
  BY DEF OpinionInit, StillMissing
<1>2. StillMissing /\ TypeOK /\ [OpinionNext]_<<vars, opinionVars>> => StillMissing'
  <2> SUFFICES ASSUME StillMissing, TypeOK, [OpinionNext]_<<vars, opinionVars>> PROVE StillMissing'
    OBVIOUS
  <2> USE DEF StillMissing
  <2>1. CASE UNCHANGED opinionVars
    BY <2>1 DEF opinionVars
  <2>2. ASSUME NEW s \in Server, NoBackfill(s), UNCHANGED <<judged, opinion>> PROVE StillMissing'
    BY <2>2 DEF NoBackfill
  <2>3. ASSUME NEW s \in Server, NEW a \in Alert, StoreVerdict(s, a) PROVE StillMissing'
    <3>1. PICK m \in {cache[s], None} : opinion' = [opinion EXCEPT ![a] = m]
      BY <2>3 DEF StoreVerdict
    <3>2. m \in Accuracy \cup {Default, None}
      BY <3>1 DEF TypeOK
    <3>3. a \notin judged /\ judged' = judged \cup {a} /\ pending' = pending /\ overtaken' = overtaken
      BY <2>3 DEF StoreVerdict
    <3>4. opinion' \in [Alert -> Accuracy \cup {Default, None}]
      BY <3>1, <3>2
    <3>5. ASSUME NEW q \in Server \ overtaken', NEW b \in pending'[q]
          PROVE  b \in judged' /\ opinion'[b] = None
      <4>1. b \in Alert /\ b \in judged /\ opinion[b] = None
        BY <3>3, <3>5
      <4>2. b # a
        BY <3>3, <4>1
      <4>3. opinion'[b] = opinion[b]
        BY <3>1, <4>1, <4>2
      <4> QED BY <3>3, <4>1, <4>3
    <3> QED BY <3>3, <3>4, <3>5
  <2>4. ASSUME NEW s \in Server, ReadMissing(s) PROVE StillMissing'
    <3>1. Missing \in SUBSET Alert /\ \A a \in Missing : a \in judged /\ opinion[a] = None
      BY DEF Missing
    <3> QED BY <2>4, <3>1 DEF ReadMissing
  <2>5. ASSUME NEW s \in Server, Fill(s) PROVE StillMissing'
    <3>1. opinion' \in [Alert -> Accuracy \cup {Default, None}] /\ pending' \in [Server -> SUBSET Alert]
      BY <2>5 DEF Fill, TypeOK
    <3>2. ASSUME NEW q \in Server \ overtaken', NEW a \in pending'[q]
          PROVE  a \in judged' /\ opinion'[a] = None
      <4>1. CASE q = s
        BY <2>5, <3>2, <4>1 DEF Fill
      <4>2. CASE q # s
        <5>1. q \notin overtaken /\ pending[q] \cap pending[s] = {} /\ a \in pending[q]
          BY <2>5, <3>2, <4>2 DEF Fill
        <5> QED BY <2>5, <5>1 DEF Fill
      <4> QED BY <4>1, <4>2
    <3>3. judged' = judged
      BY <2>5 DEF Fill
    <3> QED BY <3>1, <3>2, <3>3
  <2>6. CASE UNCHANGED <<vars, opinionVars>>
    BY <2>6 DEF opinionVars
  <2> QED BY <2>1, <2>2, <2>3, <2>4, <2>5, <2>6 DEF OpinionNext
<1> QED BY <1>1, <1>2, RegistryTypeCorrect, OpinionsKeepRegistry, PTL DEF OpinionSpec

\* A backfill replaces no opinion that was given, unless another had given it since it
\* read the verdicts (backfill), for any number of processes.
THEOREM GivenOpinionsStay == OpinionSpec => OpinionKept
<1>1. StillMissing /\ [OpinionNext]_<<vars, opinionVars>> =>
        [\A s \in Server \ overtaken, a \in Alert :
            Fill(s) /\ opinion[a] # None => opinion'[a] = opinion[a]]_<<vars, opinionVars>>
  BY DEF StillMissing, Fill
<1> QED BY <1>1, MissingInvariant, PTL DEF OpinionSpec, OpinionKept
====
