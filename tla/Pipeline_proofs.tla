---- MODULE Pipeline_proofs ----
(***************************************************************************)
(* Proofs about the pipeline cycle: when the timestamp cursor loses        *)
(* nothing, and when the gate skips nothing.                               *)
(***************************************************************************)
EXTENDS Pipeline, TLAPS

\* The type invariant holds for every page size, limit and set of failures.
THEOREM PipelineTypeCorrect == Spec => []TypeOK
<1>1. Init => TypeOK
  <2> SUFFICES ASSUME Init PROVE TypeOK
    OBVIOUS
  <2>1. 0 \in 0..MaxAttempts /\ 0 \in 0..MaxCrash
    BY PipelineBounds
  <2>2. verdict \in [Alert -> Answer \cup {None}] /\ attempts \in [Alert -> 0..MaxAttempts]
    BY <2>1 DEF Init
  <2> QED BY <2>1, <2>2 DEF Init, TypeOK
<1>2. TypeOK /\ [Next]_vars => TypeOK'
  <2> SUFFICES ASSUME TypeOK, [Next]_vars PROVE TypeOK'
    OBVIOUS
  <2> USE PipelineBounds DEF TypeOK, Source, Pending, Exhausted
  <2>1. ASSUME NEW e \in Alert, Occur(e) PROVE TypeOK'
    BY <2>1 DEF Occur
  <2>2. ASSUME NEW e \in Alert, Emit(e) PROVE TypeOK'
    BY <2>2 DEF Emit
  <2>3. CASE Poll
    <3>1. page' \subseteq index
      BY <2>3 DEF Poll, Answers, Oldest
    <3> QED BY <2>3, <3>1 DEF Poll
  <2>4. ASSUME NEW e \in Alert, SkipMalformed(e) PROVE TypeOK'
    BY <2>4 DEF SkipMalformed, Raises
  <2>5. CASE StorePage
    BY <2>5 DEF StorePage, Raises
  <2>6. CASE ReadPending
    <3>1. todo' \subseteq Pending
      BY <2>6 DEF ReadPending, Oldest
    <3> QED BY <2>6, <3>1 DEF ReadPending
  <2>7. ASSUME NEW e \in Alert, NEW v \in Answer, TriageOk(e, v) PROVE TypeOK'
    BY <2>7 DEF TriageOk, InTurn
  <2>8. ASSUME NEW e \in Alert, TriageFails(e) PROVE TypeOK'
    <3>1. attempts[e] < MaxAttempts
      BY <2>8 DEF TriageFails, Recorded, InTurn
    <3>2. attempts' \in [Alert -> 0..MaxAttempts]
      BY <2>8, <3>1 DEF TriageFails, Recorded
    <3>3. todo' \subseteq Pending'
      BY <2>8 DEF TriageFails, Recorded
    <3> QED BY <2>8, <3>2, <3>3 DEF TriageFails, Recorded
  <2>9. CASE Gate
    BY <2>9 DEF Gate
  <2>10. CASE Rebuild
    BY <2>10 DEF Rebuild
  <2>11. CASE RebuildRaises
    BY <2>11 DEF RebuildRaises, Unrankable
  <2>12. CASE Crash
    <3>1. crashes' \in 0..MaxCrash
      BY <2>12 DEF Crash
    <3>2. todo' \subseteq Pending' /\ page' \subseteq index' /\ news' \in BOOLEAN
      BY <2>12 DEF Crash, EndEarly
    <3> QED BY <2>12, <3>1, <3>2 DEF Crash, EndEarly
  <2>13. CASE UNCHANGED vars
    BY <2>13 DEF vars
  <2>14. ASSUME NEW e \in Alert, TriageBreaks(e) PROVE TypeOK'
    BY <2>14 DEF TriageBreaks, EndEarly
  <2> QED
    BY <2>1, <2>2, <2>3, <2>4, <2>5, <2>6, <2>7, <2>8, <2>9, <2>10, <2>11, <2>12, <2>13, <2>14
    DEF Next, Cycle
<1> QED BY <1>1, <1>2, PTL DEF Spec

----
\* What makes NothingBehind inductive: an answer in hand reaches as far as the
\* cursor it will set, and what it holds is still in the range it was read from.
CursorInv ==
    /\ page # {} => pc = "ingest"
    /\ stored \cap Local = {} =>
        /\ \A e \in page : InRange(e, stored)
        /\ \A e \in index : e \in stored \cup letters \cup page \/ InRange(e, stored \cup page)

\* With the lookback at least the manager's offset plus the lateness of the index,
\* the search never leaves an indexed alert behind the cursor, whatever the page
\* size, until a detector stores an alert.
THEOREM CursorLosesNothing ==
    ASSUME Offset <= Lookback, Late + Offset <= Lookback
    PROVE  Spec => []NothingBehind
<1> USE PipelineBounds
<1>1. Init => CursorInv
  BY DEF Init, CursorInv, InRange
<1>2. TypeOK /\ CursorInv /\ [Next]_vars => CursorInv'
  <2> SUFFICES ASSUME TypeOK, CursorInv, [Next]_vars PROVE CursorInv'
    OBVIOUS
  <2>0. /\ \A e \in Alert : Time[e] \in Int
        /\ \A e \in Source : Stamp(e) = Time[e] + Offset
        /\ Lookback \in Int /\ Late \in Int /\ Offset \in Int
        /\ page \subseteq index /\ index \subseteq Source /\ Source \subseteq Alert
        /\ stored \cap Local = {} => stored \subseteq index
    BY DEF Stamp, TypeOK, Source
  <2>1. ASSUME NEW e \in Alert, Occur(e) PROVE CursorInv'
    <3>1. stored \cap Local = {} => \A f \in stored \cup page : Time[f] <= Time[e] + Late
      BY <2>0, <2>1 DEF Occur
    <3>2. stored \cap Local = {} => InRange(e, stored \cup page)
      BY <2>0, <3>1 DEF InRange
    <3> QED BY <2>1, <3>2 DEF Occur, CursorInv, InRange, Stamp
  <2>2. ASSUME NEW e \in Alert, Emit(e) PROVE CursorInv'
    BY <2>2 DEF Emit, CursorInv
  <2>3. CASE Poll
    <3> DEFINE Hits == {e \in index : InRange(e, stored)}
    <3>1. page' \subseteq Hits /\ \A e \in page', f \in Hits \ page' : Time[e] <= Time[f]
      BY <2>3 DEF Poll, Answers, Oldest
    <3>2. page = {}
      BY <2>3 DEF Poll, CursorInv
    <3>3. ASSUME stored \cap Local = {}, NEW e \in index, e \notin stored \cup letters \cup page'
          PROVE  InRange(e, stored \cup page')
      <4>1. e \in Hits
        BY <3>2, <3>3 DEF CursorInv
      <4>2. \A f \in page' : Time[e] >= Stamp(f) - Lookback
        <5> SUFFICES ASSUME NEW f \in page' PROVE Time[e] >= Stamp(f) - Lookback
          OBVIOUS
        <5>1. f \in Source /\ e \in Source /\ Time[f] <= Time[e]
          BY <2>0, <3>1, <3>3, <4>1
        <5> QED BY <2>0, <5>1
      <4> QED BY <4>1, <4>2 DEF InRange
    <3> QED BY <2>3, <3>1, <3>3 DEF Poll, CursorInv, InRange, Stamp
  <2>4. ASSUME NEW e \in Alert, SkipMalformed(e) PROVE CursorInv'
    BY <2>4 DEF SkipMalformed, Raises, CursorInv, InRange, Stamp
  <2>5. CASE StorePage
    BY <2>5 DEF StorePage, Raises, CursorInv, InRange, Stamp
  <2>6. CASE ReadPending
    BY <2>6 DEF ReadPending, CursorInv, InRange, Stamp
  <2>7. ASSUME NEW e \in Alert, NEW v \in Answer, TriageOk(e, v) PROVE CursorInv'
    BY <2>7 DEF TriageOk, CursorInv, InRange, Stamp
  <2>8. ASSUME NEW e \in Alert, TriageFails(e) PROVE CursorInv'
    BY <2>8 DEF TriageFails, Recorded, CursorInv, InRange, Stamp
  <2>9. CASE Gate
    BY <2>9 DEF Gate, CursorInv, InRange, Stamp
  <2>10. CASE Rebuild
    BY <2>10 DEF Rebuild, CursorInv, InRange, Stamp
  <2>11. CASE RebuildRaises
    BY <2>11 DEF RebuildRaises, CursorInv, InRange, Stamp
  <2>12. CASE Crash
    BY <2>12 DEF Crash, EndEarly, CursorInv, InRange, Stamp
  <2>13. CASE UNCHANGED vars
    BY <2>13 DEF vars, CursorInv, InRange, Stamp
  <2>14. ASSUME NEW e \in Alert, TriageBreaks(e) PROVE CursorInv'
    BY <2>14 DEF TriageBreaks, EndEarly, CursorInv, InRange, Stamp
  <2> QED
    BY <2>1, <2>2, <2>3, <2>4, <2>5, <2>6, <2>7, <2>8, <2>9, <2>10, <2>11, <2>12, <2>13, <2>14
    DEF Next, Cycle
<1>3. CursorInv => NothingBehind
  BY DEF CursorInv, NothingBehind, InRange
<1> QED BY <1>1, <1>2, <1>3, PipelineTypeCorrect, PTL DEF Spec

----
\* What makes IdleIsGrouped inductive: until the rebuild an alert that belongs in
\* an incident keeps the gate open, and only stored alerts have a verdict.
GateInv ==
    /\ \A e \in Alert : verdict[e] # None => e \in stored
    /\ ~cut /\ Unrankable = {} =>
        \A e \in stored : e \in Source \/ verdict[e] # None =>
            \/ e \in grouped
            \/ pc \in {"pending", "triage"} /\ news
            \/ pc = "rebuild"

\* As long as no cycle has ended early and no unknown verdict is stored, the gate never
\* leaves a polled alert, or one with a verdict, without an incident.
THEOREM GateSkipsNothing == Spec => []IdleIsGrouped
<1> USE PipelineBounds
<1>1. Init => GateInv
  BY DEF Init, GateInv
<1>2. TypeOK /\ GateInv /\ [Next]_vars => GateInv'
  <2> SUFFICES ASSUME TypeOK, GateInv, [Next]_vars PROVE GateInv'
    OBVIOUS
  <2> USE DEF TypeOK, GateInv, Source, Pending, Unrankable
  <2>1. ASSUME NEW e \in Alert, Occur(e) PROVE GateInv'
    BY <2>1 DEF Occur
  <2>2. ASSUME NEW e \in Alert, Emit(e) PROVE GateInv'
    BY <2>2 DEF Emit
  <2>3. CASE Poll
    BY <2>3 DEF Poll
  <2>4. ASSUME NEW e \in Alert, SkipMalformed(e) PROVE GateInv'
    BY <2>4 DEF SkipMalformed, Raises
  <2>5. CASE StorePage
    BY <2>5 DEF StorePage, Raises
  <2>6. CASE ReadPending
    BY <2>6 DEF ReadPending
  <2>7. ASSUME NEW e \in Alert, NEW v \in Answer, TriageOk(e, v) PROVE GateInv'
    BY <2>7 DEF TriageOk, InTurn
  <2>8. ASSUME NEW e \in Alert, TriageFails(e) PROVE GateInv'
    BY <2>8 DEF TriageFails, Recorded
  <2>9. CASE Gate
    BY <2>9 DEF Gate
  <2>10. CASE Rebuild
    BY <2>10 DEF Rebuild
  <2>11. CASE RebuildRaises
    BY <2>11 DEF RebuildRaises, Unrankable
  <2>12. CASE Crash
    BY <2>12 DEF Crash, EndEarly
  <2>13. CASE UNCHANGED vars
    BY <2>13 DEF vars
  <2>14. ASSUME NEW e \in Alert, TriageBreaks(e) PROVE GateInv'
    BY <2>14 DEF TriageBreaks, EndEarly
  <2> QED
    BY <2>1, <2>2, <2>3, <2>4, <2>5, <2>6, <2>7, <2>8, <2>9, <2>10, <2>11, <2>12, <2>13, <2>14
    DEF Next, Cycle
<1>3. GateInv => IdleIsGrouped
  BY SMT DEF GateInv, IdleIsGrouped, Unrankable, Source
<1> QED BY <1>1, <1>2, <1>3, PipelineTypeCorrect, PTL DEF Spec
====
