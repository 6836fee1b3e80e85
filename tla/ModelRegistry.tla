---- MODULE ModelRegistry ----
(***************************************************************************)
(* Retraining of the second-opinion classifier, and the processes that     *)
(* serve it.  The weekly loop and a run by hand are processes of their     *)
(* own: each trains a candidate, reads the promoted row, and registers its *)
(* run in one transaction that also writes the model file.  A server reads *)
(* the registry once and keeps what it loaded until it restarts.           *)
(***************************************************************************)
EXTENDS Naturals, Sequences, FiniteSets

CONSTANTS
    Trainer,    \* processes that retrain
    Server,     \* processes that give second opinions
    Accuracy,   \* held-out accuracies; a model is told apart by its accuracy
    MaxRows,    \* bound: how many runs are registered
    Torn,       \* a file that was only partly written
    Default,    \* the model fitted on the evaluation set alone
    None

ASSUME RegistryBounds ==
    /\ Accuracy \subseteq Nat
    /\ MaxRows \in Nat
    /\ Torn \notin Accuracy /\ Default \notin Accuracy /\ None \notin Accuracy
    /\ Torn # None /\ Default # None
    /\ None \notin Trainer

VARIABLES
    acc,       \* the model_version table: the accuracy of each version, by its id
    promoted,  \* the versions whose row is marked promoted
    files,     \* what the file of each version number holds
    writer,    \* the trainer inside its transaction: SQLite has one writer
    pc,        \* where each trainer is
    cand,      \* its candidate
    inc,       \* the version it read as the incumbent, 0 if there was none
    cache,     \* the model each server serves, None until its first request
    want,      \* the version a server is about to load, 0 if none
    raced      \* whether a run was promoted over another promotion it had not read

vars == <<acc, promoted, files, writer, pc, cand, inc, cache, want, raced>>

Version == 1..MaxRows

\* get_promoted: the promoted row, if any; of several the query may give any.
PromotedRow == IF promoted = {} THEN {0} ELSE promoted

\* Mutant: the gate also lets through a candidate that is a step worse.
GateLax(t) == IF inc[t] = 0 THEN TRUE ELSE cand[t] + 1 >= acc[inc[t]]

\* The promotion gate: no incumbent, or at least as accurate on the held-out set.
Gate(t) == IF inc[t] = 0 THEN TRUE ELSE cand[t] >= acc[inc[t]]

\* The version the run in the transaction will have: ids of rolled-back rows are
\* given out again.
NextVersion == Len(acc) + 1

----
Init ==
    /\ acc = <<>>
    /\ promoted = {}
    /\ files = [v \in Version |-> None]
    /\ writer = None
    /\ pc = [t \in Trainer |-> "idle"]
    /\ cand = [t \in Trainer |-> None]
    /\ inc = [t \in Trainer |-> 0]
    /\ cache = [s \in Server |-> None]
    /\ want = [s \in Server |-> 0]
    /\ raced = FALSE

\* train_candidate: fit on the evaluation split and the analysts' corrections,
\* score on the held-out split.
Train(t, a) ==
    /\ pc[t] = "idle"
    /\ pc' = [pc EXCEPT ![t] = "trained"]
    /\ cand' = [cand EXCEPT ![t] = a]
    /\ UNCHANGED <<acc, promoted, files, writer, inc, cache, want, raced>>

\* promote_if_better reads the incumbent, outside the transaction.
ReadIncumbent(t) ==
    /\ pc[t] = "trained"
    /\ \E v \in PromotedRow : inc' = [inc EXCEPT ![t] = v]
    /\ pc' = [pc EXCEPT ![t] = "decided"]
    /\ UNCHANGED <<acc, promoted, files, writer, cand, cache, want, raced>>

\* The flush inserts the row, which takes the write lock and gives the version.
Flush(t) ==
    /\ pc[t] = "decided" /\ writer = None /\ Len(acc) < MaxRows
    /\ writer' = t
    /\ pc' = [pc EXCEPT ![t] = "flushed"]
    /\ UNCHANGED <<acc, promoted, files, cand, inc, cache, want, raced>>

\* joblib.dump opens the candidate's file ...
DumpStarts(t) ==
    /\ pc[t] = "flushed" /\ Gate(t)
    /\ files' = [files EXCEPT ![NextVersion] = Torn]
    /\ pc' = [pc EXCEPT ![t] = "dumping"]
    /\ UNCHANGED <<acc, promoted, writer, cand, inc, cache, want, raced>>

\* ... and has written it.
DumpEnds(t) ==
    /\ pc[t] = "dumping"
    /\ files' = [files EXCEPT ![NextVersion] = cand[t]]
    /\ pc' = [pc EXCEPT ![t] = "dumped"]
    /\ UNCHANGED <<acc, promoted, writer, cand, inc, cache, want, raced>>

\* Mutant: the incumbent is left promoted.
DemoteNone(t) == promoted

\* The incumbent that was read is demoted.
Demote(t) == promoted \ {inc[t]}

\* The transaction is over: the lock is free and the trainer forgets its locals.
End(t) ==
    /\ writer' = IF writer = t THEN None ELSE writer
    /\ pc' = [pc EXCEPT ![t] = "idle"]
    /\ cand' = [cand EXCEPT ![t] = None]
    /\ inc' = [inc EXCEPT ![t] = 0]

Register(t, a) ==
    /\ acc' = Append(acc, a)
    /\ promoted' = IF Gate(t) THEN Demote(t) \cup {NextVersion} ELSE promoted
    /\ raced' = (raced \/ (Gate(t) /\ promoted \ {inc[t]} # {}))
    /\ End(t)
    /\ UNCHANGED <<files, cache, want>>

\* Mutant: the row is committed while the file is being written.
CommitEarly(t) ==
    /\ pc[t] = "dumping" \/ (pc[t] = "flushed" /\ ~Gate(t))
    /\ Register(t, cand[t])

\* The commit: the row, with the demotion of the incumbent if it is promoted.
Commit(t) ==
    /\ pc[t] = "dumped" \/ (pc[t] = "flushed" /\ ~Gate(t))
    /\ Register(t, cand[t])

\* The process dies, the lock times out, or a step raises: the transaction is
\* rolled back, and what was written of the file stays.
Abort(t) ==
    /\ pc[t] # "idle"
    /\ End(t)
    /\ UNCHANGED <<acc, promoted, files, cache, want, raced>>

----
\* The first request to a server reads the promoted row; without one the default
\* model is fitted, and kept.
ReadPromoted(s) ==
    /\ cache[s] = None /\ want[s] = 0
    /\ \E v \in PromotedRow :
        /\ want' = [want EXCEPT ![s] = v]
        /\ cache' = IF v = 0 THEN [cache EXCEPT ![s] = Default] ELSE cache
    /\ UNCHANGED <<acc, promoted, files, writer, pc, cand, inc, raced>>

\* The file of that row is loaded; a missing or broken one falls back in silence.
LoadFile(s) ==
    /\ cache[s] = None /\ want[s] # 0
    /\ cache' = [cache EXCEPT ![s] =
                    IF files[want[s]] \in Accuracy THEN files[want[s]] ELSE Default]
    /\ UNCHANGED <<acc, promoted, files, writer, pc, cand, inc, want, raced>>

Restart(s) ==
    /\ cache' = [cache EXCEPT ![s] = None]
    /\ want' = [want EXCEPT ![s] = 0]
    /\ UNCHANGED <<acc, promoted, files, writer, pc, cand, inc, raced>>

Retrains ==
    \E t \in Trainer :
        \/ \E a \in Accuracy : Train(t, a)
        \/ ReadIncumbent(t) \/ Flush(t) \/ DumpStarts(t) \/ DumpEnds(t) \/ Commit(t) \/ Abort(t)

Next ==
    \/ Retrains
    \/ \E s \in Server : ReadPromoted(s) \/ LoadFile(s) \/ Restart(s)

Spec == Init /\ [][Next]_vars

----
\* The type invariant.
TypeOK ==
    /\ acc \in Seq(Accuracy) /\ Len(acc) <= MaxRows
    /\ promoted \subseteq 1..Len(acc)
    /\ files \in [Version -> Accuracy \cup {Torn, None}]
    /\ writer \in Trainer \cup {None}
    /\ pc \in [Trainer -> {"idle", "trained", "decided", "flushed", "dumping", "dumped"}]
    /\ cand \in [Trainer -> Accuracy \cup {None}]
    /\ inc \in [Trainer -> 0..Len(acc)]
    /\ cache \in [Server -> Accuracy \cup {Default, None}]
    /\ want \in [Server -> 0..Len(acc)]
    /\ raced \in BOOLEAN

\* models.py: at most one row is promoted.  It needs that no run was promoted over a
\* promotion it had not read.
OnlyOnePromoted == ~raced => Cardinality(promoted) <= 1

\* A retrain can never make production worse: there is still a promoted row if there
\* was one, and under the same condition what is promoted after a step is at least as
\* accurate as what was promoted before it.
NeverRegress ==
    [][/\ promoted # {} => promoted' # {}
       /\ ~raced' => \A v \in promoted, w \in promoted' : acc'[w] >= acc[v]]_vars

\* A server that read a promoted row serves that row's model, never the fallback nor
\* the model of another run, although files are written before their rows are
\* committed, dead runs leave files behind and their numbers are given out again.
ServesWhatItRead ==
    \A s \in Server : want[s] # 0 /\ cache[s] # None => cache[s] = acc[want[s]]
====
