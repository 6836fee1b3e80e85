---- MODULE Opinions ----
(***************************************************************************)
(* The second opinions of verdicts.  Triage stores one with each verdict   *)
(* that the LLM gave, unless the classifier fails; the backfill, a process *)
(* of its own, later fills in those that are missing, in one transaction   *)
(* that reads them first and takes as long as the classifier does.         *)
(***************************************************************************)
EXTENDS ModelRegistry

CONSTANT Alert  \* alerts, each triaged once

VARIABLES
    judged,    \* the alerts with a verdict
    opinion,   \* [Alert -> the model of the verdict's second opinion, or None]
    pending,   \* [Server -> SUBSET Alert], the verdicts its backfill read without opinion
    overtaken  \* ghost: the backfills one of whose verdicts another has filled in since

opinionVars == <<judged, opinion, pending, overtaken>>

\* The process that dies loses its backfill as well.
NoBackfill(s) ==
    /\ pending' = [pending EXCEPT ![s] = {}]
    /\ overtaken' = overtaken \ {s}

OpinionInit ==
    /\ Init
    /\ judged = {}
    /\ opinion = [a \in Alert |-> None]
    /\ pending = [s \in Server |-> {}]
    /\ overtaken = {}

\* triage_alert in process s: the classifier's word goes with the LLM's verdict; it is
\* left out when the classifier raised, or gave the verdict itself as the LLM is off.
StoreVerdict(s, a) ==
    /\ a \notin judged
    /\ judged' = judged \cup {a}
    /\ \E m \in {cache[s], None} : opinion' = [opinion EXCEPT ![a] = m]
    /\ UNCHANGED <<vars, pending, overtaken>>

\* Mutant: every verdict is given an opinion again.
Refill == judged

Missing == {a \in judged : opinion[a] = None}

\* backfill reads the verdicts without an opinion.
ReadMissing(s) ==
    /\ pending[s] = {} /\ Missing # {}
    /\ pending' = [pending EXCEPT ![s] = Missing]
    /\ UNCHANGED <<vars, judged, opinion, overtaken>>

\* All are given the opinion of the process's model, in one commit.
Fill(s) ==
    /\ pending[s] # {} /\ cache[s] # None
    /\ opinion' = [a \in Alert |-> IF a \in pending[s] THEN cache[s] ELSE opinion[a]]
    /\ pending' = [pending EXCEPT ![s] = {}]
    /\ overtaken' = (overtaken \cup {q \in Server : pending[q] \cap pending[s] # {}}) \ {s}
    /\ UNCHANGED <<vars, judged>>

OpinionNext ==
    \/ Retrains /\ UNCHANGED opinionVars
    \/ \E s \in Server : (ReadPromoted(s) \/ LoadFile(s)) /\ UNCHANGED opinionVars
    \/ \E s \in Server : Restart(s) /\ NoBackfill(s) /\ UNCHANGED <<judged, opinion>>
    \/ \E s \in Server, a \in Alert : StoreVerdict(s, a)
    \/ \E s \in Server : ReadMissing(s) \/ Fill(s)

OpinionSpec == OpinionInit /\ [][OpinionNext]_<<vars, opinionVars>>

----
\* An opinion that was given stays, whichever process gave it with which model, unless a
\* backfill read the verdict before another gave the opinion.
OpinionKept ==
    [][\A s \in Server \ overtaken, a \in Alert :
            Fill(s) /\ opinion[a] # None => opinion'[a] = opinion[a]]_<<vars, opinionVars>>
====
