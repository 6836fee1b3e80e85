---- MODULE IncidentLedger ----
(***************************************************************************)
(* What the analyst may rely on about incidents, whatever the rebuild is   *)
(* doing: an incident only grows, only by alerts that correlate with the   *)
(* ones it has, and is retired only when other incidents hold its alerts.  *)
(* IncidentDesk implements this specification.                             *)
(***************************************************************************)
EXTENDS Grouping

CONSTANT Incident

VARIABLES alerts, status, members

ledger == <<alerts, status, members>>

Init ==
    /\ alerts = {}
    /\ status = [i \in Incident |-> "none"]
    /\ members = [i \in Incident |-> {}]

Store(a) ==
    /\ alerts' = alerts \cup {a}
    /\ UNCHANGED <<status, members>>

Open(i) ==
    /\ status[i] = "none"
    /\ status' = [status EXCEPT ![i] = "open"]
    /\ UNCHANGED <<alerts, members>>

\* i takes over a set of alerts that belong together, its own among them.
Grow(i, g) ==
    /\ status[i] = "open"
    /\ UNCHANGED <<alerts, status>>
    /\ members' = [members EXCEPT ![i] = g]
    /\ members[i] \subseteq g
    /\ \E a \in g : g \subseteq Group(a, alerts)

\* Every alert of i is in another open incident.
HandedOver(i) ==
    \A a \in members[i] :
        \E k \in Incident \ {i} : status[k] = "open" /\ a \in members[k]

Retire(i) ==
    /\ status[i] # "none"
    /\ HandedOver(i)
    /\ status' = [status EXCEPT ![i] = "merged"]
    /\ members' = [members EXCEPT ![i] = {}]
    /\ UNCHANGED alerts

Next ==
    \/ \E a \in Alert : Store(a)
    \/ \E i \in Incident : Open(i) \/ Retire(i)
    \/ \E i \in Incident, g \in SUBSET Alert : Grow(i, g)

Spec == Init /\ [][Next]_ledger
====
