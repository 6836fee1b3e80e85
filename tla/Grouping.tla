---- MODULE Grouping ----
(***************************************************************************)
(* What group_alerts computes: alerts that share an entity within the      *)
(* correlation window end up in one group, transitively.  The groups are   *)
(* the least closed sets of alerts; UnionFind checks the code's algorithm  *)
(* against them, and Correlation persists them as incidents.               *)
(***************************************************************************)
EXTENDS Integers, FiniteSets

CONSTANTS
    Alert,     \* the alerts that may be stored
    Entity,    \* hosts, addresses and users
    Time,      \* [Alert -> Int], the timestamp of each alert
    Entities,  \* [Alert -> SUBSET Entity], what each alert touches
    Window     \* the correlation window, in units of Time

ASSUME AlertFields ==
    /\ Time \in [Alert -> Int]
    /\ Entities \in [Alert -> SUBSET Entity]
    /\ Window \in Nat

\* Two alerts the inner loop of group_alerts unites.
Linked(a, b) ==
    /\ Entities[a] \cap Entities[b] # {}
    /\ Time[a] - Time[b] <= Window
    /\ Time[b] - Time[a] <= Window

\* No alert of S outside C is linked to an alert of C.
Closed(C, S) == \A a \in C, b \in S : Linked(a, b) => b \in C

\* The alerts of S reachable from a over links: the least closed set with a.
Group(a, S) ==
    LET around == {C \in SUBSET S : a \in C /\ Closed(C, S)}
    IN  {b \in S : \A C \in around : b \in C}

Groups(S) == {Group(a, S) : a \in S}

\* The timestamp of the earliest alert of a group.
Start(g) == CHOOSE t \in {Time[a] : a \in g} : \A a \in g : t <= Time[a]
====
