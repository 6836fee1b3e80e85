---- MODULE UnionFind ----
(***************************************************************************)
(* The algorithm of group_alerts: a scan over the time-sorted alerts that  *)
(* unites linked pairs in a parent forest with path halving, and leaves    *)
(* the inner loop at the first alert beyond the window.  Each action is    *)
(* one turn of one of its loops.                                           *)
(***************************************************************************)
EXTENDS Grouping, Sequences, Functions

CONSTANT Inputs  \* sequences of alerts, the rows as the database returned them

\* The rows are different alerts.
ASSUME InputRows == \A rows \in Inputs : rows \in Seq(Alert) /\ IsInjective(rows)

VARIABLES
    order,   \* the alerts sorted by timestamp
    parent,  \* the union-find forest over positions of order
    i, j,    \* the loop variables
    pc,      \* "scan", "right" or "left": in find(j) or find(i) of a union; "collect", "done"
    at,      \* where find has got to
    target,  \* what find(j) returned
    dict,    \* the classes collected so far: root and alerts, in insertion order
    groups   \* the result

vars == <<order, parent, i, j, pc, at, target, dict, groups>>

Rows == {order[k] : k \in DOMAIN order}

\* Mutant: the rows are taken as they come.
AsStored(s, key) == {s}

\* What sorted() may return: s by increasing key, ties in the order of s.
Sorted(s, key) ==
    {[p \in DOMAIN s |-> s[f[p]]] :
        f \in {g \in Bijection(DOMAIN s, DOMAIN s) :
                \A p, q \in DOMAIN s : p < q =>
                    \/ key[g[p]] < key[g[q]]
                    \/ key[g[p]] = key[g[q]] /\ g[p] < g[q]}}

\* Mutant: the boundary alert falls out of the window.
BeyondOrAt(a, b) == Time[b] - Time[a] >= Window

\* alerts[j].timestamp - a.timestamp > window.
Beyond(a, b) == Time[b] - Time[a] > Window

----
Init ==
    /\ \E rows \in Inputs : order \in Sorted(rows, [k \in DOMAIN rows |-> Time[rows[k]]])
    /\ parent = [k \in DOMAIN order |-> k]
    /\ i = 1
    /\ j = 2
    /\ pc = "scan"
    /\ at = 1
    /\ target = 1
    /\ dict = <<>>
    /\ groups = <<>>

\* The inner loop has an alert in range.
Compares == pc = "scan" /\ j <= Len(order) /\ ~Beyond(order[i], order[j])
Share == Entities[order[i]] \cap Entities[order[j]] # {}

\* It shares no entity with alert i.
Skip ==
    /\ Compares /\ ~Share
    /\ j' = j + 1
    /\ UNCHANGED <<order, parent, i, pc, at, target, dict, groups>>

\* It does: parent[find(i)] = find(j), the right-hand side first.
FindRight ==
    /\ Compares /\ Share
    /\ pc' = "right"
    /\ at' = j
    /\ UNCHANGED <<order, parent, i, j, target, dict, groups>>

\* find's loop: the path is halved.
Halve ==
    /\ pc = "right" \/ pc = "left" \/ (pc = "collect" /\ i <= Len(order))
    /\ parent[at] # at
    /\ parent' = [parent EXCEPT ![at] = parent[parent[at]]]
    /\ at' = parent'[at]
    /\ UNCHANGED <<order, i, j, pc, target, dict, groups>>

\* find(j) returns.
FindLeft ==
    /\ pc = "right" /\ parent[at] = at
    /\ pc' = "left"
    /\ target' = at
    /\ at' = i
    /\ UNCHANGED <<order, parent, i, j, dict, groups>>

\* Mutant: find() is forgotten on the right-hand side.
UniteToChild == parent' = [parent EXCEPT ![at] = j]

Unite == parent' = [parent EXCEPT ![at] = target]

\* find(i) returns, and its class is hung under the root of the other.
Join ==
    /\ pc = "left" /\ parent[at] = at
    /\ Unite
    /\ pc' = "scan"
    /\ j' = j + 1
    /\ UNCHANGED <<order, i, at, target, dict, groups>>

\* The inner loop is exhausted or breaks: nothing further is in range of i.
NextRow ==
    /\ pc = "scan" /\ i <= Len(order)
    /\ j <= Len(order) => Beyond(order[i], order[j])
    /\ i' = i + 1
    /\ j' = i + 2
    /\ UNCHANGED <<order, parent, pc, at, target, dict, groups>>

\* The second loop begins.
Collect ==
    /\ pc = "scan" /\ i > Len(order)
    /\ pc' = "collect"
    /\ i' = 1
    /\ at' = 1
    /\ UNCHANGED <<order, parent, j, target, dict, groups>>

\* The entries with alert a added under root r, as setdefault and append do.
Filed(r, a) ==
    IF \E n \in DOMAIN dict : dict[n].root = r
    THEN [n \in DOMAIN dict |->
            IF dict[n].root = r THEN [root |-> r, list |-> Append(dict[n].list, a)] ELSE dict[n]]
    ELSE Append(dict, [root |-> r, list |-> <<a>>])

\* find(i) returns, and alert i joins the list of its root.
File ==
    /\ pc = "collect" /\ i <= Len(order) /\ parent[at] = at
    /\ dict' = Filed(at, order[i])
    /\ i' = i + 1
    /\ at' = i + 1
    /\ UNCHANGED <<order, parent, j, pc, target, groups>>

\* The lists are returned, by the time of their first alerts.
Return ==
    /\ pc = "collect" /\ i > Len(order)
    /\ pc' = "done"
    /\ groups' \in Sorted([n \in DOMAIN dict |-> dict[n].list],
                          [n \in DOMAIN dict |-> Time[dict[n].list[1]]])
    /\ UNCHANGED <<order, parent, i, j, at, target, dict>>

Next ==
    \/ Skip
    \/ FindRight
    \/ Halve
    \/ FindLeft
    \/ Join
    \/ NextRow
    \/ Collect
    \/ File
    \/ Return

Spec == Init /\ [][Next]_vars

----
TypeOK ==
    /\ order \in Seq(Alert) /\ groups \in Seq(Seq(Alert))
    /\ i \in 1..(Len(order) + 1) /\ j \in 2..(Len(order) + 2)
    /\ pc \in {"scan", "right", "left", "collect", "done"}
    /\ dict \in Seq([root : DOMAIN order, list : Seq(Alert)])
    /\ parent \in [DOMAIN order -> DOMAIN order]

\* The type invariant, with what find relies on: the parent pointers never form a
\* cycle, as path halving and the roots' reassignment keep the structure a forest.
ForestRooted ==
    /\ TypeOK
    /\ \A C \in (SUBSET DOMAIN order) \ {{}} :
            \E k \in C : parent[k] = k \/ parent[k] \notin C

\* The lists returned are exactly the groups of the reference definition: the
\* early break loses no link although it stops at the first alert out of range.
ResultIsGroups ==
    pc = "done" =>
        /\ {{groups[n][m] : m \in DOMAIN groups[n]} : n \in DOMAIN groups} = Groups(Rows)
        /\ \A m, n \in DOMAIN groups : m # n => groups[m] # groups[n]

\* Groups come out by their first alert and each in time order, which the
\* titles, created_at and the merge loop's choice of absorber rely on.
ResultInTimeOrder ==
    /\ \A n \in DOMAIN groups : \A k, l \in DOMAIN groups[n] :
            k < l => Time[groups[n][k]] <= Time[groups[n][l]]
    /\ \A m, n \in DOMAIN groups :
            m < n => Time[groups[m][1]] <= Time[groups[n][1]]
====
