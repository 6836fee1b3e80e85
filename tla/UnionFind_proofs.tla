---- MODULE UnionFind_proofs ----
(***************************************************************************)
(* The union-find scan of group_alerts computes the groups, whatever the   *)
(* rows.  The induction is over its steps: the forest stays rooted, and a  *)
(* class of the forest is both inside a group, since only linked pairs are *)
(* united, and closed under the links of the pairs the scan has passed.    *)
(***************************************************************************)
EXTENDS UnionFind, SequenceTheorems, TLAPS

\* C holds all of a class or nothing of it; positions are in the same class of the
\* forest p if no such set holds only one of them.
Whole(p, C) == \A k \in DOMAIN p : k \in C <=> p[k] \in C
Same(p, k, l) == \A C \in SUBSET DOMAIN p : Whole(p, C) => (k \in C <=> l \in C)

\* Whatever is followed from a position, there is a root on the way.
Rooted(p) == \A C \in (SUBSET DOMAIN p) \ {{}} : \E k \in C : p[k] = k \/ p[k] \notin C

\* The rows are different and by time.
Ordered ==
    /\ IsInjective(order)
    /\ \A k, l \in DOMAIN order : k < l => Time[order[k]] <= Time[order[l]]

Scanning == pc \in {"scan", "right", "left"}

\* A pair the scan has dealt with.
Passed(k, l) == Scanning => k < i \/ (k = i /\ l < j)

\* A class holds linked alerts only, and the linked pairs that are dealt with are in
\* one class.
ClassInv ==
    /\ \A C \in SUBSET Rows : Closed(C, Rows) =>
            \A k \in DOMAIN order : order[k] \in C <=> order[parent[k]] \in C
    /\ \A k, l \in DOMAIN order :
            k < l /\ Passed(k, l) /\ Linked(order[k], order[l]) => Same(parent, k, l)

\* Where find is, and what for.
WalkInv ==
    /\ Scanning => i < j
    /\ pc \in {"right", "left"} => /\ j \in DOMAIN order /\ Linked(order[i], order[j])
                                   /\ at \in DOMAIN order
    /\ pc = "right" => Same(parent, at, j)
    /\ pc = "left" => /\ Same(parent, at, i)
                      /\ target \in DOMAIN order /\ parent[target] = target
                      /\ Same(parent, target, j)
    /\ pc = "collect" /\ i <= Len(order) => at \in DOMAIN order /\ Same(parent, at, i)

\* Every entry of dict has a root of its own and lists, in time order, what is in the
\* root's class among the positions filed; each of those is in one entry.
DictInv ==
    /\ Scanning => dict = <<>>
    /\ \A n \in DOMAIN dict :
        /\ parent[dict[n].root] = dict[n].root
        /\ Range(dict[n].list) = {order[k] : k \in {l \in 1..(i - 1) : Same(parent, l, dict[n].root)}}
        /\ dict[n].list # <<>>
        /\ \A k, l \in DOMAIN dict[n].list :
            k < l => Time[dict[n].list[k]] <= Time[dict[n].list[l]]
    /\ \A m, n \in DOMAIN dict : dict[m].root = dict[n].root => m = n
    /\ ~Scanning => \A k \in 1..(i - 1) : \E n \in DOMAIN dict : Same(parent, k, dict[n].root)

ScanInv == ForestRooted /\ Ordered /\ ClassInv /\ WalkInv /\ DictInv

----
\* What halving a path and joining two trees do to any forest.

\* Halving leaves the classes as they are.
LEMMA HalvingKeepsWhole ==
    ASSUME NEW D, NEW p \in [D -> D], NEW x \in D, NEW C \in SUBSET D
    PROVE  Whole([p EXCEPT ![x] = p[p[x]]], C) <=> Whole(p, C)
<1> DEFINE q == [p EXCEPT ![x] = p[p[x]]]
<1>1. q \in [D -> D] /\ q[x] = p[p[x]] /\ \A k \in D : k # x => q[k] = p[k]
  OBVIOUS
<1>2. p[x] \in D /\ p[p[x]] \in D
  OBVIOUS
<1> HIDE DEF q
<1>3. Whole(p, C) => Whole(q, C)
  BY <1>1, <1>2 DEF Whole
<1>4. ASSUME Whole(q, C) PROVE Whole(p, C)
  <2>1. CASE p[x] = x
    BY <1>1, <1>4, <2>1 DEF Whole
  <2>2. CASE p[x] # x
    <3>1. p[x] \in C <=> p[p[x]] \in C
      BY <1>1, <1>2, <1>4, <2>2 DEF Whole
    <3>2. x \in C <=> p[p[x]] \in C
      BY <1>1, <1>4 DEF Whole
    <3> QED BY <1>1, <1>4, <3>1, <3>2 DEF Whole
  <2> QED BY <2>1, <2>2
<1> QED BY <1>3, <1>4 DEF q

LEMMA HalvingKeepsSame ==
    ASSUME NEW D, NEW p \in [D -> D], NEW x \in D, NEW k, NEW l
    PROVE  Same([p EXCEPT ![x] = p[p[x]]], k, l) <=> Same(p, k, l)
BY HalvingKeepsWhole DEF Same

\* A position is in the class of what it points to.
LEMMA SameAsParent ==
    ASSUME NEW D, NEW p \in [D -> D], NEW x \in D
    PROVE  Same(p, x, p[x])
BY DEF Same, Whole

\* Being in one class is an equivalence.
LEMMA SameEquivalence ==
    ASSUME NEW p, NEW k, NEW l, NEW m
    PROVE  /\ Same(p, k, k)
           /\ Same(p, k, l) => Same(p, l, k)
           /\ Same(p, k, l) /\ Same(p, l, m) => Same(p, k, m)
BY DEF Same

\* Were there no root on the way in the new forest, there would be none in the old.
LEMMA HalvingKeepsRooted ==
    ASSUME NEW D, NEW p \in [D -> D], Rooted(p), NEW x \in D, p[x] # x
    PROVE  Rooted([p EXCEPT ![x] = p[p[x]]])
<1> DEFINE q == [p EXCEPT ![x] = p[p[x]]]
<1>1. q \in [D -> D] /\ q[x] = p[p[x]] /\ \A k \in D : k # x => q[k] = p[k]
  OBVIOUS
<1> HIDE DEF q
<1>2. SUFFICES ASSUME NEW C \in (SUBSET D) \ {{}}, \A k \in C : q[k] # k /\ q[k] \in C
               PROVE  FALSE
  BY <1>1 DEF Rooted, q
<1>3. CASE x \notin C
  <2>1. \A k \in C : p[k] # k /\ p[k] \in C
    BY <1>1, <1>2, <1>3
  <2> QED BY <2>1 DEF Rooted
<1>4. CASE x \in C
  <2> DEFINE B == C \cup {p[x]}
  <2>1. B \in (SUBSET D) \ {{}}
    OBVIOUS
  <2>2. p[p[x]] \in C /\ p[p[x]] # x
    BY <1>1, <1>2, <1>4
  <2>3. p[p[x]] # p[x]
    BY <1>1, <1>2, <1>4, <2>2
  <2>4. \A k \in B : p[k] # k /\ p[k] \in B
    BY <1>1, <1>2, <2>2, <2>3
  <2> HIDE DEF B
  <2> QED BY <2>1, <2>4 DEF Rooted
<1> QED BY <1>3, <1>4

LEMMA JoiningKeepsRooted ==
    ASSUME NEW D, NEW p \in [D -> D], Rooted(p), NEW x \in D, p[x] = x, NEW r \in D, p[r] = r
    PROVE  Rooted([p EXCEPT ![x] = r])
<1> DEFINE q == [p EXCEPT ![x] = r]
<1>1. q \in [D -> D] /\ q[x] = r /\ \A k \in D : k # x => q[k] = p[k]
  OBVIOUS
<1> HIDE DEF q
<1>2. SUFFICES ASSUME NEW C \in (SUBSET D) \ {{}}, \A k \in C : q[k] # k /\ q[k] \in C
               PROVE  FALSE
  BY <1>1 DEF Rooted, q
<1>3. x \notin C
  BY <1>1, <1>2
<1>4. \A k \in C : p[k] # k /\ p[k] \in C
  BY <1>1, <1>2, <1>3
<1> QED BY <1>4 DEF Rooted

\* Joining merges the classes of the two roots and takes none apart.
LEMMA JoiningJoins ==
    ASSUME NEW D, NEW p \in [D -> D], NEW x \in D, p[x] = x, NEW r \in D
    PROVE  /\ \A k, l : Same(p, k, l) => Same([p EXCEPT ![x] = r], k, l)
           /\ Same([p EXCEPT ![x] = r], x, r)
<1> DEFINE q == [p EXCEPT ![x] = r]
<1>1. q \in [D -> D] /\ q[x] = r /\ \A k \in D : k # x => q[k] = p[k]
  OBVIOUS
<1> HIDE DEF q
<1>2. ASSUME NEW C \in SUBSET D, Whole(q, C) PROVE Whole(p, C) /\ (x \in C <=> r \in C)
  BY <1>1, <1>2 DEF Whole
<1> QED BY <1>1, <1>2 DEF Same, q

\* Two roots are never in one class: what lies under one of them is whole.
LEMMA RootsApart ==
    ASSUME NEW D, NEW p \in [D -> D], NEW r \in D, p[r] = r, NEW s \in D, p[s] = s,
           Same(p, r, s)
    PROVE  r = s
<1> DEFINE Holds(C) == r \in C /\ \A m \in D : p[m] \in C => m \in C
           Under == {k \in D : \A C \in SUBSET D : Holds(C) => k \in C}
<1>1. Holds(Under)
  OBVIOUS
<1>2. ASSUME NEW k \in Under PROVE p[k] \in Under
  <2>1. CASE k = r
    BY <2>1
  <2>2. CASE k # r
    <3>1. SUFFICES ASSUME p[k] \notin Under PROVE FALSE
      OBVIOUS
    <3>2. Holds(Under \ {k})
      BY <1>1, <2>2, <3>1
    <3>3. Under \ {k} \in SUBSET D
      OBVIOUS
    <3> QED BY <3>2, <3>3
  <2> QED BY <2>1, <2>2
<1>3. Whole(p, Under)
  BY <1>1, <1>2 DEF Whole
<1>4. s \in Under
  <2>1. Under \in SUBSET D /\ r \in Under
    BY <1>1
  <2> HIDE DEF Under
  <2> QED BY <1>3, <2>1 DEF Same
<1>5. ASSUME r # s PROVE FALSE
  <2>1. Holds(Under \ {s})
    BY <1>1, <1>5
  <2>2. Under \ {s} \in SUBSET D
    OBVIOUS
  <2> QED BY <1>4, <2>1, <2>2
<1> QED BY <1>5

----
\* t is s in another order, by key.
Permutes(f, s, t) ==
    /\ f \in [DOMAIN s -> DOMAIN s]
    /\ \A p, q \in DOMAIN s : f[p] = f[q] => p = q
    /\ \A q \in DOMAIN s : \E p \in DOMAIN s : f[p] = q
    /\ t = [p \in DOMAIN s |-> s[f[p]]]
ByKey(f, s, key) ==
    \A p, q \in DOMAIN s : p < q => key[f[p]] < key[f[q]] \/ key[f[p]] = key[f[q]]

LEMMA SortedFacts ==
    ASSUME NEW X, NEW s \in Seq(X), NEW key, NEW t \in Sorted(s, key)
    PROVE  /\ t \in Seq(X) /\ Len(t) = Len(s)
           /\ \E f : Permutes(f, s, t) /\ ByKey(f, s, key)
<1>1. PICK f \in Bijection(DOMAIN s, DOMAIN s) :
        /\ t = [p \in DOMAIN s |-> s[f[p]]]
        /\ \A p, q \in DOMAIN s : p < q =>
                    \/ key[f[p]] < key[f[q]]
                    \/ key[f[p]] = key[f[q]] /\ f[p] < f[q]
  BY DEF Sorted
<1>2. /\ f \in [DOMAIN s -> DOMAIN s]
      /\ \A p, q \in DOMAIN s : f[p] = f[q] => p = q
      /\ \A q \in DOMAIN s : \E p \in DOMAIN s : f[p] = q
  BY DEF Bijection, Injection, Surjection, IsInjective
<1>3. DOMAIN s = 1..Len(s) /\ Len(s) \in Nat
  OBVIOUS
<1>4. \A p \in 1..Len(s) : s[f[p]] \in X
  BY <1>2, <1>3
<1>5. t \in Seq(X) /\ Len(t) = Len(s)
  BY <1>1, <1>3, <1>4
<1>6. Permutes(f, s, t)
  BY <1>1, <1>2 DEF Permutes
<1>7. ByKey(f, s, key)
  BY <1>1 DEF ByKey
<1> QED BY <1>5, <1>6, <1>7

\* The types of what the steps read.
LEMMA Types ==
    ASSUME ForestRooted
    PROVE  /\ Len(order) \in Nat /\ DOMAIN order = 1..Len(order)
           /\ \A k \in DOMAIN order : order[k] \in Alert /\ Time[order[k]] \in Int
           /\ parent \in [DOMAIN order -> DOMAIN order] /\ DOMAIN parent = DOMAIN order
           /\ Rooted(parent)
           /\ i \in Nat /\ j \in Nat
           /\ Len(dict) \in Nat /\ DOMAIN dict = 1..Len(dict)
           /\ \A n \in DOMAIN dict : /\ dict[n].root \in DOMAIN order
                                     /\ dict[n].list \in Seq(Alert)
<1>1. order \in Seq(Alert) /\ parent \in [DOMAIN order -> DOMAIN order]
      /\ i \in 1..(Len(order) + 1) /\ j \in 2..(Len(order) + 2)
  BY DEF ForestRooted, TypeOK
<1>2. Len(order) \in Nat /\ DOMAIN order = 1..Len(order) /\ \A k \in DOMAIN order : order[k] \in Alert
  BY <1>1
<1>3. \A k \in DOMAIN order : Time[order[k]] \in Int
  BY <1>2, AlertFields
<1>4. DOMAIN parent = DOMAIN order
  BY <1>1
<1>5. Rooted(parent)
  BY <1>4 DEF ForestRooted, Rooted
<1>6. dict \in Seq([root : DOMAIN order, list : Seq(Alert)])
  BY DEF ForestRooted, TypeOK
<1>7. Len(dict) \in Nat /\ DOMAIN dict = 1..Len(dict)
  BY <1>6, LenProperties
<1>8. ASSUME NEW n \in DOMAIN dict
      PROVE  dict[n].root \in DOMAIN order /\ dict[n].list \in Seq(Alert)
  <2>1. dict[n] \in [root : DOMAIN order, list : Seq(Alert)]
    BY <1>6, <1>7, ElementOfSeq
  <2> QED BY <2>1
<1> QED BY <1>1, <1>2, <1>3, <1>4, <1>5, <1>7, <1>8

LEMMA InitInv == Init => ScanInv
<1> SUFFICES ASSUME Init PROVE ScanInv
  OBVIOUS
<1>1. PICK rows \in Inputs : order \in Sorted(rows, [k \in DOMAIN rows |-> Time[rows[k]]])
  BY DEF Init
<1> DEFINE key == [k \in DOMAIN rows |-> Time[rows[k]]]
<1>2. rows \in Seq(Alert) /\ IsInjective(rows)
  BY InputRows
<1>3. order \in Sorted(rows, key)
  BY <1>1
<1>4. \A k \in DOMAIN rows : key[k] = Time[rows[k]]
  OBVIOUS
<1> HIDE DEF key
<1>5. order \in Seq(Alert) /\ Len(order) = Len(rows)
  BY <1>2, <1>3, SortedFacts
<1>6. PICK f : Permutes(f, rows, order) /\ ByKey(f, rows, key)
  BY <1>2, <1>3, SortedFacts
<1>7. DOMAIN order = DOMAIN rows /\ DOMAIN order = 1..Len(order) /\ Len(order) \in Nat
  BY <1>5, <1>6 DEF Permutes
<1>8. \A p \in DOMAIN order : f[p] \in DOMAIN rows /\ order[p] = rows[f[p]] /\ order[p] \in Alert
  <2>1. \A p \in DOMAIN order : order[p] \in Alert
    BY <1>5, <1>7
  <2>2. \A p \in DOMAIN order : f[p] \in DOMAIN rows /\ order[p] = rows[f[p]]
    BY <1>6, <1>7 DEF Permutes
  <2> QED BY <2>1, <2>2
<1>9. \A p \in DOMAIN order : key[f[p]] = Time[order[p]] /\ Time[order[p]] \in Int
  BY <1>4, <1>8, AlertFields
<1>10. Ordered
  <2>1. ASSUME NEW p \in DOMAIN order, NEW q \in DOMAIN order, order[p] = order[q] PROVE p = q
    <3>1. f[p] = f[q]
      BY <1>2, <1>8, <2>1 DEF IsInjective
    <3> QED BY <1>6, <1>7, <3>1 DEF Permutes
  <2>2. ASSUME NEW p \in DOMAIN order, NEW q \in DOMAIN order, p < q
        PROVE  Time[order[p]] <= Time[order[q]]
    <3>1. key[f[p]] < key[f[q]] \/ key[f[p]] = key[f[q]]
      BY <1>6, <1>7, <2>2 DEF ByKey
    <3> QED BY <1>9, <3>1
  <2> QED BY <2>1, <2>2 DEF Ordered, IsInjective
<1>11. parent = [k \in DOMAIN order |-> k] /\ i = 1 /\ j = 2 /\ pc = "scan" /\ dict = <<>> /\ groups = <<>>
  BY DEF Init
<1>12. ForestRooted
  BY <1>5, <1>7, <1>11 DEF ForestRooted, TypeOK
<1>13. ClassInv
  BY <1>7, <1>11 DEF ClassInv, Passed, Scanning
<1>14. WalkInv /\ DictInv
  BY <1>11 DEF WalkInv, DictInv, Scanning
<1> QED BY <1>10, <1>12, <1>13, <1>14 DEF ScanInv

LEMMA SkipInv ==
    ASSUME ScanInv, Skip
    PROVE  ScanInv'
<1> USE DEF ScanInv, Skip, Compares
<1>1. /\ Len(order) \in Nat /\ i \in Nat /\ j \in Nat /\ DOMAIN order = 1..Len(order)
  BY Types
<1>2. TypeOK'
  BY <1>1 DEF ForestRooted, TypeOK
<1>3. ForestRooted' /\ Ordered'
  BY <1>2 DEF ForestRooted, Ordered, IsInjective
<1>4. ClassInv'
  <2>1. ASSUME NEW k \in DOMAIN order, NEW l \in DOMAIN order, k < l, Passed(k, l)',
               Linked(order[k], order[l])
        PROVE  Passed(k, l)
    BY <1>1, <2>1 DEF Passed, Scanning, Linked, Share
  <2> QED BY <2>1 DEF ClassInv, Rows, Same, Whole
<1>5. WalkInv' /\ DictInv'
  BY <1>1 DEF WalkInv, DictInv, Scanning, Same, Whole
<1> QED BY <1>3, <1>4, <1>5

LEMMA FindRightInv ==
    ASSUME ScanInv, FindRight
    PROVE  ScanInv'
<1> USE DEF ScanInv, FindRight, Compares
<1>1. /\ Len(order) \in Nat /\ i \in Nat /\ j \in Nat /\ DOMAIN order = 1..Len(order)
      /\ \A k \in DOMAIN order : Time[order[k]] \in Int
  BY Types
<1>2. ForestRooted' /\ Ordered'
  BY DEF ForestRooted, TypeOK, Ordered, IsInjective
<1>3. ClassInv'
  BY DEF ClassInv, Rows, Same, Whole, Passed, Scanning
<1>4. i \in DOMAIN order /\ j \in DOMAIN order /\ i < j
  BY <1>1 DEF WalkInv, Scanning, ForestRooted, TypeOK
<1>5. Linked(order[i], order[j])
  <2>1. Time[order[i]] \in Int /\ Time[order[j]] \in Int /\ Window \in Nat
    BY <1>1, <1>4, AlertFields
  <2>2. Time[order[i]] <= Time[order[j]]
    BY <1>4 DEF Ordered
  <2>3. ~(Time[order[j]] - Time[order[i]] > Window)
    BY DEF Beyond
  <2>4. Entities[order[i]] \cap Entities[order[j]] # {}
    BY DEF Share
  <2> QED BY <2>1, <2>2, <2>3, <2>4 DEF Linked
<1>6. WalkInv'
  BY <1>4, <1>5 DEF WalkInv, Scanning, Same
<1>7. DictInv'
  BY DEF DictInv, Scanning, Same, Whole
<1> QED BY <1>2, <1>3, <1>6, <1>7

LEMMA HalveInv ==
    ASSUME ScanInv, Halve
    PROVE  ScanInv'
<1> USE DEF ScanInv
<1> DEFINE D == DOMAIN order
<1>1. /\ parent \in [D -> D] /\ Rooted(parent) /\ DOMAIN parent = D
      /\ Len(order) \in Nat /\ D = 1..Len(order)
  BY Types
<1>2. at \in D /\ parent[at] \in D /\ parent[parent[at]] \in D /\ parent[at] # at
  BY <1>1 DEF WalkInv, Halve
<1>3. parent' = [parent EXCEPT ![at] = parent[parent[at]]]
  BY DEF Halve
<1>4. /\ \A k, l : Same(parent', k, l) <=> Same(parent, k, l)
      /\ Rooted(parent')
  BY <1>1, <1>2, <1>3, HalvingKeepsSame, HalvingKeepsRooted
<1>5. /\ parent' \in [D -> D] /\ DOMAIN parent' = D
      /\ \A k \in D : parent'[k] = IF k = at THEN parent[parent[at]] ELSE parent[k]
  BY <1>1, <1>2, <1>3
<1>6. \A k \in D : parent[k] = k => parent'[k] = k
  BY <1>1, <1>2, <1>5
<1>7. at' = parent[parent[at]] /\ UNCHANGED <<order, i, j, pc, target, dict, groups>>
  BY <1>2, <1>5 DEF Halve
<1>8. ForestRooted' /\ Ordered'
  <2>1. TypeOK'
    BY <1>5, <1>7 DEF ForestRooted, TypeOK
  <2> QED BY <1>4, <1>5, <1>7, <2>1 DEF ForestRooted, Ordered, Rooted, IsInjective
<1>9. ClassInv'
  <2>1. Rows' = Rows
    BY <1>7 DEF Rows
  <2>2. ASSUME NEW C \in SUBSET Rows, Closed(C, Rows), NEW k \in D
        PROVE  order[k] \in C <=> order[parent'[k]] \in C
    BY <1>1, <1>2, <1>5, <2>2 DEF ClassInv
  <2>3. ASSUME NEW k \in D, NEW l \in D, k < l, Passed(k, l)', Linked(order[k], order[l])
        PROVE  Same(parent', k, l)
    <3>1. Passed(k, l)
      BY <1>7, <2>3 DEF Passed, Scanning
    <3>2. Same(parent, k, l)
      BY <2>3, <3>1 DEF ClassInv
    <3> QED BY <1>4, <3>2
  <2> QED BY <1>7, <2>1, <2>2, <2>3 DEF ClassInv
<1>10. WalkInv'
  <2>1. Same(parent, at, parent[at]) /\ Same(parent, parent[at], parent[parent[at]])
    BY <1>1, <1>2, SameAsParent
  <2>2. \A k : Same(parent, at, k) => Same(parent', at', k)
    BY <1>4, <1>7, <2>1, SameEquivalence
  <2> QED BY <1>2, <1>4, <1>6, <1>7, <2>2 DEF WalkInv, Scanning
<1>11. DictInv'
  <2>1. \A n \in DOMAIN dict : dict[n].root \in D
    BY Types
  <2>2. \A n \in DOMAIN dict : parent'[dict[n].root] = dict[n].root
    BY <1>6, <2>1 DEF DictInv
  <2>3. \A n \in DOMAIN dict : {l \in 1..(i - 1) : Same(parent', l, dict[n].root)}
                                 = {l \in 1..(i - 1) : Same(parent, l, dict[n].root)}
    BY <1>4
  <2> QED BY <1>4, <1>7, <2>2, <2>3 DEF DictInv, Scanning
<1> QED BY <1>8, <1>9, <1>10, <1>11

LEMMA FindLeftInv ==
    ASSUME ScanInv, FindLeft
    PROVE  ScanInv'
<1> USE DEF ScanInv, FindLeft
<1>1. /\ Len(order) \in Nat /\ i \in Nat /\ j \in Nat /\ DOMAIN order = 1..Len(order)
  BY Types
<1>2. ForestRooted' /\ Ordered'
  BY DEF ForestRooted, TypeOK, Ordered, IsInjective
<1>3. ClassInv'
  BY DEF ClassInv, Rows, Same, Whole, Passed, Scanning
<1>4. i \in DOMAIN order
  BY <1>1 DEF WalkInv, Scanning, ForestRooted, TypeOK
<1>5. Same(parent, i, i)
  BY DEF Same
<1>6. WalkInv'
  BY <1>4, <1>5 DEF WalkInv, Scanning
<1>7. DictInv'
  BY DEF DictInv, Scanning
<1> QED BY <1>2, <1>3, <1>6, <1>7

\* A set closed under links holds all of a class or nothing of it.
LEMMA ClassesLinked ==
    ASSUME ForestRooted, ClassInv, NEW C \in SUBSET Rows, Closed(C, Rows),
           NEW k \in DOMAIN order, NEW l \in DOMAIN order, Same(parent, k, l)
    PROVE  order[k] \in C <=> order[l] \in C
<1> DEFINE B == {m \in DOMAIN order : order[m] \in C}
<1>1. DOMAIN parent = DOMAIN order /\ parent \in [DOMAIN order -> DOMAIN order]
  BY Types
<1>2. Whole(parent, B)
  BY <1>1 DEF Whole, ClassInv
<1>3. k \in B <=> l \in B
  <2>1. B \in SUBSET DOMAIN parent
    BY <1>1
  <2> HIDE DEF B
  <2> QED BY <1>2, <2>1 DEF Same
<1> QED BY <1>3

\* Linked alerts are in the same closed sets.
LEMMA LinkedTogether ==
    ASSUME NEW k \in DOMAIN order, NEW l \in DOMAIN order, Linked(order[k], order[l]),
           NEW C \in SUBSET Rows, Closed(C, Rows)
    PROVE  order[k] \in C <=> order[l] \in C
<1>1. Linked(order[l], order[k])
  BY DEF Linked
<1>2. order[k] \in Rows /\ order[l] \in Rows
  BY DEF Rows
<1> QED BY <1>1, <1>2 DEF Closed

LEMMA JoinInv ==
    ASSUME ScanInv, Join
    PROVE  ScanInv'
<1> USE DEF ScanInv
<1> DEFINE D == DOMAIN order
<1>1. /\ parent \in [D -> D] /\ Rooted(parent) /\ DOMAIN parent = D
      /\ Len(order) \in Nat /\ D = 1..Len(order) /\ i \in Nat /\ j \in Nat
  BY Types
<1>2. /\ pc = "left" /\ pc' = "scan" /\ j' = j + 1
      /\ parent' = [parent EXCEPT ![at] = target]
      /\ UNCHANGED <<order, i, at, target, dict, groups>>
  BY DEF Join, Unite
<1>3. /\ i < j /\ i \in D /\ j \in D /\ Linked(order[i], order[j])
      /\ at \in D /\ parent[at] = at /\ target \in D /\ parent[target] = target
      /\ Same(parent, at, i) /\ Same(parent, target, j) /\ dict = <<>>
  BY <1>1, <1>2 DEF Join, WalkInv, Scanning, DictInv, ForestRooted, TypeOK
<1>4. Rooted(parent')
  BY <1>1, <1>2, <1>3, JoiningKeepsRooted
<1>5. (\A k, l : Same(parent, k, l) => Same(parent', k, l)) /\ Same(parent', at, target)
  BY <1>1, <1>2, <1>3, JoiningJoins
<1>6. Same(parent', i, j)
  BY <1>3, <1>5, SameEquivalence
<1>7. /\ parent' \in [D -> D] /\ DOMAIN parent' = D
      /\ \A k \in D : parent'[k] = IF k = at THEN target ELSE parent[k]
  BY <1>1, <1>2, <1>3
<1>8. ForestRooted' /\ Ordered'
  <2>1. TypeOK'
    BY <1>1, <1>2, <1>3, <1>7 DEF ForestRooted, TypeOK
  <2> QED BY <1>2, <1>4, <1>7, <2>1 DEF ForestRooted, Ordered, Rooted, IsInjective
<1>9. ClassInv'
  <2>1. Rows' = Rows
    BY <1>2 DEF Rows
  <2>2. ASSUME NEW C \in SUBSET Rows, Closed(C, Rows), NEW k \in D
        PROVE  order[k] \in C <=> order[parent'[k]] \in C
    <3>1. CASE k # at
      BY <1>7, <2>2, <3>1 DEF ClassInv
    <3>2. CASE k = at
      <4>1. order[at] \in C <=> order[i] \in C
        BY <1>3, <2>2, ClassesLinked
      <4>2. order[target] \in C <=> order[j] \in C
        BY <1>3, <2>2, ClassesLinked
      <4>3. order[i] \in C <=> order[j] \in C
        BY <1>3, <2>2, LinkedTogether
      <4> QED BY <1>3, <1>7, <3>2, <4>1, <4>2, <4>3
    <3> QED BY <3>1, <3>2
  <2>3. ASSUME NEW k \in D, NEW l \in D, k < l, Passed(k, l)', Linked(order[k], order[l])
        PROVE  Same(parent', k, l)
    <3>1. Passed(k, l) \/ (k = i /\ l = j)
      BY <1>1, <1>2, <2>3 DEF Passed, Scanning
    <3>2. CASE Passed(k, l)
      BY <1>5, <2>3, <3>2 DEF ClassInv
    <3>3. CASE k = i /\ l = j
      BY <1>6, <3>3
    <3> QED BY <3>1, <3>2, <3>3
  <2> QED BY <1>2, <2>1, <2>2, <2>3 DEF ClassInv
<1>10. WalkInv' /\ DictInv'
  BY <1>1, <1>2, <1>3 DEF WalkInv, DictInv, Scanning
<1> QED BY <1>8, <1>9, <1>10

\* When the inner loop ends nothing further is linked to row i.
LEMMA NextRowInv ==
    ASSUME ScanInv, NextRow
    PROVE  ScanInv'
<1> USE DEF ScanInv, NextRow
<1>1. /\ Len(order) \in Nat /\ i \in Nat /\ j \in Nat /\ DOMAIN order = 1..Len(order)
      /\ \A k \in DOMAIN order : Time[order[k]] \in Int
  BY Types
<1>2. i \in DOMAIN order /\ i < j
  BY <1>1 DEF WalkInv, Scanning, ForestRooted, TypeOK
<1>3. ForestRooted' /\ Ordered'
  <2>1. TypeOK'
    BY <1>1, <1>2 DEF ForestRooted, TypeOK
  <2> QED BY <2>1 DEF ForestRooted, Ordered, IsInjective
<1>4. ASSUME NEW l \in DOMAIN order, j <= l PROVE ~Linked(order[i], order[l])
  <2>1. Time[order[j]] - Time[order[i]] > Window /\ j \in DOMAIN order
    BY <1>1, <1>2, <1>4 DEF Beyond
  <2>2. Time[order[j]] <= Time[order[l]]
    BY <1>1, <1>4, <2>1 DEF Ordered
  <2>3. Time[order[i]] \in Int /\ Time[order[j]] \in Int /\ Time[order[l]] \in Int /\ Window \in Nat
    BY <1>1, <1>2, <2>1, AlertFields
  <2>4. ~(Time[order[l]] - Time[order[i]] <= Window)
    BY <2>1, <2>2, <2>3
  <2> QED BY <2>4 DEF Linked
<1>5. ClassInv'
  <2>1. ASSUME NEW k \in DOMAIN order, NEW l \in DOMAIN order, k < l, Passed(k, l)',
               Linked(order[k], order[l])
        PROVE  Passed(k, l)
    BY <1>1, <1>4, <2>1 DEF Passed, Scanning
  <2> QED BY <2>1 DEF ClassInv, Rows
<1>6. WalkInv' /\ DictInv'
  BY <1>1 DEF WalkInv, DictInv, Scanning
<1> QED BY <1>3, <1>5, <1>6

LEMMA CollectInv ==
    ASSUME ScanInv, Collect
    PROVE  ScanInv'
<1> USE DEF ScanInv, Collect
<1>1. /\ Len(order) \in Nat /\ i \in Nat /\ j \in Nat /\ DOMAIN order = 1..Len(order)
  BY Types
<1>2. ForestRooted' /\ Ordered'
  <2>1. TypeOK'
    BY <1>1 DEF ForestRooted, TypeOK
  <2> QED BY <2>1 DEF ForestRooted, Ordered, IsInjective
<1>3. ClassInv'
  <2>1. ASSUME NEW k \in DOMAIN order, NEW l \in DOMAIN order PROVE Passed(k, l)
    BY <1>1, <2>1 DEF Passed
  <2> QED BY <2>1 DEF ClassInv, Rows
<1>4. WalkInv' /\ DictInv'
  <2>1. Same(parent, 1, 1)
    BY DEF Same
  <2>2. dict = <<>>
    BY DEF DictInv, Scanning
  <2> QED BY <1>1, <2>1, <2>2 DEF WalkInv, DictInv, Scanning
<1> QED BY <1>2, <1>3, <1>4

----
\* What append does to a list.
LEMMA AppendFacts ==
    ASSUME NEW s \in Seq(Alert), NEW a \in Alert
    PROVE  /\ Append(s, a) \in Seq(Alert) /\ Append(s, a) # <<>>
           /\ DOMAIN s = 1..Len(s) /\ Len(s) \in Nat
           /\ DOMAIN Append(s, a) = 1..(Len(s) + 1)
           /\ \A k \in 1..Len(s) : Append(s, a)[k] = s[k]
           /\ Append(s, a)[Len(s) + 1] = a
           /\ Range(Append(s, a)) = Range(s) \cup {a}
<1>1. /\ Append(s, a) \in Seq(Alert) /\ Len(Append(s, a)) = Len(s) + 1
      /\ DOMAIN s = 1..Len(s) /\ Len(s) \in Nat
      /\ DOMAIN Append(s, a) = 1..(Len(s) + 1)
      /\ \A k \in 1..Len(s) : Append(s, a)[k] = s[k]
      /\ Append(s, a)[Len(s) + 1] = a
  OBVIOUS
<1>2. Range(Append(s, a)) = Range(s) \cup {a}
  <2>1. ASSUME NEW b \in Range(s) \cup {a} PROVE b \in Range(Append(s, a))
    BY <1>1, <2>1 DEF Range
  <2>2. ASSUME NEW b \in Range(Append(s, a)) PROVE b \in Range(s) \cup {a}
    <3>1. PICK k \in 1..(Len(s) + 1) : b = Append(s, a)[k]
      BY <1>1 DEF Range
    <3>2. k \in 1..Len(s) \/ k = Len(s) + 1
      BY <1>1
    <3> QED BY <1>1, <3>1, <3>2 DEF Range
  <2> QED BY <2>1, <2>2
<1>3. Append(s, a) # <<>>
  BY <1>1
<1> QED BY <1>1, <1>2, <1>3

\* The entries of dict after an alert is filed: the others are as they were, and one
\* of the root's ends in the alert.
LEMMA FiledFacts ==
    ASSUME ForestRooted, NEW r \in DOMAIN order, NEW a \in Alert
    PROVE  /\ Filed(r, a) \in Seq([root : DOMAIN order, list : Seq(Alert)])
           /\ \A n \in DOMAIN Filed(r, a) :
                \/ n \in DOMAIN dict /\ dict[n].root # r /\ Filed(r, a)[n] = dict[n]
                \/ /\ n \in DOMAIN dict /\ dict[n].root = r
                   /\ Filed(r, a)[n] = [root |-> r, list |-> Append(dict[n].list, a)]
                \/ /\ n = Len(dict) + 1 /\ \A m \in DOMAIN dict : dict[m].root # r
                   /\ Filed(r, a)[n] = [root |-> r, list |-> <<a>>]
           /\ \A n \in DOMAIN dict : n \in DOMAIN Filed(r, a) /\ Filed(r, a)[n].root = dict[n].root
           /\ \E n \in DOMAIN Filed(r, a) : Filed(r, a)[n].root = r
<1> DEFINE Entry == [root : DOMAIN order, list : Seq(Alert)]
<1>1. dict \in Seq(Entry) /\ Len(dict) \in Nat /\ DOMAIN dict = 1..Len(dict)
  BY Types DEF ForestRooted, TypeOK
<1>2. \A n \in DOMAIN dict : dict[n] \in Entry /\ dict[n].list \in Seq(Alert)
  <2>1. \A n \in DOMAIN dict : dict[n] \in Entry
    BY <1>1, ElementOfSeq
  <2> QED BY <2>1
<1>3. \A n \in DOMAIN dict : [root |-> r, list |-> Append(dict[n].list, a)] \in Entry
  BY <1>2, AppendFacts
<1>4. [root |-> r, list |-> <<a>>] \in Entry
  OBVIOUS
<1> HIDE DEF Entry
<1>5. CASE \E n \in DOMAIN dict : dict[n].root = r
  <2> DEFINE e == [n \in DOMAIN dict |->
                    IF dict[n].root = r THEN [root |-> r, list |-> Append(dict[n].list, a)] ELSE dict[n]]
  <2>1. Filed(r, a) = e
    BY <1>5 DEF Filed
  <2>2. e \in Seq(Entry)
    <3>1. e \in [1..Len(dict) -> Entry]
      BY <1>1, <1>2, <1>3
    <3> HIDE DEF e
    <3> QED BY <1>1, <3>1, SeqDef
  <2>3. DOMAIN e = DOMAIN dict
    OBVIOUS
  <2>4. \A n \in DOMAIN dict : e[n] = IF dict[n].root = r
              THEN [root |-> r, list |-> Append(dict[n].list, a)] ELSE dict[n]
    OBVIOUS
  <2> HIDE DEF e
  <2>5. ASSUME NEW n \in DOMAIN dict PROVE e[n].root = dict[n].root
    <3>1. CASE dict[n].root = r
      <4>1. e[n] = [root |-> r, list |-> Append(dict[n].list, a)]
        BY <2>4, <3>1
      <4> QED BY <3>1, <4>1
    <3>2. CASE dict[n].root # r
      BY <2>4, <3>2
    <3> QED BY <3>1, <3>2
  <2> QED BY <1>5, <2>1, <2>2, <2>3, <2>4, <2>5 DEF Entry
<1>6. CASE \A n \in DOMAIN dict : dict[n].root # r
  <2> DEFINE e == Append(dict, [root |-> r, list |-> <<a>>])
  <2>1. Filed(r, a) = e
    BY <1>6 DEF Filed
  <2>2. /\ e \in Seq(Entry) /\ DOMAIN e = 1..(Len(dict) + 1)
        /\ \A n \in 1..Len(dict) : e[n] = dict[n]
        /\ e[Len(dict) + 1] = [root |-> r, list |-> <<a>>]
    BY <1>1, <1>4
  <2> HIDE DEF e
  <2>3. \A n \in DOMAIN e : n \in DOMAIN dict \/ n = Len(dict) + 1
    BY <1>1, <2>2
  <2>4. e[Len(dict) + 1].root = r /\ Len(dict) + 1 \in DOMAIN e
    BY <1>1, <2>2
  <2>5. \A n \in DOMAIN dict : n \in DOMAIN e /\ e[n] = dict[n]
    BY <1>1, <2>2
  <2>6. \A n \in DOMAIN e : \/ n \in DOMAIN dict /\ dict[n].root # r /\ e[n] = dict[n]
                            \/ n = Len(dict) + 1 /\ e[n] = [root |-> r, list |-> <<a>>]
    BY <1>6, <2>2, <2>3, <2>5
  <2> QED BY <1>6, <2>1, <2>2, <2>4, <2>5, <2>6 DEF Entry
<1> QED BY <1>5, <1>6

\* What a list should hold when the positions before m are filed.
Sofar(m, r) == {order[k] : k \in {l \in 1..(m - 1) : Same(parent, l, r)}}

LEMMA SofarGrows ==
    ASSUME NEW m \in Nat \ {0}, NEW r
    PROVE  Sofar(m + 1, r) = IF Same(parent, m, r) THEN Sofar(m, r) \cup {order[m]} ELSE Sofar(m, r)
<1>1. \A l : l \in 1..((m + 1) - 1) <=> l \in 1..(m - 1) \/ l = m
  OBVIOUS
<1>2. CASE Same(parent, m, r)
  <2>1. {l \in 1..((m + 1) - 1) : Same(parent, l, r)} = {l \in 1..(m - 1) : Same(parent, l, r)} \cup {m}
    BY <1>1, <1>2
  <2> QED BY <1>2, <2>1 DEF Sofar
<1>3. CASE ~Same(parent, m, r)
  <2>1. {l \in 1..((m + 1) - 1) : Same(parent, l, r)} = {l \in 1..(m - 1) : Same(parent, l, r)}
    BY <1>1, <1>3
  <2> QED BY <1>3, <2>1 DEF Sofar
<1> QED BY <1>2, <1>3

\* One entry of dict, when the positions before m are filed.
EntryInv(d, m) ==
    /\ parent[d.root] = d.root
    /\ Range(d.list) = Sofar(m, d.root)
    /\ d.list # <<>>
    /\ \A k, l \in DOMAIN d.list : k < l => Time[d.list[k]] <= Time[d.list[l]]

LEMMA DictParts ==
    DictInv <=> /\ Scanning => dict = <<>>
                /\ \A n \in DOMAIN dict : EntryInv(dict[n], i)
                /\ \A m, n \in DOMAIN dict : dict[m].root = dict[n].root => m = n
                /\ ~Scanning => \A k \in 1..(i - 1) :
                                    \E n \in DOMAIN dict : Same(parent, k, dict[n].root)
BY DEF DictInv, EntryInv, Sofar

LEMMA FileInv ==
    ASSUME ScanInv, File
    PROVE  ScanInv'
<1> USE DEF ScanInv
<1> DEFINE D == DOMAIN order
           e == Filed(at, order[i])
<1>1. /\ parent \in [D -> D] /\ DOMAIN parent = D
      /\ Len(order) \in Nat /\ D = 1..Len(order) /\ i \in Nat
      /\ \A k \in D : order[k] \in Alert /\ Time[order[k]] \in Int
      /\ \A n \in DOMAIN dict : dict[n].root \in D /\ dict[n].list \in Seq(Alert)
      /\ DOMAIN dict = 1..Len(dict) /\ Len(dict) \in Nat
  BY Types
<1>2. /\ pc = "collect" /\ parent[at] = at /\ i' = i + 1 /\ at' = i + 1 /\ dict' = e
      /\ UNCHANGED <<order, parent, j, pc, target, groups>>
  BY DEF File
<1>3. i \in D /\ i <= Len(order) /\ at \in D /\ Same(parent, at, i) /\ Same(parent, i, at)
  BY <1>1, SameEquivalence DEF File, WalkInv, ForestRooted, TypeOK
<1>4. /\ e \in Seq([root : D, list : Seq(Alert)])
      /\ \A n \in DOMAIN e :
            \/ n \in DOMAIN dict /\ dict[n].root # at /\ e[n] = dict[n]
            \/ /\ n \in DOMAIN dict /\ dict[n].root = at
               /\ e[n] = [root |-> at, list |-> Append(dict[n].list, order[i])]
            \/ /\ n = Len(dict) + 1 /\ \A m \in DOMAIN dict : dict[m].root # at
               /\ e[n] = [root |-> at, list |-> <<order[i]>>]
      /\ \A n \in DOMAIN dict : n \in DOMAIN e /\ e[n].root = dict[n].root
      /\ \E n \in DOMAIN e : e[n].root = at
  <2>1. order[i] \in Alert /\ at \in D
    BY <1>1, <1>3
  <2> QED BY <2>1, FiledFacts
<1> HIDE DEF e
<1>5. /\ Sofar(i + 1, at) = Sofar(i, at) \cup {order[i]}
       /\ \A r : ~Same(parent, i, r) => Sofar(i + 1, r) = Sofar(i, r)
  <2>1. i \in Nat \ {0}
    BY <1>1, <1>3
  <2> QED BY <1>3, <2>1, SofarGrows
<1>6. /\ \A n \in DOMAIN dict : EntryInv(dict[n], i)
      /\ \A m, n \in DOMAIN dict : dict[m].root = dict[n].root => m = n
      /\ \A k \in 1..(i - 1) : \E n \in DOMAIN dict : Same(parent, k, dict[n].root)
  BY <1>2, DictParts DEF Scanning
<1>7. \A n \in DOMAIN dict : Same(parent, at, dict[n].root) => dict[n].root = at
  BY <1>1, <1>2, <1>3, <1>6, RootsApart DEF EntryInv
<1>8. ForestRooted' /\ Ordered'
  <2>1. i + 1 \in 1..(Len(order) + 1)
    BY <1>1, <1>3
  <2>2. dict' \in Seq([root : DOMAIN order, list : Seq(Alert)])
    BY <1>2, <1>4
  <2>3. TypeOK'
    BY <1>2, <2>1, <2>2 DEF ForestRooted, TypeOK
  <2> QED BY <1>2, <2>3 DEF ForestRooted, Ordered, IsInjective
<1>9. ClassInv'
  BY <1>2 DEF ClassInv, Rows, Passed, Scanning
<1>10. WalkInv'
  <2>1. Same(parent, i + 1, i + 1)
    BY DEF Same
  <2> QED BY <1>1, <1>2, <2>1 DEF WalkInv, Scanning
<1>11. ASSUME NEW n \in DOMAIN e PROVE EntryInv(e[n], i + 1)
  <2>1. CASE n \in DOMAIN dict /\ dict[n].root # at /\ e[n] = dict[n]
    <3>1. ~Same(parent, i, dict[n].root)
      BY <1>3, <1>7, <2>1, SameEquivalence
    <3>2. Sofar(i + 1, dict[n].root) = Sofar(i, dict[n].root)
      BY <1>5, <3>1
    <3> QED BY <1>6, <2>1, <3>2 DEF EntryInv
  <2>2. CASE /\ n \in DOMAIN dict /\ dict[n].root = at
             /\ e[n] = [root |-> at, list |-> Append(dict[n].list, order[i])]
    <3> DEFINE s == dict[n].list
               t == Append(s, order[i])
    <3>1. e[n].root = at /\ e[n].list = t
      BY <2>2
    <3>2. s \in Seq(Alert) /\ order[i] \in Alert
      BY <1>1, <1>3, <2>2
    <3>3. /\ t # <<>> /\ Range(t) = Range(s) \cup {order[i]}
          /\ DOMAIN s = 1..Len(s) /\ Len(s) \in Nat /\ DOMAIN t = 1..(Len(s) + 1)
          /\ \A k \in 1..Len(s) : t[k] = s[k]
          /\ t[Len(s) + 1] = order[i]
      BY <3>2, AppendFacts
    <3>4. /\ Range(s) = Sofar(i, at)
          /\ \A k, l \in DOMAIN s : k < l => Time[s[k]] <= Time[s[l]]
      BY <1>6, <2>2 DEF EntryInv
    <3> HIDE DEF s, t
    <3>5. Range(t) = Sofar(i + 1, at)
      BY <1>5, <3>3, <3>4
    <3>6. ASSUME NEW k \in DOMAIN s PROVE Time[s[k]] <= Time[order[i]]
      <4>1. s[k] \in Sofar(i, at)
        BY <3>4 DEF Range
      <4>2. PICK l \in 1..(i - 1) : s[k] = order[l]
        BY <4>1 DEF Sofar
      <4>3. l \in D /\ l < i
        BY <1>1, <1>3
      <4> QED BY <1>3, <4>2, <4>3 DEF Ordered
    <3>7. ASSUME NEW k \in DOMAIN t, NEW l \in DOMAIN t, k < l PROVE Time[t[k]] <= Time[t[l]]
      <4>1. k \in DOMAIN s /\ t[k] = s[k]
        BY <3>3, <3>7
      <4>2. CASE l \in 1..Len(s)
        BY <3>3, <3>4, <3>7, <4>1, <4>2
      <4>3. CASE l = Len(s) + 1
        BY <3>3, <3>6, <4>1, <4>3
      <4> QED BY <3>3, <4>2, <4>3
    <3> QED BY <1>2, <3>1, <3>3, <3>5, <3>7 DEF EntryInv
  <2>3. CASE /\ n = Len(dict) + 1 /\ \A m \in DOMAIN dict : dict[m].root # at
             /\ e[n] = [root |-> at, list |-> <<order[i]>>]
    <3>1. e[n].root = at /\ e[n].list = <<order[i]>>
      BY <2>3
    <3>2. Range(<<order[i]>>) = {order[i]}
      BY DEF Range
    <3>3. Sofar(i, at) = {}
      <4>1. ASSUME NEW l \in 1..(i - 1), Same(parent, l, at) PROVE FALSE
        <5>1. PICK m \in DOMAIN dict : Same(parent, l, dict[m].root)
          BY <1>6
        <5>2. Same(parent, at, dict[m].root)
          BY <4>1, <5>1, SameEquivalence
        <5> QED BY <1>7, <2>3, <5>2
      <4> QED BY <4>1 DEF Sofar
    <3>4. Range(e[n].list) = Sofar(i + 1, at)
      BY <1>5, <3>1, <3>2, <3>3
    <3> QED BY <1>2, <3>1, <3>4 DEF EntryInv
  <2> QED BY <1>4, <2>1, <2>2, <2>3
<1>12. ASSUME NEW m \in DOMAIN e, NEW n \in DOMAIN e, e[m].root = e[n].root PROVE m = n
  <2>1. ASSUME NEW k \in DOMAIN e
        PROVE  \/ k \in DOMAIN dict /\ e[k].root = dict[k].root
               \/ k = Len(dict) + 1 /\ e[k].root = at /\ \A l \in DOMAIN dict : dict[l].root # at
    BY <1>4, <2>1
  <2> QED BY <1>6, <1>12, <2>1
<1>13. ASSUME NEW k \in 1..i PROVE \E n \in DOMAIN e : Same(parent, k, e[n].root)
  <2>1. CASE k = i
    BY <1>3, <1>4, <2>1
  <2>2. CASE k # i
    <3>1. k \in 1..(i - 1)
      BY <1>1, <1>13, <2>2
    <3> QED BY <1>4, <1>6, <3>1
  <2> QED BY <2>1, <2>2
<1>14. DictInv'
  <2>1. ~Scanning'
    BY <1>2 DEF Scanning
  <2>2. \A n \in DOMAIN dict' : EntryInv(dict[n], i)'
    BY <1>2, <1>11 DEF EntryInv, Sofar
  <2>3. \A k \in 1..(i' - 1) : \E n \in DOMAIN dict' : Same(parent', k, dict'[n].root)
    BY <1>1, <1>2, <1>13
  <2> QED BY <1>2, <1>12, <2>1, <2>2, <2>3 DEF DictInv, EntryInv, Sofar
<1> QED BY <1>8, <1>9, <1>10, <1>14

----
\* When every linked pair has been dealt with, a class of the forest is a group: it is
\* closed under links, and no closed set holds only part of it.
LEMMA ClassIsGroup ==
    ASSUME ForestRooted, Ordered, ClassInv, ~Scanning, NEW r \in DOMAIN order
    PROVE  {order[l] : l \in {m \in DOMAIN order : Same(parent, m, r)}} = Group(order[r], Rows)
<1> DEFINE Class == {order[l] : l \in {m \in DOMAIN order : Same(parent, m, r)}}
<1>1. Class \subseteq Rows /\ order[r] \in Rows
  BY DEF Rows
<1>2. order[r] \in Class
  BY SameEquivalence
<1>3. Closed(Class, Rows)
  <2> SUFFICES ASSUME NEW a \in Class, NEW b \in Rows, Linked(a, b) PROVE b \in Class
    BY DEF Closed
  <2>1. PICK k \in DOMAIN order : a = order[k] /\ Same(parent, k, r)
    OBVIOUS
  <2>2. PICK l \in DOMAIN order : b = order[l]
    BY DEF Rows
  <2>3. Same(parent, k, l)
    <3>1. CASE k < l
      BY <2>1, <2>2, <3>1 DEF ClassInv, Passed
    <3>2. CASE l < k
      <4>1. Linked(order[l], order[k])
        BY <2>1, <2>2 DEF Linked
      <4> QED BY <3>2, <4>1, SameEquivalence DEF ClassInv, Passed
    <3>3. CASE k = l
      BY <3>3, SameEquivalence
    <3>4. k \in Int /\ l \in Int
      BY Types
    <3> QED BY <3>1, <3>2, <3>3, <3>4
  <2> QED BY <2>1, <2>2, <2>3, SameEquivalence
<1>4. Group(order[r], Rows) \subseteq Class
  <2> HIDE DEF Class
  <2> QED BY <1>1, <1>2, <1>3 DEF Group
<1>5. ASSUME NEW l \in DOMAIN order, Same(parent, l, r) PROVE order[l] \in Group(order[r], Rows)
  <2>1. \A C \in SUBSET Rows : order[r] \in C /\ Closed(C, Rows) => order[l] \in C
    BY <1>5, ClassesLinked
  <2>2. order[l] \in Rows
    BY DEF Rows
  <2> QED BY <2>1, <2>2 DEF Group
<1> QED BY <1>4, <1>5

\* The result is right as soon as there is one.
ResultInv ==
    /\ pc # "done" => groups = <<>>
    /\ ResultIsGroups
    /\ ResultInTimeOrder

LEMMA ReturnInv ==
    ASSUME ScanInv, Return
    PROVE  ScanInv' /\ ResultInv'
<1> USE DEF ScanInv
<1> DEFINE D == DOMAIN order
           N == DOMAIN dict
           lists == [n \in N |-> dict[n].list]
           key == [n \in N |-> Time[dict[n].list[1]]]
<1>1. /\ pc = "collect" /\ pc' = "done" /\ groups' \in Sorted(lists, key) /\ ~(i <= Len(order))
      /\ UNCHANGED <<order, parent, i, j, at, target, dict>>
  BY Types DEF Return
<1>2. /\ parent \in [D -> D] /\ DOMAIN parent = D
      /\ Len(order) \in Nat /\ D = 1..Len(order) /\ i \in Nat
      /\ Len(dict) \in Nat /\ N = 1..Len(dict)
      /\ \A n \in N : dict[n].root \in D /\ dict[n].list \in Seq(Alert)
  BY Types
<1>3. i = Len(order) + 1
  BY <1>1, <1>2 DEF ForestRooted, TypeOK
<1>4. lists \in Seq(Seq(Alert)) /\ DOMAIN lists = N
  <2>1. lists \in [1..Len(dict) -> Seq(Alert)]
    BY <1>2
  <2> QED BY <1>2, <2>1, SeqDef
<1>5. /\ \A n \in N : lists[n] = dict[n].list
      /\ \A n \in N : key[n] = Time[dict[n].list[1]]
  OBVIOUS
<1> HIDE DEF lists, key
<1>6. groups' \in Seq(Seq(Alert))
  BY <1>1, <1>4, SortedFacts
<1>7. PICK f : Permutes(f, lists, groups') /\ ByKey(f, lists, key)
  BY <1>1, <1>4, SortedFacts
<1>8. PICK g : g = groups'
  OBVIOUS
<1>9. /\ DOMAIN g = N
      /\ \A n \in N : f[n] \in N /\ g[n] = lists[f[n]]
      /\ \A m, n \in N : f[m] = f[n] => m = n
      /\ \A n \in N : \E m \in N : f[m] = n
  BY <1>4, <1>7, <1>8 DEF Permutes
<1>10. /\ \A n \in N : EntryInv(dict[n], i)
       /\ \A m, n \in N : dict[m].root = dict[n].root => m = n
       /\ \A k \in D : \E n \in N : Same(parent, k, dict[n].root)
  BY <1>1, <1>2, <1>3, DictParts DEF Scanning
<1>11. ScanInv'
  <2>1. TypeOK'
    BY <1>1, <1>6 DEF ForestRooted, TypeOK
  <2>2. ForestRooted' /\ Ordered'
    BY <1>1, <2>1 DEF ForestRooted, Ordered, IsInjective
  <2>3. ClassInv' /\ WalkInv' /\ DictInv'
    BY <1>1 DEF ClassInv, WalkInv, DictInv, Rows, Passed, Scanning
  <2> QED BY <2>2, <2>3
\* The lists of dict: each is the group of its root, in time order, and no two are equal.
<1>12. ASSUME NEW n \in N
       PROVE  /\ lists[n] # <<>> /\ lists[n] \in Seq(Alert)
              /\ \A k, l \in DOMAIN lists[n] : k < l => Time[lists[n][k]] <= Time[lists[n][l]]
              /\ Range(lists[n]) = Sofar(i, dict[n].root)
              /\ Range(lists[n]) = Group(order[dict[n].root], Rows)
  <2>1. EntryInv(dict[n], i) /\ lists[n] = dict[n].list /\ dict[n].root \in D
    BY <1>2, <1>5, <1>10
  <2>2. Sofar(i, dict[n].root) = {order[k] : k \in {l \in D : Same(parent, l, dict[n].root)}}
    <3>1. 1..(i - 1) = D
      BY <1>2, <1>3
    <3> QED BY <3>1 DEF Sofar
  <2>3. Sofar(i, dict[n].root) = Group(order[dict[n].root], Rows)
    BY <1>1, <2>1, <2>2, ClassIsGroup DEF Scanning
  <2> QED BY <1>2, <2>1, <2>3 DEF EntryInv
<1>13. ASSUME NEW m \in N, NEW n \in N, lists[m] = lists[n] PROVE m = n
  <2>1. PICK r \in D, s \in D : /\ r = dict[m].root /\ s = dict[n].root
                                /\ parent[r] = r /\ parent[s] = s
    BY <1>2, <1>10 DEF EntryInv
  <2>2. Sofar(i, r) = Sofar(i, s)
    BY <1>12, <1>13, <2>1
  <2>3. 1..(i - 1) = D
    BY <1>2, <1>3
  <2>4. order[r] \in Sofar(i, r)
    BY <2>1, <2>3, SameEquivalence DEF Sofar
  <2>5. order[r] \in Sofar(i, s)
    BY <2>2, <2>4
  <2>6. PICK l \in D : order[l] = order[r] /\ Same(parent, l, s)
    BY <2>3, <2>5 DEF Sofar
  <2>7. l = r
    BY <2>1, <2>6 DEF Ordered, IsInjective
  <2>8. r = s
    BY <1>2, <2>1, <2>6, <2>7, RootsApart
  <2> QED BY <1>10, <2>1, <2>8
<1>14. ASSUME NEW a \in Rows PROVE \E n \in N : Range(lists[n]) = Group(a, Rows)
  <2>1. PICK k \in D : a = order[k]
    BY DEF Rows
  <2>2. PICK n \in N : Same(parent, k, dict[n].root)
    BY <1>10
  <2>3. {m \in D : Same(parent, m, k)} = {m \in D : Same(parent, m, dict[n].root)}
    BY <2>2, SameEquivalence
  <2>4. ~Scanning /\ dict[n].root \in D
    BY <1>1, <1>2 DEF Scanning
  <2>5. {order[l] : l \in {m \in D : Same(parent, m, k)}} = Group(order[k], Rows)
    BY <2>4, ClassIsGroup
  <2>6. {order[l] : l \in {m \in D : Same(parent, m, dict[n].root)}} = Group(order[dict[n].root], Rows)
    BY <2>4, ClassIsGroup
  <2>7. Group(order[dict[n].root], Rows) = Group(order[k], Rows)
    BY <2>3, <2>5, <2>6
  <2> QED BY <1>12, <2>1, <2>7
\* groups is those lists, rearranged.
<1>15. ASSUME NEW n \in N PROVE {g[n][m] : m \in DOMAIN g[n]} = Range(lists[f[n]])
  <2>1. g[n] = lists[f[n]]
    BY <1>9
  <2>2. \A s : {s[m] : m \in DOMAIN s} = Range(s)
    BY DEF Range
  <2>3. {g[n][m] : m \in DOMAIN g[n]} = Range(g[n])
    BY <2>2
  <2> QED BY <2>1, <2>3
<1>16. {{g[n][m] : m \in DOMAIN g[n]} : n \in DOMAIN g} = Groups(Rows)
  <2>1. ASSUME NEW n \in N PROVE {g[n][m] : m \in DOMAIN g[n]} \in Groups(Rows)
    <3>1. f[n] \in N
      BY <1>9
    <3>2. PICK p \in N : p = f[n]
      BY <3>1
    <3>3. Range(lists[p]) = Group(order[dict[p].root], Rows) /\ dict[p].root \in D
      BY <1>2, <1>12
    <3> QED BY <1>15, <3>2, <3>3 DEF Groups, Rows
  <2>2. ASSUME NEW a \in Rows PROVE \E n \in N : {g[n][m] : m \in DOMAIN g[n]} = Group(a, Rows)
    <3>1. PICK p \in N : Range(lists[p]) = Group(a, Rows)
      BY <1>14
    <3>2. PICK n \in N : f[n] = p
      BY <1>9
    <3> QED BY <1>15, <3>1, <3>2
  <2>3. {{g[n][m] : m \in DOMAIN g[n]} : n \in N} = {Group(a, Rows) : a \in Rows}
    <3> DEFINE M(n) == {g[n][m] : m \in DOMAIN g[n]}
    <3>1. \A n \in N : \E a \in Rows : M(n) = Group(a, Rows)
      BY <2>1 DEF Groups
    <3>2. \A a \in Rows : \E n \in N : M(n) = Group(a, Rows)
      BY <2>2
    <3> HIDE DEF M
    <3>3. {M(n) : n \in N} = {Group(a, Rows) : a \in Rows}
      BY <3>1, <3>2
    <3> QED BY <3>3 DEF M
  <2> QED BY <1>9, <2>3 DEF Groups
<1>17. ASSUME NEW m \in N, NEW n \in N, g[m] = g[n] PROVE m = n
  <2>1. f[m] \in N /\ f[n] \in N /\ lists[f[m]] = lists[f[n]]
    BY <1>9, <1>17
  <2>2. f[m] = f[n]
    BY <1>13, <2>1
  <2> QED BY <1>9, <2>2
<1>18. ResultIsGroups'
  <2>1. Rows' = Rows
    BY <1>1 DEF Rows
  <2>2. {{g[n][m] : m \in DOMAIN g[n]} : n \in DOMAIN g} = Groups(Rows')
    BY <1>16, <2>1
  <2>3. \A m, n \in DOMAIN g : m # n => g[m] # g[n]
    BY <1>9, <1>17
  <2> QED BY <1>8, <2>2, <2>3 DEF ResultIsGroups
<1>19. ASSUME NEW n \in N, NEW k \in DOMAIN g[n], NEW l \in DOMAIN g[n], k < l
       PROVE  Time[g[n][k]] <= Time[g[n][l]]
  <2>1. PICK p \in N : g[n] = lists[p]
    BY <1>9
  <2> QED BY <1>12, <1>19, <2>1
<1>20. ASSUME NEW m \in N, NEW n \in N, m < n PROVE Time[g[m][1]] <= Time[g[n][1]]
  <2>1. PICK p \in N, q \in N : p = f[m] /\ q = f[n] /\ g[m] = lists[p] /\ g[n] = lists[q]
    <3>1. f[m] \in N /\ f[n] \in N /\ g[m] = lists[f[m]] /\ g[n] = lists[f[n]]
      BY <1>9
    <3> QED BY <3>1
  <2>2. key[p] < key[q] \/ key[p] = key[q]
    BY <1>4, <1>7, <1>20, <2>1 DEF ByKey
  <2>3. key[p] = Time[lists[p][1]] /\ key[q] = Time[lists[q][1]]
    BY <1>5
  <2>4. ASSUME NEW o \in N PROVE Time[lists[o][1]] \in Int
    <3>1. lists[o] # <<>> /\ lists[o] \in Seq(Alert)
      BY <1>12
    <3>2. lists[o][1] \in Alert
      BY <3>1
    <3> QED BY <3>2, AlertFields
  <2> QED BY <2>1, <2>2, <2>3, <2>4
<1>21. ResultInTimeOrder'
  BY <1>8, <1>9, <1>19, <1>20 DEF ResultInTimeOrder
<1> QED BY <1>1, <1>11, <1>18, <1>21 DEF ResultInv

\* One step of the scan or of the collecting loop keeps the invariant.
LEMMA NextInv == ScanInv /\ ResultInv /\ [Next]_vars => ScanInv' /\ ResultInv'
<1> SUFFICES ASSUME ScanInv, ResultInv, [Next]_vars PROVE ScanInv' /\ ResultInv'
  OBVIOUS
<1>1. ASSUME UNCHANGED <<order, groups>>, (pc # "done" /\ pc' # "done") \/ pc' = pc PROVE ResultInv'
  <2>1. Rows' = Rows
    BY <1>1 DEF Rows
  <2>2. order' = order /\ groups' = groups /\ (pc' = "done" => pc = "done")
    BY <1>1
  <2>3. pc' # "done" => groups' = <<>>
    BY <1>1, <2>2 DEF ResultInv
  <2>4. ResultIsGroups'
    BY <2>1, <2>2 DEF ResultInv, ResultIsGroups
  <2>5. ResultInTimeOrder'
    BY <2>2 DEF ResultInv, ResultInTimeOrder
  <2> QED BY <2>3, <2>4, <2>5 DEF ResultInv
<1>2. CASE Skip \/ FindRight \/ FindLeft
  BY <1>1, <1>2, SkipInv, FindRightInv, FindLeftInv DEF Skip, FindRight, FindLeft, Compares
<1>3. CASE Halve \/ Join \/ File
  BY <1>1, <1>3, HalveInv, JoinInv, FileInv DEF Halve, Join, File
<1>4. CASE NextRow \/ Collect
  BY <1>1, <1>4, NextRowInv, CollectInv DEF NextRow, Collect
<1>5. CASE Return
  BY <1>5, ReturnInv
<1>6. CASE UNCHANGED vars
  <2>1. UNCHANGED <<order, parent, i, j, pc, at, target, dict, groups>>
    BY <1>6 DEF vars
  <2>2. ForestRooted' /\ Ordered'
    BY <2>1 DEF ScanInv, ForestRooted, TypeOK, Ordered, IsInjective
  <2>3. ClassInv' /\ WalkInv'
    BY <2>1 DEF ScanInv, ClassInv, WalkInv, Rows, Passed, Scanning
  <2>4. DictInv'
    BY <2>1 DEF ScanInv, DictInv, Scanning, Same, Whole
  <2> QED BY <1>1, <2>1, <2>2, <2>3, <2>4 DEF ScanInv
<1> QED BY <1>2, <1>3, <1>4, <1>5, <1>6 DEF Next

LEMMA ScanInvariant == Spec => [](ScanInv /\ ResultInv)
<1>1. Init => ResultInv
  BY DEF Init, ResultInv, ResultIsGroups, ResultInTimeOrder
<1> QED BY <1>1, InitInv, NextInv, PTL DEF Spec

\* find() ends wherever group_alerts calls it: the parent pointers of no set of
\* positions run in a circle.
THEOREM ForestStaysRooted == Spec => []ForestRooted
<1>1. ScanInv => ForestRooted
  BY DEF ScanInv
<1> QED BY <1>1, ScanInvariant, PTL

\* group_alerts returns exactly the groups, each once, whatever rows it is given.
THEOREM ScanFindsGroups == Spec => []ResultIsGroups
<1>1. ResultInv => ResultIsGroups
  BY DEF ResultInv
<1> QED BY <1>1, ScanInvariant, PTL

\* It returns them in time order, inside each and by their first alerts.
THEOREM ScanKeepsTimeOrder == Spec => []ResultInTimeOrder
<1>1. ResultInv => ResultInTimeOrder
  BY DEF ResultInv
<1> QED BY <1>1, ScanInvariant, PTL
====
