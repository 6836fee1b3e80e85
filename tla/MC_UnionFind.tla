---- MODULE MC_UnionFind ----
(***************************************************************************)
(* No rows, and every batch of four rows over three timestamps and two     *)
(* entities, in every order the database may return them; the last row may *)
(* touch no entity at all.                                                 *)
(***************************************************************************)
EXTENDS UnionFind

MCEntity == {"host", "user"}
MCAlert == [row : 1..4, time : 0..2, touches : SUBSET MCEntity]
MCTime == [a \in MCAlert |-> a.time]
MCEntities == [a \in MCAlert |-> a.touches]
MCInputs ==
    {<<>>} \cup {[k \in 1..4 |-> [row |-> k, time |-> t[k], touches |-> e[k]]] :
        t \in [1..4 -> 0..2],
        e \in {f \in [1..4 -> SUBSET MCEntity] : \A k \in 1..3 : f[k] # {}}}
====
