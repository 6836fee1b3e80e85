---- MODULE MC_Chains ----
(***************************************************************************)
(* Four incidents that may form one chain, two, or none: linked directly   *)
(* by addresses, by a host, only transitively, or across a long gap.       *)
(***************************************************************************)
EXTENDS Chains

MCIncident == 1..4
MCEntity == {"host", "ip", "user"}
MCHost == {"host"}

Hot(entities, first, rank, native) ==
    [hot |-> TRUE, touch |-> entities, first |-> first, last |-> first + 1, rank |-> rank,
     native |-> native]
Cold(v) == [v EXCEPT !.hot = FALSE]
NoAlerts == [hot |-> TRUE, touch |-> {}, first |-> 0, last |-> 0, rank |-> 14, native |-> FALSE]

MCViews ==
    << {Cold(Hot({"ip", "user"}, 0, 1, TRUE)), Hot({"ip", "user"}, 0, 1, TRUE)},
       {NoAlerts, Hot({"ip"}, 2, 3, FALSE), Hot({"ip", "user"}, 6, 1, FALSE)},
       {Hot({"host"}, 3, 2, TRUE), Hot({"ip", "host", "user"}, 3, 2, TRUE)},
       {Hot({"host"}, 4, 2, FALSE), Hot({"ip", "host"}, 5, 4, TRUE)} >>
====
