---- MODULE MC_Desk ----
(***************************************************************************)
(* Three alerts, 1 and 3 unrelated until alert 2 bridges them, with        *)
(* verdicts, overrides and page visits.                                    *)
(***************************************************************************)
EXTENDS IncidentDesk

MCAlert == 1..3
MCEntity == {"host", "ip"}
MCTime == <<1, 2, 4>>
MCEntities == <<{"host"}, {"host", "ip"}, {"ip"}>>
MCNative == [a \in MCAlert |-> IF a = 1 THEN {"isolate"} ELSE {}]
MCGuessed == [a \in MCAlert |-> IF a = 3 THEN {"isolate"} ELSE {}]
====
