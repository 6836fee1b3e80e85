---- MODULE MC_Incidents ----
(***************************************************************************)
(* Four alerts: 1 and 2 belong together, 4 is unrelated to them until      *)
(* alert 3, between them in time, touches both their entities.  Alert 3    *)
(* may come first, last or while a rebuild is under way, so incidents are  *)
(* created, grow and merge.                                                *)
(***************************************************************************)
EXTENDS IncidentDesk

MCAlert == 1..4
MCEntity == {"host", "ip"}
MCTime == <<1, 2, 3, 5>>
MCEntities == <<{"host"}, {"host"}, {"host", "ip"}, {"ip"}>>
MCNative == [a \in MCAlert |-> IF a = 3 THEN {} ELSE {"isolate"}]
MCGuessed == [a \in MCAlert |-> {}]
====
