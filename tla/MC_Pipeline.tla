---- MODULE MC_Pipeline ----
(***************************************************************************)
(* Four alerts of the index whose times tie or are adjacent; with a fifth, *)
(* a detector's, that overtakes the oldest two.                            *)
(***************************************************************************)
EXTENDS Pipeline

MCAlert == 1..4
MCAlerts == 1..5
MCSteps == <<0, 1, 2, 2, 4>>
MCSameSecond == <<1, 1, 1, 2>>
====
