---- MODULE MC_ModelRegistry ----
(***************************************************************************)
(* The weekly loop, a run by hand, the server and a backfill, and two      *)
(* accuracies.                                                             *)
(***************************************************************************)
EXTENDS Opinions, TLC

MCSymmetry == Permutations(Trainer) \cup Permutations(Server)
====
