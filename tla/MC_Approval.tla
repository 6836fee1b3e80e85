---- MODULE MC_Approval ----
(***************************************************************************)
(* The tasks on the page of one incident: two with actions of either kind, *)
(* or a plain task and two that block an address.                          *)
(***************************************************************************)
EXTENDS Approval, TLC

MCTask == {"block", "disable"}
MCAction == [t \in MCTask |-> IF t = "block" THEN "block-ip" ELSE "disable-user"]
MCRetried == {"notify", "block", "block2"}
MCActionOfRetried == [t \in MCRetried |-> IF t = "notify" THEN "none" ELSE "block-ip"]
MCSymmetry == Permutations(Request)
====
