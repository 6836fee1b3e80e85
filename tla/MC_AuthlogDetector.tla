---- MODULE MC_AuthlogDetector ----
(***************************************************************************)
(* Two hosts that log in turn, with two templates; the second line does    *)
(* not parse, and the fifth may make its window look odd.                  *)
(***************************************************************************)
EXTENDS AuthlogDetector

MCHost == <<1, 2, 1, 2, 1, 2, 1>>
MCTemplate == <<"a", "b", "a", "b", "b", "a", "b">>
====
