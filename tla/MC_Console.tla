---- MODULE MC_Console ----
(***************************************************************************)
(* Two names, three passwords, four incidents of which the scan flags two  *)
(* pairs, and two requests at once in one browser.                         *)
(***************************************************************************)
EXTENDS Console

MCUser == {"admin", "opsec"}
MCPassword == {"shipped", "first", "second"}
MCOffer == {[user |-> "admin", password |-> "first"], [user |-> "opsec", password |-> "second"]}
MCIncident == 1..4
MCTouch == <<{"x"}, {"y"}, {"y"}, {"z"}>>
MCBrief == <<"a", "a", "b", "a">>
MCViews == {[i \in MCIncident |-> [hot |-> i < 4, touch |-> MCTouch[i], brief |-> MCBrief[i]]]}
MCAlike == {{"a"}, {"b"}, {"a", "b"}}
====
