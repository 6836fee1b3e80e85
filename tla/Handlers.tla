---- MODULE Handlers ----
(***************************************************************************)
(* The dashboard's request handlers run in a pool of threads: a double     *)
(* click, two tabs or two analysts are two of them at once, and each       *)
(* statement of one may fall between two statements of another.  This      *)
(* module is what Settings and ManualLinks share: where each stands.       *)
(***************************************************************************)
CONSTANT Request  \* the requests, and pages with a form still open, there may be at once

VARIABLES
    request,   \* [Request -> record], where each request stands and what it has read
    overtaken  \* ghost: the requests that read what another has since changed

handlerVars == <<request, overtaken>>

Done == [at |-> "done"]
Free(r) == request[r].at = "done"
Enter(r, step) == request' = [request EXCEPT ![r] = step] /\ UNCHANGED overtaken
At(steps) == {q \in Request : request[q].at \in steps}

\* A request ends, having changed what the rivals have read.
Commit(r, rivals) ==
    /\ request' = [request EXCEPT ![r] = Done]
    /\ overtaken' = (overtaken \cup rivals) \ {r}

Leave(r) == Commit(r, {})

\* The process dies: of its requests only the forms open in browsers are left.
Survivors == At({"offered", "shown"})
HandlersRestart ==
    /\ request' = [r \in Request |-> IF r \in Survivors THEN request[r] ELSE Done]
    /\ overtaken' = overtaken \cap Survivors
====
