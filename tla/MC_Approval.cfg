CONSTANTS
    Task <- MCTask
    Action <- MCAction
    Request = {r1, r2}
    Gap = 1
    MaxEffects = 2
    MaxStale = 1
    Answers = {"accept", "reject", "lost"}
    Restarts = {TRUE, FALSE}
SYMMETRY MCSymmetry
SPECIFICATION Spec
INVARIANTS DoneIsAudited RowsAreTrue ConfirmedBeforeEffect
