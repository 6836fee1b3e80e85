CONSTANTS
    Task <- MCRetried
    Action <- MCActionOfRetried
    Request = {r1}
    Gap = 3
    MaxEffects = 2
    MaxStale = 1
    Answers = {"accept", "reject", "noauth"}
    Restarts = {}
SPECIFICATION LiveSpec
INVARIANTS EffectsAreAudited StatusIsLatest
PROPERTIES EffectsApart FailedIsRetried
