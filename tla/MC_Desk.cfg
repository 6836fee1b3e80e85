CONSTANTS
    Alert <- MCAlert
    Entity <- MCEntity
    Time <- MCTime
    Entities <- MCEntities
    Window = 2
    MaxIncident = 2
    ModelVerdict = {"suspicious"}
    Title = {"isolate", "triage"}
    None = None
    Request = {r1}
    AnalystVerdict = {"malicious", "benign"}
    Native <- MCNative
    Guessed <- MCGuessed
    AttackRule = {2}
    Fallback = "triage"
SPECIFICATION OneAtATime
INVARIANTS RebuildExact NoTaskOnMerged
PROPERTIES ProposesOnce
