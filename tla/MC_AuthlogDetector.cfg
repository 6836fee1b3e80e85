CONSTANTS
    Host <- MCHost
    Template <- MCTemplate
    Suspect = {5}
    Junk = {2}
    Fetch = 4
    Page = 5
    MinWindows = 4
    MaxTime = 6
    Late = 0
    Outage = 2
    Burst = 4
    None = None
SPECIFICATION Spec
INVARIANTS TypeOK ScoredUpToHere FlaggedIsStored RenumberedOnlyByAging
