CONSTANTS
    Incident <- MCIncident
    Entity <- MCEntity
    Host <- MCHost
    Views <- MCViews
    MaxSpread = 3
    LinkHours = 3
    StrongHours = 2
    Status = {"open", "false-chain"}
    Request = {r1}
    MaxCrash = 1
SPECIFICATION Spec
INVARIANTS EachIncidentOnce PassExact HighIsDirect
PROPERTIES CallsKept
