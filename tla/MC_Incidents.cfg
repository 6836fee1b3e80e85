CONSTANTS
    Alert <- MCAlert
    Entity <- MCEntity
    Time <- MCTime
    Entities <- MCEntities
    Window = 2
    MaxIncident = 3
    ModelVerdict = {}
    Title = {"isolate"}
    None = None
    Request = {r1}
    AnalystVerdict = {}
    Native <- MCNative
    Guessed <- MCGuessed
    AttackRule = {3}
    Fallback = "isolate"
SPECIFICATION Spec
INVARIANTS PassPartitions
PROPERTIES LinkedStaysLinked TasksFollowAlerts BiggestSurvives LedgerSpec
