CONSTANTS
    Alert <- MCAlert
    Entity <- MCEntity
    Time <- MCTime
    Entities <- MCEntities
    Window = 1
    Inputs <- MCInputs
SPECIFICATION Spec
INVARIANTS ForestRooted ResultIsGroups ResultInTimeOrder
CHECK_DEADLOCK FALSE
