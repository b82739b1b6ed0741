\* Every table over small inventories; one credential may be lost.
CONSTANTS
    Names = {1, 2, 3}
    Key <- MCKey
    NoSpec = NoSpec
    Scenes <- MCScenes
    MaxLost = 1
SPECIFICATION PlannerSpec
INVARIANTS
    PlannerTypeOK
    PlanHolds
PROPERTIES
    RemovedOnlyIfReplaced
CHECK_DEADLOCK FALSE
