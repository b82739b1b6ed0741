SPECIFICATION Spec
CONSTANTS
    key = key
    none = none
    d1 = d1
    d2 = d2
    w1 = w1
    w2 = w2
    Requests = {1, 2, 3, 4}
    Workloads <- SafetyWorkloads
    NoKey = none
    Drafts = {d1, d2}
    Seed = d1
    MaxSessions = 2
    Workers = {w1, w2}
    MaxCrashes = 1
SYMMETRY WorkerSymmetry
INVARIANTS TypeOK TablesAgree AnswersHold
PROPERTIES SessionsKeepOrder
CHECK_DEADLOCK FALSE
