SPECIFICATION Spec
CONSTANTS
    p = p
    q = q
    r = r
    n1 = n1
    n2 = n2
    n3 = n3
    n4 = n4
    Path = {p, q, r}
    Name = {n1, n2, n3, n4}
    recoveryName <- MCRecoveryName
    NoName = NoName
    Plans <- MCPlans
    MaxEncodes = 2
    MaxAttempts = 1
INVARIANTS TypeOK AudioSurvives RunIsReported
PROPERTIES RecoveryKept
CHECK_DEADLOCK FALSE
