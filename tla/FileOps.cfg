\* Every kind of request, two steps of another program, one fault.
CONSTANTS
    Member = "member"
    Bin = "bin"
    Folder = "folder"
    Link = "link"
    Alien = "alien"
    Name <- MCName
    Names <- MCNames
    RecoveryName <- MCRecoveryName
    maxAttempts = 1
    Trees <- MCTrees
    Requests <- MCRequests
    MaxAliens = 2
    MaxFaults = 1
SPECIFICATION FileSpec
INVARIANTS
    FileTypeOK
    BatchIsReported
PROPERTIES
    NothingOverwritten
CHECK_DEADLOCK FALSE
