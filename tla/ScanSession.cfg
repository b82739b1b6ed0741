\* A full scan and a refresh, with edits, faults, cancellations, crashes and probes.
CONSTANTS
    Scans <- MCScans
    Scope <- MCScope
    Root = "root"
    Dirs <- MCDirs
    Files <- MCFiles
    ParentOf <- MCParentOf
    Workloads <- MCWorkloads
    RootWorkers = 2
    QueueSize = 1
    BatchSize = 2
    Canceled = "canceled"
    NoErr = "none"
SPECIFICATION FairSpec
INVARIANTS
    TypeOK
    FailuresAreSettled
PROPERTIES
    MergesWhatItSaw
    ScanEnds
CHECK_DEADLOCK FALSE
