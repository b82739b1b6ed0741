\* Three components, a stream and the one attached after it, a fault in between.
CONSTANTS
    NumComponents = 3
    MaxStreams = 2
    MaxFaults = 1
SPECIFICATION FairSpec
INVARIANTS
    TypeOK
    
PROPERTIES
    StreamIsOver
CHECK_DEADLOCK FALSE
