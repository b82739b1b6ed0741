\* One session of five units, with 1, 2, 1, 1 and no encode tasks, in a window of three.
CONSTANTS
    NumUnits <- MCNumUnits
    Tasks <- MCTasks
    Window <- MCWindow
SPECIFICATION FairSpec
INVARIANTS
    TypeOK
    RowsTellDisk
    
PROPERTIES
    StepsAreAttributed
    ImplementsSerial
    SessionEnds
CHECK_DEADLOCK FALSE
