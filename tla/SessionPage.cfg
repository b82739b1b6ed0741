\* Two operations whose sessions may be running when the pages are loaded, two
\* connections of which one may break.
CONSTANTS
    a = a
    b = b
    Session = {a, b}
    None = None
    MaxConnections = 2
    MaxBreaks = 1
SYMMETRY Interchangeable
SPECIFICATION PageSpec
INVARIANTS
    PageTypeOK
    LiveStreamIsFollowed
    
CHECK_DEADLOCK FALSE
