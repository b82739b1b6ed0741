\* Two clients, a member, two saves, a publication and a fault of which two happen.
CONSTANTS
    a = a
    b = b
    Client = {a, b}
    m = m
    Member = {m}
    Common = Common
    Value = {x, y}
    x = x
    y = y
    Inherit = Inherit
    Keep = Keep
    None = None
    MaxSaves = 2
    MaxPublications = 1
    MaxFaults = 1
    Budget = 2
    Visits <- MCVisits
SYMMETRY Interchangeable
CONSTRAINTS TheOtherStays TheOtherIsLater Within
SPECIFICATION Spec
INVARIANTS
    TypeOK
    EditorsKnowTheirDraft
PROPERTIES
    SaveTouchesItsTarget
CHECK_DEADLOCK FALSE
