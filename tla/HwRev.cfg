SPECIFICATION Spec
CONSTANTS
    Areas <- SmallAreas
    NoName = NoName
    Torn = Torn
    N1 = N1
    N2 = N2
    N3 = N3
INVARIANTS OnlyProtected AsReference
PROPERTY SearchEnds
CHECK_DEADLOCK FALSE
