SPECIFICATION Spec
CONSTANTS
    Doctors = {d1}
    Creates = {c1}
    Ids = {i1, i2, i3}
    Known = {k1, k2}
    Drawn = {n1, n2}
    Settings = {s1, s2}
    Disk = s1
    MaxFaults = 2
    MaxMoves = 2
    NoId = NoId
    NoName = NoName
SYMMETRY Symmetry
CHECK_DEADLOCK FALSE
INVARIANTS
    ProbeLeavesNothing
    OnlyItsClone
    ProbeIsLimited
PROPERTY
    SettingsStayInside
