SPECIFICATION FairSpec
CONSTANTS
    Ids = {m1, m2}
    Known = {a, b}
    Drawn = {x1, x2, x3}
    Deleters = {d1, d2}
    MaxFaults = 2
    MaxMoves = 3
    NoId = NoId
    NoName = NoName
INVARIANT
    SuccessMeansGone
PROPERTIES
    OnlyTheTarget
    DeletionConverges
