SPECIFICATION ListSpec
CONSTANTS
    Runners = {r1, r2}
    Helpers = {h1}
    Names = {n1, n2, n3}
    MaxInstances = 2
    MaxFaults = 1
    NoName = NoName
    NoRunner = NoRunner
SYMMETRY Symmetry
INVARIANTS
    ListIsOfOneMoment
PROPERTY
    WindowSpec
