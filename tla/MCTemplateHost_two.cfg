SPECIFICATION FairSpec
CONSTANTS
    Procs = {p1, p2}
    Images = {i1, i2}
    Runners = {r1}
    MaxFaults = 2
    NoImage = NoImage
    NoRunner = NoRunner
INVARIANTS
    RegisteredHasManifest
    RegisteredIsSealed
    IntentHasTemplate
PROPERTIES
    OneImageAtATime
    DeregisteredLast
    WindowSpec
    RemovalConverges
