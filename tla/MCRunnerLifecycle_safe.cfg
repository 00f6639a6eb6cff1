SPECIFICATION Spec
CONSTANTS
    Runners = {r1, r2}
    Helpers = {h1, h2}
    Names = {n1, n2}
    MaxInstances = 1
    MaxFaults = 2
    NoName = NoName
    NoRunner = NoRunner
SYMMETRY Symmetry
INVARIANTS
    TypeOK
    OneWriterPerRunner
    TargetIsCurrent
    NoOrphanMachine
    IntentCoversClone
    CapacityBound
    BootstrapOnce
    ActiveIsComplete
PROPERTIES
    RegistrySpec
    LedgerSpec
