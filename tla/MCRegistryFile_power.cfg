SPECIFICATION Spec
CONSTANTS
    Runners = {r1, r2}
    Procs = {p1, p2}
    MaxFaults = 4
    NoRunner = NoRunner
SYMMETRY Symmetry
INVARIANTS
    
    MachinesSurvivePowerFailure
PROPERTY
    RegistrySpec
