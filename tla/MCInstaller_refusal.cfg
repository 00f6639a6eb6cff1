SPECIFICATION Spec
CONSTANTS
    Cmds = {c1}
    Versions = {v1, v2, v3}
    None = None
    Drifts = FALSE
    MaxRunners = 1
    MaxFaults = 2
    MaxRestarts = 0
    MaxLosses = 0
    MaxRequests = 2
SYMMETRY Symmetry
INVARIANT
    ManagedWritesAccepted
