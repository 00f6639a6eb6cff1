SPECIFICATION Spec
CONSTANTS
    Cmds = {c1, c2}
    Versions = {v1, v2}
    None = None
    Drifts = TRUE
    MaxRunners = 1
    MaxFaults = 1
    MaxRestarts = 1
    MaxLosses = 1
    MaxRequests = 2
SYMMETRY Symmetry
INVARIANTS
    IdentityKept
    NothingDangles
PROPERTIES
    VersionChangeQuiet
    KillsOnlyForChange
    FinishedMeansServing
    FinishedIsUpgradable
    OnlyLoginLoadsOldRelease
