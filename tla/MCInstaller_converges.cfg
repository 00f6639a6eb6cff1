SPECIFICATION FairSpec
CONSTANTS
    Cmds = {c1}
    Versions = {v1, v2}
    None = None
    Drifts = TRUE
    MaxRunners = 1
    MaxFaults = 2
    MaxRestarts = 1
    MaxLosses = 0
    MaxRequests = 2
PROPERTY
    InstallConverges
