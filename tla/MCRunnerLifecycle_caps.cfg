SPECIFICATION Spec
CONSTANTS
    Runners = {r1}
    Helpers = {h1}
    Names = {n1}
    MaxInstances = 1
    MaxFaults = 1
    NoName = NoName
    NoRunner = NoRunner
INVARIANTS
    CapsBeforeFirstBoot
