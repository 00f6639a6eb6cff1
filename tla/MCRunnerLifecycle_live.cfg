SPECIFICATION FairSpec
CONSTANTS
    Runners = {r1}
    Helpers = {h1, h2}
    Names = {n1}
    MaxInstances = 1
    MaxFaults = 2
    NoName = NoName
    NoRunner = NoRunner
PROPERTIES
    CallsReturn
    DeletionConverges
    ReservationResolves
