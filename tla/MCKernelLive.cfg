\* Liveness: three processes, started and ended without end.
CONSTANTS
    MaxProcesses = 4
    PidBound = 1
    MaxStarts = 1
    PcBound = 1
    UserValues = {0}
    Traps = {"end", "execv", "yield"}
SPECIFICATION FairSpec
PROPERTIES
    NoStarvation
    TrapsEnd
    PowersOff
