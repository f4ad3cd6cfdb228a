SPECIFICATION FairSpec
CONSTANTS
    Levels = 3
    Fanout = 2
    Frame <- MCFrame
    Areas <- MCAreas
    MaxVmas = 2
    Given <- MCGiven
INVARIANTS
    UnderTables
    FramesHeldOnce
    NoGapBehind
PROPERTIES
    KeepsMappings
    StaysInVma
    FaultMaps
    CallsReturn
    FaultsServed
