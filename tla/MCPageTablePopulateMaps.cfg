SPECIFICATION FairSpec
CONSTANTS
    Levels = 3
    Fanout = 2
    Frame <- MCSingleFrame
    Areas <- MCAreas
    MaxVmas = 2
    Given <- MCGiven
PROPERTY
    PopulateMaps
