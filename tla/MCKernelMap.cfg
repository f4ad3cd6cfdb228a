SPECIFICATION FairSpec
CONSTANTS
    Levels = 4
    Fanout = 2
    Layouts <- MCLayouts
    FreePages = {1, 6, 12, 20}
INVARIANTS
    BootSurvives
    BootMaps
    ListIsHigh
PROPERTIES
    BootEnds
