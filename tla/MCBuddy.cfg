CONSTANTS
    MaxOrder = 4
    KernelFrames = 8
    BootSeq <- MCBootSeq
SPECIFICATION Spec
INVARIANTS
    TypeOK
    ListsExact
    NoOverlap
    NothingLost
    StaleOrderRight
    FullyMerged
PROPERTIES
    ImplementsAllocator
