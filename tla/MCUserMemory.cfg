\* Two processes at a time.
SPECIFICATION Spec
SYMMETRY MCSymmetry
CONSTANTS
    Proc = {p1, p2}
    App <- MCApp
    Requests = {3}
    MaxVmas = 4
    Frame <- MCFrame
    Touched = {18, 20, 21, 28, 91}
    Stored = {28}
    PageSize = 3
    Mega = 2
    SlotPages = 16
    HeapBase = 7
    StackBase = 30
    StackPages = 1
    KernelSlot = 2
    IntBits = 5
INVARIANTS
    VmasApart
    MemoryApart
PROPERTIES
    ImplementsMemory
