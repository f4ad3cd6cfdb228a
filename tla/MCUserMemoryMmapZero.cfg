SPECIFICATION Spec
CONSTANTS
    Proc = {p1}
    App <- MCApp
    Requests = {0, 1}
    MaxVmas = 5
    Frame <- MCFrame
    Touched = {15, 20, 21, 28, 91}
    Stored = {21, 28}
    PageSize = 3
    Mega = 2
    SlotPages = 16
    HeapBase = 7
    StackBase = 30
    StackPages = 1
    KernelSlot = 2
    IntBits = 5
INVARIANT
    VmasApart
