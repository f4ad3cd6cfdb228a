SPECIFICATION FairSpec
CONSTANTS
    Block = {b1, b2, b3, b4}
    Orders = {0, 1}
PROPERTIES
    RemoveReturns
    ImplementsLists
