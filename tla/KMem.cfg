SPECIFICATION UsesSpec
CONSTANTS
    None = None
    Header = 2
    PageStruct = 5
    FreeStruct = 3
    PageWords = 32
    MinimumPages = 2
    Regions <- Holes
    Sizes = {5, 24}
    Counts = {1, 2}
    MaxCalls = 6
    MaxCreates = 4
    HeapSizes = {9, 24}
    MaxHeapCalls = 9
    MaxInstalls = 1
    MaxDepth = 8
CHECK_DEADLOCK FALSE
INVARIANT NoOverlap
INVARIANT NothingLost
INVARIANT StructsOwned
INVARIANT ListsInOrder
INVARIANT ReserveHeld
