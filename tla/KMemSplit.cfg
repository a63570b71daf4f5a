SPECIFICATION Spec
CONSTANTS
    None = None
    Header = 2
    PageStruct = 5
    FreeStruct = 3
    PageWords = 32
    MinimumPages = 2
    Regions <- Plenty
    Sizes = {24}
    Counts = {2, 3}
    MaxCalls = 7
    MaxCreates = 0
    MaxInstalls = 0
    MaxDepth = 8
CHECK_DEADLOCK FALSE
INVARIANT PagesDisjoint
