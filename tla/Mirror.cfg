SPECIFICATION FairSpec
CONSTANTS
    A = A
    NItems = 3
    Data = {A}
    Retired = Retired
    Stock <- MCStock
    PageSize = 1
    MaxClock = 2
    MaxEdits = 2
    MaxMoves = 2
    MaxFaults = 2
INVARIANT NothingSkipped
INVARIANT IntentKept
PROPERTY MirrorConverges
