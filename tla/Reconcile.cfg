SPECIFICATION ReconcileSpec
CONSTANTS
    Tenders = {1, 2}
    Rows = {1, 2}
    TenderKey <- MCTenderKey
    RowKey <- MCRowKey
    CreatedAt <- MCCreatedAt
    SettledAt <- MCSettledAt
    Day = 10
    Window = 3
    Passes = {a, b}
    PageSize = 1
    MaxPages = 2
    MaxAttempts = 2
    MaxDeaths = 1
    Dates = {0, 1}
SYMMETRY Symmetry
INVARIANT MatcherServesInOrder
INVARIANT EveryFlipCountedOnce
PROPERTY NoneLeftBehind
