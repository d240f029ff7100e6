SPECIFICATION FairSpec
CONSTANTS
    Orders = {1, 2}
    NoOrder = NoOrder
    MaxNoticed = 1
    Amounts = {1, 2}
    Lifecycle <- MCLifecycle
    MaxLate = 1
    MaxFaults = 1
INVARIANT SaleBacked
INVARIANT ResetIsSafe
INVARIANT AckMeansHeard
INVARIANT PaidOnceInOrder
PROPERTY PaidIsRecorded
