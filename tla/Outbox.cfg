SPECIFICATION FairSpec
CONSTANTS
    Sales = {1, 2}
    Cycle = cycle
    Pushes = {}
    MaxPerDrain = 1
    MaxDeaths = 2
    Verdicts = {"refused"}
INVARIANT NothingSilentlyDropped
PROPERTY DeliverySpec
PROPERTY Drained
