SPECIFICATION Spec
CONSTANTS
    Sales = {1, 2}
    Cycle = cycle
    Pushes = {}
    MaxPerDrain = 2
    MaxDeaths = 1
    Verdicts = {"short", "refused"}
INVARIANT NothingSilentlyDropped
