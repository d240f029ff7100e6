SPECIFICATION FairSpec
CONSTANTS
    s1 = s1
    Sales = {s1}
    MaxShifts = 2
    MaxRows = 3
    MaxDate = 2
    cycle = cycle
    Cycle = cycle
    Pushes = {}
    TabMayDie = TRUE
INVARIANT SyncedIsServed
INVARIANT CloseNeverParked
PROPERTY ShiftsReachServer
