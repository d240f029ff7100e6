SPECIFICATION Spec
CONSTANTS
    Codes = {c1, c2}
    CodeOutlets = {o1}
    MaxDevices = 2
    MaxRestarts = 1
    IdleTicks = 2
    CoolTicks = 2
    MaxAttempts = 2
    MaxDeaths = 1
CHECK_DEADLOCK FALSE
INVARIANT DevicesAccountedFor
INVARIANT LockedWhenIdle
INVARIANT PacedGuesses
