CONSTANTS
    Sales = {1, 2, 3}
    NoSale = 0
    Own = {1}
    Here = {1, 2}
    CodeOf <- MCCodeOf
    WrongCode = "x"
    MaxLookups = 2
    MaxVoids = 2
    Slips <- MCSlips
    Chunks = 2
    MaxJobs = 2
    MaxVisits = 3
SPECIFICATION Spec
INVARIANT FoundIsAsked
INVARIANT VoidSticks
INVARIANT PrintsWhole
INVARIANT PapersAgree
PROPERTY SearchesEnd
CHECK_DEADLOCK FALSE
