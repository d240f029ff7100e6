SPECIFICATION FairSpec
CONSTANTS
    ACup = ACup
    ABun = ABun
    Cup = Cup
    Bun = Bun
    Beans = Beans
    Tickets = {ACup, ABun}
    ItemOf <- MCItemOf
    Stocked = {Beans, Bun}
    Uses <- MCUses
    OnHand <- MCOnHand
    Tracked = {Bun}
    Hows = {"cash", "qris"}
    MaxOpened = 2
    MaxReturns = 1
    MaxDeaths = 1
CHECK_DEADLOCK FALSE
INVARIANT SoldOnce
INVARIANT LabelNeverHides
PROPERTY LabelConverges
