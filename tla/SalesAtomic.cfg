SPECIFICATION Spec
CONSTANTS
    r1 = r1 r2 = r2 s1 = s1 s2 = s2 d1 = d1 d2 = d2
    v1 = v1 v2 = v2 f1 = f1 f2 = f2
    latte = latte beans = beans cup = cup one = one two = two mix = mix
    morning = morning noon = noon night = night
    NoBom = NoBom DanglingBom = DanglingBom
    NoShift = NoShift NoVoid = NoVoid NoReply = NoReply
    Requests = {r1}
    Sales = {s1, s2}
    Items <- MCItems
    Guarded = {beans}
    Carts = {one, two}
    Quantity <- MCQuantity
    Versions = {morning, noon}
    Uses <- MCUses
    Sellable <- MCSellable
    Subtotal <- MCSubtotal
    Tax <- MCTax
    Discounts = {0, 3}
    Opening <- MCOpening
    Dates = {d1, d2}
    VoidIds = {v1, v2}
    RefundIds = {f1, f2}
    Amounts = {1, 2}
    AwaitYields = FALSE
SYMMETRY Symmetry
INVARIANT NoOversell
INVARIANT PostedOnce
INVARIANT RefundsWithinSale
INVARIANT ReplyHonest
INVARIANT LedgerBalances
