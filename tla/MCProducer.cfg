\* Unlimited retries, and two attempts per event.
SPECIFICATION Spec
CONSTANTS
    e1 = e1
    e2 = e2
    e3 = e3
    e4 = e4
    w1 = w1
    w2 = w2
    coffee = coffee
    tea = tea
    StoreCode = madrid
    NoEvent = NoEvent
    NoRow = NoRow
    EventIds = {e1, e2, e3}
    Workers = {w1, w2}
    Catalog <- TwoProducts
    MaxQuantity = 2
    QueueSize = 1
    Limits = {0, 2}
    Doublings = 0
SYMMETRY Symmetry
INVARIANTS
    IInv
    NothingRefused
    ReplayIsDuplicate
    LedgerBalances
    EachEventOnce
