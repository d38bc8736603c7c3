\* A long outage ends a worker.
SPECIFICATION Spec
CONSTANTS
    e1 = e1
    e2 = e2
    e3 = e3
    e4 = e4
    w1 = w1
    w2 = w2
    coffee = coffee
    tea = tea
    StoreCode = madrid
    NoEvent = NoEvent
    NoRow = NoRow
    EventIds = {e1, e2, e3}
    Workers = {w1}
    Catalog <- OneProduct
    MaxQuantity = 1
    QueueSize = 1
    Limits = {0}
    Doublings = 2
INVARIANTS
    RetriesWithoutLimit
