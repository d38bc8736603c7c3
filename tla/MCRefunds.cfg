\* Three handlers on two connections race two refunds of which only one fits,
\* and their retries.
SPECIFICATION FairSpec
CONSTANTS
    sale = sale
    refund1 = refund1
    refund2 = refund2
    other = other
    madrid = madrid
    lima = lima
    nowhere = nowhere
    coffee = coffee
    tea = tea
    nothing = nothing
    plain = plain
    bignum = bignum
    t1 = t1
    t2 = t2
    t3 = t3
    Nobody = Nobody
    NoEvent = NoEvent
    NoRow = NoRow
    NoPayload = NoPayload
    Stores <- MCStores
    Products <- MCProducts
    Codes <- MCCodes
    Skus <- MCSkus
    Infos <- MCInfos
    RoundTrip <- Exact
    PyValue <- Exact
    Tasks = {t1, t2, t3}
    EventIds = {sale, refund1, refund2}
    Payloads <- RefundPayloads
    PoolSize = 2
    MaxBigInt = 2
    MaxTime = 0
INVARIANTS
    IInv
    RefundLimits
    AcceptedOnce
    LocksEnd
    NoDeadlock
PROPERTIES
    ExactRetryHonoured
    FirstAnswered
