\* Metadata that JSONB does not give back as it was sent.
SPECIFICATION Spec
CONSTANTS
    sale = sale
    refund1 = refund1
    refund2 = refund2
    other = other
    madrid = madrid
    lima = lima
    nowhere = nowhere
    coffee = coffee
    tea = tea
    nothing = nothing
    plain = plain
    bignum = bignum
    t1 = t1
    t2 = t2
    t3 = t3
    Nobody = Nobody
    NoEvent = NoEvent
    NoRow = NoRow
    NoPayload = NoPayload
    Stores <- MCStores
    Products <- MCProducts
    Codes <- MCCodes
    Skus <- MCSkus
    Infos <- MCInfos
    RoundTrip <- Jsonb
    PyValue <- Exact
    Tasks = {t1}
    EventIds = {sale}
    Payloads <- BignumPayloads
    PoolSize = 1
    MaxBigInt = 2
    MaxTime = 0
PROPERTIES
    ExactRetryHonoured
