\* One page, two sockets, one writer, one change.
SPECIFICATION FairSpec
CONSTANTS
    s1 = s1
    s2 = s2
    b1 = b1
    NoSocket = NoSocket
    Sockets = {s1, s2}
    Writers = {b1}
    MaxChanges = 1
    Requests = {1, 2}
INVARIANTS
    IInv
    TypeOK
    TellingInv
    SingleFlight
    QuietAfterUnmount
    OneSocket
PROPERTIES
    NeverBackwards
    RefreshCatchesUp
    Pushed
    Converges
    BroadcastEnds
