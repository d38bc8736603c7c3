\* The defaults, in units of five seconds; transactions of at most one unit.
SPECIFICATION Spec
CONSTANTS
    h1 = h1
    h2 = h2
    Nobody = Nobody
    Handlers = {h1, h2}
    Interval = 1
    Timeout = 1
    Threshold = 6
    Lag = 1
    PollInterval = 2
    FetchTime = 1
    MaxSkew = 1
    MaxMisses = 2
SYMMETRY Symmetry
INVARIANTS
    IInv
    OnlineWhileBeating
    SilenceIsShown
