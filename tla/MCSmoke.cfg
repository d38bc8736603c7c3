\* Two simulators; the run of the harness ends, so TLC may find no next step.
SPECIFICATION FairSpec
CONSTANTS
    madrid = madrid
    london = london
    Services = {madrid, london}
    Backend = Backend
CHECK_DEADLOCK FALSE
INVARIANTS
    IInv
    WritersBarred
    PassIsClean
PROPERTIES
    HarnessEnds
