\* One simulator; the backend is left stopped.
SPECIFICATION Spec
CONSTANTS
    madrid = madrid
    london = london
    Services = {madrid}
    Backend = Backend
CHECK_DEADLOCK FALSE
INVARIANTS
    BackendRestored
