SPECIFICATION FairSpec
CONSTANTS
    Streams = {1, 2}
    Writers = {}
    Committers = {"c1"}
    Request <- MCRequest
    Cleaner = {}
    Closer = {"close"}
    None = None
PROPERTIES
    CleanupReturns
CHECK_DEADLOCK FALSE
