SPECIFICATION Spec
CONSTANTS
    Streams = {1, 2}
    Writers = {}
    Committers = {"c1", "c2"}
    Request <- MCRequest
    Cleaner = {}
    Closer = {"close"}
    None = None
INVARIANTS
    ReturnsReleased
    CirclesAreInversions
CHECK_DEADLOCK FALSE
