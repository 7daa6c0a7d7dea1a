SPECIFICATION FairSpec
CONSTANTS
    Streams = {1}
    Writers = {"w"}
    Committers = {"c"}
    Request <- MCRequest
    Cleaner = {"sweep"}
    Closer = {}
    None = None
PROPERTIES
    CallsReturn
CHECK_DEADLOCK FALSE
