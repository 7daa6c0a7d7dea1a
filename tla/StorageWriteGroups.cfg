SPECIFICATION Spec
CONSTANTS
    Pending = {1, 2}
    Default = {}
    Schemas = {"f"}
    Payloads = {"a"}
    RowsOf <- MCRowsOf
    None = None
    MaxStreams = 2
    MaxRows = 1
    MaxCopies = 2
    MaxGroups = 2
    MaxRestarts = 0
    MayClose = FALSE
INVARIANTS
    ExactlyOnce
PROPERTIES
    CommittedForever
