SPECIFICATION FairSpec
CONSTANTS
    Pending = {1, 2}
    Default = {}
    Schemas = {"f"}
    Payloads = {"a"}
    RowsOf <- MCRowsOf
    None = None
    MaxStreams = 1
    MaxRows = 1
    MaxCopies = 2
    MaxGroups = 2
    MaxRestarts = 1
    MayClose = FALSE
INVARIANTS
    StreamSlots
PROPERTIES
    OrphanReclaimed
