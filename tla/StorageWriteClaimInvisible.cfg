SPECIFICATION Spec
CONSTANTS
    Pending = {1}
    Default = {}
    Schemas = {"f"}
    Payloads = {"a"}
    RowsOf <- MCRowsOf
    None = None
    MaxStreams = 1
    MaxRows = 1
    MaxCopies = 2
    MaxGroups = 1
    MaxRestarts = 0
    MayClose = FALSE
INVARIANTS
    UncommittedInvisible
