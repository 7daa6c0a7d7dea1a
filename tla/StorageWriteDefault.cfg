SPECIFICATION Spec
CONSTANTS
    Pending = {1}
    Default = {0}
    Schemas = {"f"}
    Payloads = {"a"}
    RowsOf <- MCRowsOf
    None = None
    MaxStreams = 1
    MaxRows = 2
    MaxCopies = 3
    MaxGroups = 0
    MaxRestarts = 0
    MayClose = TRUE
INVARIANTS
    DefaultAtLeastOnce
PROPERTIES
    DefaultInOrder
