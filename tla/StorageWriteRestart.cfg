SPECIFICATION Spec
CONSTANTS
    Pending = {1}
    Default = {}
    Schemas = {"f", "g"}
    Payloads = {"a", "b"}
    RowsOf <- MCRowsOf
    None = None
    MaxStreams = 1
    MaxRows = 3
    MaxCopies = 2
    MaxGroups = 2
    MaxRestarts = 1
    MayClose = TRUE
INVARIANTS
    TypeOK
    StartupAccepted
    StagedAhead
    CommittedRowsVisible
    ExactlyOnce
    StreamSlots
    DeletedLeavesNothing
