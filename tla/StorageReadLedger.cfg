SPECIFICATION FairSpec
CONSTANTS
    Sessions = {c1, c2}
    Readers = {r1, r2}
    MaxSessions = 2
    MaxSnapshotBytes = 1
    MaxTotalSnapshotBytes = 2
    None = None
INVARIANTS
    ReadsOpenSnapshots
    LedgerServed
PROPERTIES
    RefusedForever
    EndedForever
    ExpiredReclaimed
