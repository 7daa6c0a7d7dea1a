SPECIFICATION Spec
SYMMETRY Interchangeable
CONSTANTS
    Sessions = {c1, c2, c3, c4}
    Readers = {r1}
    MaxSessions = 3
    MaxSnapshotBytes = 2
    MaxTotalSnapshotBytes = 5
    None = None
INVARIANTS
    TypeOK
    BudgetExact
    BytesBounded
    SessionsBounded
