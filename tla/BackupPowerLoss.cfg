CONSTANTS
    Proc = {p1}
    Source = {s1}
    Text = {t1, t2}
    OpId = {o1, o2, o3, o4}
    MaxLines = 2
    PowerLossAllowed = TRUE
    TruncateAllowed = TRUE
    None = none
SPECIFICATION Spec
SYMMETRY IdSymmetry
INVARIANTS
    ArchiveInv
    SeenRecoverable
    MissingChunksArePending
    NoDuplicates
PROPERTIES
    ImplementsLedger
