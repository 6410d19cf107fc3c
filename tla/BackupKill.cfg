CONSTANTS
    Proc = {p1, p2}
    Source = {s1, s2}
    Text = {t1}
    OpId = {o1, o2, o3, o4, o5}
    MaxLines = 2
    PowerLossAllowed = FALSE
    TruncateAllowed = FALSE
    None = none
SPECIFICATION Spec
SYMMETRY IdSymmetry
INVARIANTS
    CheckpointInv
    CheckpointMatchesSeen
    ChainValid
    AtMostOnePending
    ManifestChunksPresent
    NoStrayChunks
PROPERTIES
    CheckpointsAdvance
