CONSTANTS
    Proc = {p1}
    Source = {s1, s2}
    Text = {t1}
    OpId = {o1, o2, o3}
    MaxLines = 1
    PowerLossAllowed = TRUE
    TruncateAllowed = FALSE
    Reader = {r1, v1}
    Restores = {r1}
    CodexSource = {s1}
    MaxDamaged = 1
    None = none
SPECIFICATION ReadersSpec
SYMMETRY OpSymmetry
INVARIANTS
    ReadersTypeOK
    OnlyVerifiedWritten
PROPERTIES
    RejectionsJustified
    DamageDetected
    RestoreIsWhole
    FormerOutputsKept
