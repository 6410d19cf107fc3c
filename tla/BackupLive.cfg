CONSTANTS
    Proc = {p1, p2}
    Source = {s1}
    Text = {t1}
    OpId = {o1, o2, o3}
    MaxLines = 2
    PowerLossAllowed = FALSE
    TruncateAllowed = FALSE
    None = none
SPECIFICATION FairSpec
PROPERTIES
    LinesEventuallySeen
    ImplementsFairLedger
