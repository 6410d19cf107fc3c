CONSTANTS
    Lines <- MCLines
    MaxBytes = 8
SPECIFICATION FairSpec
INVARIANTS
    CollectorInv
    ArchivedIsPrefix
PROPERTIES
    TerminatedLinesArchived
