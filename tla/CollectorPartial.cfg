CONSTANTS
    Lines <- MCLines
    MaxBytes = 6
SPECIFICATION Spec
INVARIANTS
    NoPartialRecords
