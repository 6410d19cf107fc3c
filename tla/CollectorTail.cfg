CONSTANTS
    Lines <- MCLines
    MaxBytes = 7
SPECIFICATION Spec
INVARIANTS
    IncompleteTailDeferred
