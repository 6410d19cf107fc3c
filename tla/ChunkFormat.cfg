CONSTANTS
    Raw <- MCRaw
    Secret = {a, b, c}
    Limits <- MCLimits
    None = none
SPECIFICATION Spec
SYMMETRY MCSymmetry
INVARIANTS
    TypeOK
    RestoredAsArchived
    CountsAgree
    ChunksFilled
    EitherSecretUnlocks
