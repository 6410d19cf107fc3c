CONSTANTS
    Initiator = {p1, p2, p3}
    WithFile = {p1, p2}
    Source = {s1, s2}
    MaxChunks = 2
    None = none
SPECIFICATION FairSpec
INVARIANTS
    PublicationInv
    ListedChunksPresent
    RecoveryFileOpens
    OwnRows
PROPERTIES
    LiveRowsKept
    NewKeyAlone
    EventuallyMarked
    RemoteCatchesUp
