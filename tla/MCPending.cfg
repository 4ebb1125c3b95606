CONSTANTS
    Self = Self
    p1 = p1
    p2 = p2
    Peer = {p1, p2}
    Retention = 2
    Tolerance = 2
    Forward = 1
    LeafSets <- SealLeafSets
    Message <- SealMessages
    KeyPackage = {"k1"}
    Welcome <- SealWelcomes
    MaxEpoch = 3
    MaxSent = 2
\* The bounds leave states in which only a bounded counter stops the group.
CHECK_DEADLOCK FALSE
SPECIFICATION Spec
INVARIANTS
    TypeOK
    SealOnce
    AlwaysLoads
PROPERTY
    RatchetsNeverRewind
