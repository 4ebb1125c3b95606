CONSTANTS
    Self = Self
    p1 = p1
    p2 = p2
    Peer = {p1, p2}
    Retention = 2
    Tolerance = 2
    Forward = 1
    LeafSets <- ReceiveLeafSets
    Message <- ReceiveMessages
    KeyPackage = {"k1", "k2"}
    Welcome <- ReceiveWelcomes
    MaxEpoch = 4
    MaxSent = 0
\* The bounds leave states in which only a bounded counter stops the group.
CHECK_DEADLOCK FALSE
SPECIFICATION Spec
INVARIANTS
    PlaintextOnce
    RetainedInStep
    DeliverableExactlyOnce
    ErrorsTruthful
