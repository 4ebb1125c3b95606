CONSTANTS
    Self = Self
    p1 = p1
    p2 = p2
    Peer = {p1, p2}
    Retention = 2
    Tolerance = 2
    Forward = 1
    LeafSets <- MCLeafSets
    Message <- MCMessage
    KeyPackage = {"k1"}
    Welcome <- MCWelcome
    MaxEpoch = 2
    MaxSent = 1
    Foreground = {app, isolate}
    Extension = {}
SYMMETRY MCSymmetry
SPECIFICATION InstSpec
INVARIANT
    DigestNamesLife
PROPERTY
    ImplementsLifecycle
