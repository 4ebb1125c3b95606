CONSTANTS
    Group = {g1, g2}
    Global = Global
    KeyPackage = {1, 2}
    ProposalRef = {1}
    Entry <- MCEntry
    Epoch <- MCEpoch
    Worker = {foreground, extension}
SPECIFICATION Spec
INVARIANTS
    SnapshotsAccepted
    QueueAgrees
    EpochKeysCurrent
    NoOrphans
PROPERTY ImplementsRowStore
CHECK_DEADLOCK FALSE
