SPECIFICATION Spec
CONSTANTS
    Bindings <- MCBindings
    Founder <- MCFounder
    Additions <- MCAdditions
    MaxList = 2
    MaxLeaves = 3
    MaxEpoch = 3
INVARIANTS DeltaIsExact WithinCapacity
PROPERTIES OnlyAsDecided
CHECK_DEADLOCK FALSE
