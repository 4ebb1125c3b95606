CONSTANTS
    Installation = {a, b}
    Founder = {a, b}
    MaxEpoch = 3
    MaxCandidate = 1
SPECIFICATION FairSpec
INVARIANTS
    Agreement
PROPERTIES
    RowsNeverReplaced
    CatchesUp
    SendsAgain
CHECK_DEADLOCK FALSE
