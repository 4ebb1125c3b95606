SPECIFICATION Spec
CONSTANTS
    Forever = 9
    Founders <- MCFoundersApart
    Lifetimes <- MCLifetimesApart
    Member = 0
    Bindings <- MCBindings
    Candidates = 2
    MaxEpoch = 2
    MaxTime = 1
    MaxLife = 1
INVARIANTS VerifiedIsExact ResyncPossible OrderedReceivable AcceptedPromotes PromotedOnLine
CHECK_DEADLOCK FALSE
