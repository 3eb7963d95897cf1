SPECIFICATION FairSpec
CONSTANTS
    Caller = {c1, c2}
    BatchLimit = 2
    Lifetime = 2
    None = None
INVARIANTS
    AnswerComing
    DispatchWithinReservation
    TokenOfOwnJob
PROPERTIES
    EveryCallerReturns
    IssuerFreed
