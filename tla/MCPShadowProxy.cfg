SPECIFICATION Spec
CONSTANTS
    None = None
    Empty = Empty
    Malformed = Malformed
    Threads = {t1, t2}
    Calls <- MCCalls
    Policy <- MCPolicy
    Values = {"x", "y"}
    Times = {1}
    Backends = {TRUE, FALSE}
    MaxCalls = 3
SYMMETRY ThreadSymmetry
INVARIANTS
    TypeOK
    IndexIsBacked
    PriorIsAlwaysFound
    WouldReuseIsJustified
    ComparisonIsHonest
    ReturnedMeansExecutedOnce
    OnlyEligibleCallsAreRecorded
