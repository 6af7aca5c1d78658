SPECIFICATION Spec
CONSTANTS
    None = None
    Empty = Empty
    Malformed = Malformed
    Threads = {t1}
    Calls <- MCValidatedCalls
    Policy <- MCPolicy
    Values = {"x"}
    Times = {1}
    Backends = {TRUE, FALSE}
    MaxCalls = 3
INVARIANT
    OnlySuccessfulReadsAreRecorded
