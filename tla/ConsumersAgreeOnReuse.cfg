SPECIFICATION Spec
CONSTANTS
    None = None
    Empty = Empty
    Malformed = Malformed
INVARIANTS
    ConsumersAgreeOnReuse
CHECK_DEADLOCK FALSE
