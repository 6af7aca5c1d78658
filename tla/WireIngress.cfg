SPECIFICATION Spec
CONSTANTS
    MaxDepth = 2
    MaxCollection = 2
    KeySymbols = {"a", "quote", "u2028"}
INVARIANTS
    ReadersTypeOK
    NestingIsGuarded
    ReadersAgree
CHECK_DEADLOCK FALSE
