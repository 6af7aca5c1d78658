SPECIFICATION Spec
CONSTANTS
    None = None
    Empty = Empty
    Malformed = Malformed
INVARIANTS
    FollowsProtocolTable
    ReusesExactlyOnEvidence
    AgreeWithoutEmptyTexts
    TypeScriptIsStricter
    RevocationIsUniversal
CHECK_DEADLOCK FALSE
