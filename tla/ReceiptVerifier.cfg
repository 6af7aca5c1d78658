SPECIFICATION Spec
CONSTANTS
    None = None
    Empty = Empty
    Malformed = Malformed
    Consumers = {p1}
    Actions <- MCActions
    Receipts <- MCReceipts
    Policies <- MCPolicies
    Results <- MCResults
    Backends = {TRUE, FALSE}
INVARIANTS
    TypeOK
    ReuseIsJustified
    RevocationIsHonoured
    RevokedIsExplained
    DecisionIsDocumented
