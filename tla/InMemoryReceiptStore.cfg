SPECIFICATION Spec
CONSTANTS
    Clients = {c1, c2}
    Digests = {d1, d2}
INVARIANTS
    TypeOK
    AnswersMatchRevocation
PROPERTY
    ImplementsContract
