SPECIFICATION FairSpec
CONSTANTS
    Clients = {c1, c2}
    Digests = {d1}
    Garbage = Garbage
    NoRow = NoRow
    Nobody = Nobody
PROPERTY
    LockIsReleased
