SPECIFICATION Spec
CONSTANTS
    Clients = {c1, c2}
    Digests = {d1, d2}
    Garbage = Garbage
    NoRow = NoRow
    Nobody = Nobody
SYMMETRY ClientSymmetry
INVARIANTS
    TypeOK
    FlagHasMarker
    GetIsSound
    IsRevokedIsCurrent
PROPERTIES
    RevocationIsPermanent
    ImplementsContract
