SPECIFICATION Spec
CONSTANTS
    Documents <- AlteredDocuments
    MaxCanonicalDepth = 2
    MaxCollectionLength = 2
    MaxNesting = 6
INVARIANTS
    ParsersAgree
    AlterationIsDetected
    ReissueKeepsReceipt
    CanonicalFormsAgree
    SpellingIsImmaterial
CHECK_DEADLOCK FALSE
