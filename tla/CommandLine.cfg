SPECIFICATION Spec
CONSTANTS
    Documents <- ReceiptDocuments
    Observed <- MCObserved
    Invocations <- MCInvocations
    Trusted <- MCTrusted
    Heads <- MCHeads
INVARIANTS
    GateOpensExactlyOnEvidence
    DecidesOnlyWrittenReceipts
