SPECIFICATION ClientSpec
CONSTANTS
    ParentOf <- MCParents
    Inclusions <- MCInclusions
    Invalidities <- MCInvalidities
    MaxOthers = 0
    Parent <- MCParent
    Content <- MCContent
    MaxLosses = 1
    ParentIn <- MCParentIn
    MaxTurns = 2
    MaxJumps = 1
    Metadatas <- MCMetadatas
    Requests <- MCRequests
    KindOf <- MCKindOf
    Eras <- MCEras
    ParentAt <- MCParentAt
    NonceAt <- MCNonceAt
    MaxLeaps = 1
    MaxRefusals = 1
    Signatories = {"a", "b", "c"}
    KeyOf <- MCKeyOf
    Thresholds = {1, 2, 3}
    MaxAttempts = 2
    Stacks <- MCStacks
    LedgerCalls <- MCLedgerCalls
    MaxDenied = 1
INVARIANTS
    DroppedBlocksAreDropped
CHECK_DEADLOCK FALSE
