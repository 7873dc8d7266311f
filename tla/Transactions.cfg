SPECIFICATION ClientSpec
CONSTANTS
    ParentOf <- MCParents
    Inclusions <- MCInclusions
    Invalidities <- MCInvalidities
    MaxOthers = 1
    Parent <- MCParent
    Content <- MCContent
    MaxLosses = 1
    ParentIn <- MCParentIn
    MaxTurns = 2
    MaxJumps = 1
    Metadatas <- MCMetadatas
    Requests <- MCRequests
    KindOf <- MCKindOf
    Eras <- MCEras
    ParentAt <- MCParentAt
    NonceAt <- MCNonceAt
    MaxLeaps = 1
    MaxRefusals = 1
    Signatories = {"a", "b", "c", "d"}
    KeyOf <- MCKeyOf
    Thresholds = {1, 3}
    MaxAttempts = 2
    Stacks <- MCStacks
    LedgerCalls <- MCLedgerCalls
    MaxDenied = 1
INVARIANTS
    FateIsRight
    EntriesAreRight
    EventsAreRight
    TransactionsAreRight
    NoncesAreRight
    MultisigsAreRight
    LedgerIsRight
PROPERTIES
    TransactionsComeThrough
CHECK_DEADLOCK FALSE
