SPECIFICATION Spec
CONSTANTS
    NNodes = 3
    NodeForms <- MCNodeForms
    MaxDepth = 3
    MaxChanges = 1
    MaxQueries = 2
    NTypes = 4
    Forms <- MCForms
    NDefs = 4
    Definitions <- MCDefinitions
    Extrinsics <- MCExtrinsics
    Inputs <- MCInputs
INVARIANTS
    LevelsAreRight
    ChecksumsTellTypes
    ProofsAreRight
CHECK_DEADLOCK FALSE
