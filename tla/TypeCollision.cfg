SPECIFICATION Spec
CONSTANTS
    NNodes = 1
    NodeForms <- NoForms
    MaxDepth = 0
    MaxChanges = 0
    MaxQueries = 0
    NTypes = 5
    Forms <- TwoEnums
    NDefs = 0
    Definitions = {}
    Extrinsics = {}
    Inputs = {}
INVARIANTS
    DifferentGetDifferent
CHECK_DEADLOCK FALSE
