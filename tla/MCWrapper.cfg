SPECIFICATION Spec
CONSTANTS
    NULL = NULL
    w1 = w1
    w2 = w2
    x1 = x1
    Weights = {w1, w2}
    Inputs = {x1}
    NumArgs <- MCNumArgs
    NumResults <- MCNumResults
    Faults <- MCFaults
    MAX_MODEL_INPUT_NUM = 2
    MAX_MODEL_OUTPUTS = 2
    MaxFailures = 2
INVARIANTS
    WrapperCallsTypeOK
    NothingDangles
    OwnedIsHeld
    OnlyFailuresLose
PROPERTIES
    ReturnsAsSpecified
