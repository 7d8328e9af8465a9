SPECIFICATION ModelSpec
CONSTANTS
    NULL = NULL
    w1 = w1
    w2 = w2
    x1 = x1
    x2 = x2
    xLong = xLong
    Weights = {w1, w2}
    Inputs = {x1, x2, xLong}
    NumArgs <- MCNumArgs
    NumResults <- MCNumResults
    Faults <- IreeCalls
    MAX_MODEL_INPUT_NUM = 2
    MAX_MODEL_OUTPUTS = 2
    TypeLabels = {"f32", "f8"}
    Structs <- AllStructs
    InputLen <- MCInputLen
    MAX_MODEL_INPUT_DIM = 4
    SIZE_MODULUS = 8
    MAX_OUTPUT_SIZE = 6
INVARIANTS
    ModelTypeOK
    ContextWhole
    DeviceBehindState
    ResultsOfContext
    NoResultBeforeInput
PROPERTIES
    NoStageSkipped
