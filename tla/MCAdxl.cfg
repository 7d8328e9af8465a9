SPECIFICATION AccelSpec
CONSTANTS
    Registers <- MCRegisters
    MaxCount = 2
    MaxTransfers = 4
    FmtDepth = 4
    RxDepth = 3
    ADXL345_DATA_X0 = 1
    DataSize = 2
    Uninitialised = Uninitialised
INVARIANTS
    Adxl345TypeOK
    WritesLand
    ReadsIfKeptUp
    SampleWhole
    SampleInOrder
CHECK_DEADLOCK FALSE
