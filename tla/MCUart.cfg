SPECIFICATION Spec
CONSTANTS
    TimerModulus = 8
    Timeout = 3
    MaxStep = 1
    FifoDepth = 2
    MaxBytes = 4
    MaxLength = 2
    TxDepth = 1
    MaxWritten = 2
INVARIANTS
    UartTypeOK
    TimeoutIsPrompt
    NoSilentLoss
    WrittenGoesOut
PROPERTIES
    TimeoutIsGenuine
    CallsEnd
