SPECIFICATION Spec
CONSTANTS
    UartConfigs <- MCUartConfigs
    I2CConfigs <- MCI2CConfigs
    REF_CLOCK = 24000000
    Garbage <- MCGarbage
INVARIANTS
    InitTypeOK
    LineAsConfigured
    TimingsHold
    RunsWhenReady
PROPERTIES
    LineSetWhileQuiet
CHECK_DEADLOCK FALSE
