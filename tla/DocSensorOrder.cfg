SPECIFICATION Spec
CONSTANTS
    SENSOR_BUFFER_LEN = 3
    SampleSize = 2
    ReadInterval = 3
    TimerModulus = 8
    MaxStep = 2
    MaxIdle = 9
    MaxSamples = 5
    Uninitialised = Uninitialised
INVARIANTS
    OldestFirst
