SPECIFICATION Spec
CONSTANTS
    Devices <- MCDevices
    Pins <- MCPins
    BufferSize = 32
    LineSize = 30
    MaxFields = 12
    FieldSize = 3
    Digits = 1
    GgaBursts <- MCGgaBursts
    MixedBursts <- MCMixedBursts
    MaxReceptions = 2
INVARIANT ReadyMeansReceiving
