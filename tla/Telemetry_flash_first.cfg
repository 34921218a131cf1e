SPECIFICATION FairSpec
CONSTANTS
    SensorPriority = 1
    FlashPriority = 2
    Size = 2
    MaxNaps = 1
INVARIANT TypeOK
INVARIANT RecordValid
INVARIANT SavedAtMostTwice
INVARIANT SavedBeforeClose
PROPERTY BufferAsScheduled
PROPERTY ImplementsRegister
PROPERTY KeepsSaving
PROPERTY ShutdownHonoured
