SPECIFICATION FairSpec
CONSTANTS
    SensorPriority = 2
    FlashPriority = 1
    Size = 2
    MaxNaps = 1
PROPERTY KeepsSaving
