SPECIFICATION FairSpec
CONSTANTS
    Blocks = {0, 1}
    Pages = 2
    Data = {d}
    Erased = erased
INVARIANT TypeOK
INVARIANT OkMeansDoneUnlessFailed
PROPERTY OthersKept
PROPERTY ImplementsDevice
PROPERTY NoByteMatchesUntouched
PROPERTY CallsReturn
