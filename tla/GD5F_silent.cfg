SPECIFICATION FairSpec
CONSTANTS
    Blocks = {0, 1}
    Pages = 2
    Data = {d}
    Erased = erased
INVARIANT ErrorsReported
