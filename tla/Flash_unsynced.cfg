SPECIFICATION MCSpec
CONSTANTS
    BlockSize = 144
    RecordSize = 108
    Blocks = 4
    MaxBoots = 2
    GrownFile = 2400
    ChipBlock = 131072
    ChipBlocks = 33
    Margin = 9
INVARIANT LosesAtMostABlock
