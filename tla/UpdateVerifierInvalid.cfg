CONSTANTS
    CareMaps <- MCCareMaps
    Corruptions <- MCCorruptions
    VerityModes = {"enforcing", "eio", "EIO", "logging"}
    DevBlocks = 6
    BLOCKSIZE = 8
    UINT_BITS = 5
    MaxBoots = 3
SPECIFICATION Spec
INVARIANT SuccessOnlyIfMarked
