CONSTANTS
    ToneBlocks = {b1, b2, b3, b4}
    BlocksPerTone = 30
SPECIFICATION ToneSpec
INVARIANT ToneHasItsPitch
CHECK_DEADLOCK FALSE
