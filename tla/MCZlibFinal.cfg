CONSTANT BLOCK_MAX = 3
CONSTANT Sizes <- MCSizes
SPECIFICATION ZlibSpec
CHECK_DEADLOCK FALSE
INVARIANT LastIsFinal
