CONSTANT BLOCK_MAX = 3
CONSTANT Sizes <- MCSizes
SPECIFICATION ZlibSpec
CHECK_DEADLOCK FALSE
INVARIANT TypeOK
INVARIANT Partition
INVARIANT FitsRoom
INVARIANT FinalIsLast
INVARIANT RoundTrip
