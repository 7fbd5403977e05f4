CONSTANT Streams <- MCStreams
CONSTANT Headers <- MCHeaders
SPECIFICATION Spec
CHECK_DEADLOCK FALSE
INVARIANT TypeOK
INVARIANT DecodesExactly
INVARIANT ReadableIsRead
INVARIANT TrailerFound
