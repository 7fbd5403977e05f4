CONSTANT Tasks <- MCTasks
CONSTANT Instrs <- MCInstrs
CONSTANT Past <- MCPast
CONSTANT LongLong = 67108864
CONSTANT ArgLimit = 67108864
SPECIFICATION LibrarySpec
CHECK_DEADLOCK FALSE
INVARIANT Undone
INVARIANT Standard
INVARIANT ChunksKept
INVARIANT BitsKept
INVARIANT Reassembled
