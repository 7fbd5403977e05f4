SPECIFICATION Spec
CONSTANT MaxDepth = 6
INVARIANTS TypeOK CatchStackMirrorsScopes
PROPERTIES ImplementsExceptions
CHECK_DEADLOCK FALSE
