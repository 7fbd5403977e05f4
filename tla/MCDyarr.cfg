SPECIFICATION Spec
CONSTANTS
    A = A
    B = B
    b1 = b1
    b2 = b2
    b3 = b3
    x = x
    Arrays = {A, B}
    Blocks = {b1, b2, b3}
    Vals = {x}
    Junk = Junk
    Free = Free
    NULL = NULL
    EmptyResize = 1
    MaxCap = 3
SYMMETRY Symmetry
INVARIANTS TypeOK FitsBlock OwnedOnce HeldPointerLive
PROPERTIES ImplementsStore
CHECK_DEADLOCK FALSE
