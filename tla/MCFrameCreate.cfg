SPECIFICATION Spec
CONSTANTS
    Loop = Loop
    h1 = h1
    h2 = h2
    Helpers = {h1, h2}
    Faults = {"display", "visual", "colormap", "window", "context", "current"}
    AtomExists = TRUE
    MaxRequests = 0
    MaxEvents = 0
INVARIANT CreatedMeansUsable
CHECK_DEADLOCK FALSE
