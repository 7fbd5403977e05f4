SPECIFICATION FairSpec
CONSTANTS
    Loop = Loop
    h1 = h1
    h2 = h2
    Helpers = {h1, h2}
    Faults = {"display", "visual", "colormap", "window", "context", "current"}
    AtomExists = FALSE
    MaxRequests = 1
    MaxEvents = 1
PROPERTY CloseEndsLoop
CHECK_DEADLOCK FALSE
