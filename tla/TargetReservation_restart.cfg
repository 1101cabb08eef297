SPECIFICATION RetriedSpec
CONSTANTS
    Authorities = {r1}
    None = None
    MaxOutside = 0
    MaxFailures = 1
PROPERTY InterruptedCreationSettles
CHECK_DEADLOCK FALSE
