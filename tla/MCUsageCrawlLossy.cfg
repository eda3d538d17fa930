CONSTANTS
    Threads = {t1}
    PageSize = 1
    Width = 2
    MaxItems = 0
    MaxPages = 1
    MaxRows = 4
SPECIFICATION Spec
INVARIANT WavesLoseNothing
CHECK_DEADLOCK FALSE
