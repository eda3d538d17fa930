CONSTANTS
    StartOrder <- MCStart
    StopOrder <- MCStop
    Gated = {"rotation"}
    TicksAtStart = {"credit"}
    Refreshes = 2
    p1 = p1
    u1 = u1
    Worker = Worker
SPECIFICATION AnySpec
PROPERTIES
    RunAndStop
    PolicyAdvances
    ReceiverCatchesUp
    AlertFollowsVerdict
CHECK_DEADLOCK FALSE
