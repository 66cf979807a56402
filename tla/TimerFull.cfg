SPECIFICATION FairSpec
CONSTANTS
    CounterMod = 8
    SafeWindow = 3
    Timers <- MCTwoTimers
    Repeated <- MCRepeated
    Delays = {3, 6}
    HandlerCalls <- MCAny
    FullAPI = TRUE
    QueueSize = 2
    MayOverflow = FALSE
    Latency = 1
    MaxTicks = 9
    Idle = 999
    None = None
    t1 = t1
    t2 = t2
    t3 = t3
INVARIANTS
    ClockIsRight
    MatchInWindow
    ListedOnce
PROPERTIES
    IrqReturns
