SPECIFICATION FairSpec
CONSTANTS
    CounterMod = 12
    SafeWindow = 5
    Timers <- MCTwoTimers
    Repeated <- MCRepeated
    Delays = {5, 8}
    HandlerCalls <- MCOwn
    FullAPI = FALSE
    QueueSize = 2
    MayOverflow = FALSE
    Latency = 2
    MaxTicks = 18
    Idle = 999
    None = None
    t1 = t1
    t2 = t2
    t3 = t3
INVARIANTS
    TypeOK
    ClockIsRight
    MatchInWindow
    NeverForgotten
    ListedOnce
    SortedOut
PROPERTIES
    ImplementsService
