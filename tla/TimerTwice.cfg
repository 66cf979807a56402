SPECIFICATION Spec
CONSTANTS
    CounterMod = 24
    SafeWindow = 11
    Timers <- MCTwoTimers
    Repeated <- MCRepeated
    Delays = {5}
    HandlerCalls <- MCOwn
    FullAPI = FALSE
    QueueSize = 3
    MayOverflow = FALSE
    Latency = 5
    MaxTicks = 18
    Idle = 999
    None = None
    t1 = t1
    t2 = t2
    t3 = t3
INVARIANTS
    ListedOnce
