SPECIFICATION FairSpec
CONSTANTS
    Pins <- MCPins
    active_state <- MCActiveState
    play1 = play1
    stop = stop
INVARIANTS
    TypeOK
    ToldWhatIs
    PolledUntilIdle
PROPERTIES
    Debounced
    HeldIsReported
    ReleaseIsReported
