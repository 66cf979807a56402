SPECIFICATION FairSpec
CONSTANTS
    MaxEvents = 2
    BusyCalls = {"user_mem_reply", "rw_authorize_reply", "answer"}
    max_conn_params_update_count = 3
    None = None
INVARIANTS
    TypeOK
    ModulesAgree
    Reachable
    StartsAdvertisingOnce
    TimerOfLink
    MemoryIsAnswered
    ResetsOnlyWithoutLink
PROPERTIES
    GivesUpLast
    NegotiationEnds
