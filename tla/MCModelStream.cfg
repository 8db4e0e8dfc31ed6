\* Two streams of one adapter, one of which never closes.
SPECIFICATION FairSpec
CONSTANTS
    Streams = {"s1", "s2"}
    Scripts <- SomeScripts
    Hanging = {"s2"}
    OwnsClient = TRUE
INVARIANTS
    EventsFaithful
    NothingLeftOpen
PROPERTIES
    PullReturns
CHECK_DEADLOCK FALSE
