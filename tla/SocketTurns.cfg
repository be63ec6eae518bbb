SPECIFICATION FairSpec
CONSTANTS
    max_retries = 5
    MaxEvents = 4
INVARIANTS OverflowIsTold BilledIsDelivered
PROPERTIES RelaysOneAttempt EveryTurnEnds
CHECK_DEADLOCK FALSE
