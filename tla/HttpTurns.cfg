SPECIFICATION FairSpec
CONSTANTS
    r1 = r1
    r2 = r2
    Requests = {r1, r2}
    MAX_UPSTREAM_ATTEMPTS = 2
    DbConnections = 1
    UpstreamConnections = 1
    MaxLines = 1
INVARIANTS MeteredOnce 
PROPERTIES UsageIsBilled DeathIsTold EveryTurnEnds
