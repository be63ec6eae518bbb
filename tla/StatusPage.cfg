SPECIFICATION FairSpec
CONSTANTS
    o1 = o1
    o2 = o2
    Origins = {o1, o2}
    OUTAGE_FAIL_THRESHOLD = 3
    WARMUP_PROBES = 2
    MaxCount = 3
    MaxRestarts = 1
INVARIANTS OutageIsMeasured
PROPERTIES OutageIsPublished RecoveryIsPublished
