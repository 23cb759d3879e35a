SPECIFICATION MemoryFairSpec
CONSTANTS
    Reads = {r1}
    Urls = {u1}
    PoolSize = 1
    MaxPools = 2
    MaxRefreshes = 0
PROPERTY ShutdownEnds
CHECK_DEADLOCK FALSE
