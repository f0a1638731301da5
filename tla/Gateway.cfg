SPECIFICATION FairSpec
CONSTANTS
    Processes = {p, q}
    Handlers = {h}
    Guilds = {g1, g2}
    BatchSize = 2
    PoolSize = 4
    Losing = {p}
    Busy = {p}
INVARIANTS
    WorkersWithinGuard
    PoolMakesProgress
PROPERTIES
    ShutdownEnds
CHECK_DEADLOCK FALSE
