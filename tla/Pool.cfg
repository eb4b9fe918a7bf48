CONSTANTS
    Databases = {d1, d2}
    Generations = 3
    Threads = {p1, p2}
    CacheSize = 1
    PoolSize = 2
SPECIFICATION Spec
INVARIANTS ConnectionsInOrder CacheInOrder EvictedIsClosed
PROPERTY RequestEnds
