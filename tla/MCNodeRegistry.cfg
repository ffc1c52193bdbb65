\* The registry, its durable log and two processes that read it: the whole state space.
SPECIFICATION Spec
CONSTANTS
    Key = {k1}
    Client = {c1, c2}
INVARIANTS CacheAgreesWithLog RowsFollowSpawn
PROPERTY ImplementsNodeLife
