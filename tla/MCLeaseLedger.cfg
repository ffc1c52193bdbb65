\* Windows: an open lock file cannot be unlinked.  One process leaves a lock
\* behind and the other finds it.
SPECIFICATION FairSpec
CONSTANTS
    Proc = {p1, p2}
    Holder = {h1, h2}
    Node = {n1}
    Session = {s1}
    NoSession = NoSession
    Allowance = 1
    MaxAcquire = 2
    OpenIsUndeletable = TRUE
    SlowWriter = TRUE
INVARIANTS NoLostUpdate WithinAllowance
PROPERTIES ImplementsLeaseBook DeadOwnersLockGoes
CHECK_DEADLOCK FALSE
