\* One endpoint module, three gestures, two spawns, four listed at most.
SPECIFICATION Spec
CONSTANTS
    ModuleCount = 1
    Spawns = 2
    Threads = 2
    Gestures = 3
    MaxProcesses = 4
INVARIANTS
    UncrossedIsAccounted
    NothingOutlivesTheShell
PROPERTIES
    WrongViewsPass
    StartsEnd
