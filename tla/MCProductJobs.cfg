\* One process at a time, one worker, two sessions, a restart.
SPECIFICATION Spec
CONSTANTS
    Service = {s1}
    Session = {x1, x2}
    Job = {j1, j2}
    WorkerCount = 1
    MaxStarts = 2
CHECK_DEADLOCK FALSE
INVARIANTS
    ActiveIsHeld
PROPERTIES
    CancelsStayInSession
    JobsEnd
