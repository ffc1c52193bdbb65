\* A second process is started over the first: one session, one worker each.
SPECIFICATION Spec
CONSTANTS
    Service = {s1, s2}
    Session = {x1}
    Job = {j1, j2}
    WorkerCount = 1
    MaxStarts = 2
SYMMETRY Interchangeable
CHECK_DEADLOCK FALSE
INVARIANTS
    OneDriver
    CompletedIsAnswered
    CancelHolds
PROPERTIES
    ShownStays
