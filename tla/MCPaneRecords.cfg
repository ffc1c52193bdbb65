\* Two sessions of a pane, three emitters, two of them at work at a time.
SPECIFICATION Spec
CONSTANTS
    Emitter = {e1, e2, e3}
    MaxAtWork = 2
    Session = {s1, s2}
SYMMETRY Symmetry
INVARIANTS ChainIsUnbroken PidsAreTheSessions LiveRecordsAreOpen
CHECK_DEADLOCK FALSE
