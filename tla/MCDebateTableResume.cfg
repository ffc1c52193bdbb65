\* A pause that arrives when a rotation is due leaves the event set after Resume.
SPECIFICATION TableSpec
CONSTANTS
    Seats = 3
    Topic = {t1, t2}
    Rotate = 3
    AnchorEvery = 2
    Silent = {2}
PROPERTY
    ResumedTableSpeaks
