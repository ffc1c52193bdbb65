\* Three seats, one of them silent; rotation after three turns, anchor every two.
SPECIFICATION TableSpec
CONSTANTS
    Seats = 3
    Topic = {t1, t2}
    Rotate = 3
    AnchorEvery = 2
    Silent = {2}
INVARIANTS
    NotesStayInTopic
PROPERTIES
    NoTurnWhilePaused
    TopicIsHeard
    TableGoesOn
