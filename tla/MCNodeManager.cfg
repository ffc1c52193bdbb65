\* One driver thread that polls for ever; kills and respawns may fail.
SPECIFICATION FairSpec
CONSTANTS
    Node = {n1}
    MaxRestarts = 1
    KillFails = TRUE
    SpawnFails = TRUE
INVARIANTS NoOrphan NothingSurvivesTerminate
PROPERTY CrashesAreAnswered
