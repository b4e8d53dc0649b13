\* One run, on its caller's thread or the runner's own.
SPECIFICATION FairSpec
CONSTANTS
    Callers = {c1}
    Own = own
    MaxRuns = 1
    MaxAsks = 4
    MaxGiveUps = 2
INVARIANTS NeverFreedOpen
PROPERTIES NoFrameWhilePaused PauseIsApplied StopFinishes DestroyEnds
CHECK_DEADLOCK FALSE
