\* One thread that starts and stops, one that calls, drains that wedge, closes given up and tried again.
SPECIFICATION FairSpec
CONSTANTS
    Clients = {c1, c2, c3}
    Starters = {c1}
    Owner = own
    None = None
    AfterStuck = FALSE
    MaxOps = 6
    MaxWedges = 2
    MaxCloses = 3
INVARIANTS NotFreedUnderThread StoppedIsQuiet NobodyWaitsOnThePump
PROPERTIES CallsReturn
CHECK_DEADLOCK FALSE
