SPECIFICATION ViewsSpec
CONSTANTS
    MaxSources = 2
    MaxBuses = 2
    MaxEdges = 1
    MaxOutputs = 1
    MinLevel = 0
    MaxLevel = 1
    MaxIds = 2
    MaxNotices = 1
INVARIANTS
    ViewsAgree
PROPERTIES
    GestureIsTold
