INIT Init
NEXT Next
CONSTANTS
    p1 = p1 p2 = p2 p3 = p3
    appA = appA appA2 = appA2 appB = appB
    nameA = nameA nameB = nameB
    win = win mic = mic mic2 = mic2 usb = usb
    Pids <- MCPids
    Paths <- MCPaths
    Names = {nameA, nameB}
    Classes = {win}
    NameOf <- MCNameOf
    Endpoints = {mic}
    Labels = {usb}
    LabelOf <- MCLabelOf
    Nothing = Nothing
    Foreign <- MCForeign
    Inside <- MCInside
    MaxRunning = 2
    MaxNested = 1
    MaxTakes = 3
    MaxBuses = 2
    MaxSources = 2
    MaxOutputs = 1
    Malformed = Malformed
    OutOfRange = OutOfRange
    Untyped = Untyped
    CommandLines <- MCCommandLines
    Rivals <- MCRivals
    MaxRivals = 1
INVARIANT LossIsShown
SYMMETRY Symmetry
CHECK_DEADLOCK FALSE
