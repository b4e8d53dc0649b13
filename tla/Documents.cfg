SPECIFICATION Spec
CONSTANTS
    Files = {f1, f2}
    None = None
    MaxOuts = 2
    MaxDepth = 2
INVARIANTS
    GraphOutlivesTake
PROPERTIES
    NothingLostUnasked
