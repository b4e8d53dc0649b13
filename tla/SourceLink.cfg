\* Every fault and abandonment, both kinds of source; what must eventually happen.
SPECIFICATION FairSpec
CONSTANTS
    Captures = {c1, c2}
    NoCap = NoCap
    ExcludeKinds <- BothKinds
    StartFaults = TRUE
    MaxPid = 3
    MaxFaults = 2
    First = 1
    Ceiling = 2
    HeldCeiling = 1
INVARIANTS NoUseAfterFree HeldIsSilent
PROPERTIES StaleExclusionTornDown Recovers RecoveryIsTold
CHECK_DEADLOCK FALSE
