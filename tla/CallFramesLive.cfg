CONSTANTS
    run1 = run1  run2 = run2  cell1 = cell1
    f = f  g = g  p = p  none = none
    Runs <- OneRun
    FreshCells <- OneCell
    Functions <- TwoFunctions
    AsyncFunctions <- OneAsync
    Awaits <- OneAwait
    None = none
    MaxCallDepth = 3
    MaxRecursive = 2
    StepLimits = {0, 2}
    UsizeMax = 3
    HostEntries = {"call", "read"}
    AsyncCallbacks = TRUE
SPECIFICATION FairSpec
INVARIANT RecursionBounded
PROPERTY Terminates
CHECK_DEADLOCK FALSE
