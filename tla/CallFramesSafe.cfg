CONSTANTS
    run1 = run1  run2 = run2  cell1 = cell1
    f = f  g = g  p = p  none = none
    Runs <- TwoRuns
    FreshCells <- OneCell
    Functions <- TwoFunctions
    AsyncFunctions <- OneAsync
    Awaits <- OneAwait
    None = none
    MaxCallDepth = 2
    MaxRecursive = 2
    StepLimits = {0, 2}
    UsizeMax = 3
    HostEntries = {"call"}
    AsyncCallbacks = TRUE
SPECIFICATION Spec
INVARIANTS TypeOK GuardsBalanced DepthBounded NestingBounded NoStepsFromTheHost
PROPERTY NeverRefilled
CHECK_DEADLOCK FALSE
