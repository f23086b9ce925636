CONSTANTS
    f1 = f1  f2 = f2  f3 = f3  f4 = f4  f5 = f5  p1 = p1  p2 = p2  p3 = p3  p4 = p4  p5 = p5
    leaf = leaf  twice = twice  both = both  late = late
    over = over  idle = idle  soon = soon  early = early  eager = eager
    undef = undef  module = module  none = none
    Frames <- FiveFrames
    HostPromises <- FivePromises
    Functions <- AllFunctions
    Variables <- TwoVariables
    Body <- Bodies
    Scripts <- SixScripts
    None = none
    Undefined = undef
    Module = module
    MaxWaits = 2
SPECIFICATION FairSpec
INVARIANTS TypeOK PromisesKept
PROPERTIES AsyncFunctionsSpec EveryCallAnswered
CHECK_DEADLOCK FALSE
