CONSTANTS
    main = main  callee = callee  other = other  gen = gen
    global = global  r1 = r1  r2 = r2
    x = x  s = s  undef = undef  v = v  unbound = unbound
    Frames <- ThreeFrames
    Generators = {}
    Records <- ThreeRecords
    Names = {x}
    Slots = {}
    Values <- TwoValues
    Main = main
    GlobalRecord = global
    Undefined = undef
    Unbound = unbound
    FastSlots = {}
    Suspends = {}
    CatchVar = FALSE
SPECIFICATION Spec
INVARIANT NamesInnermost
PROPERTY ScopeChainSpec
CONSTRAINT TwoFunctions
CHECK_DEADLOCK FALSE
