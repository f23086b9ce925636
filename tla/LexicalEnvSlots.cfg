CONSTANTS
    main = main  callee = callee  other = other  gen = gen
    global = global  r1 = r1  r2 = r2
    x = x  s = s  undef = undef  v = v  unbound = unbound
    Frames <- ThreeFrames
    Generators = {gen}
    Records <- ThreeRecords
    Names = {}
    Slots = {s}
    Values <- TwoValues
    Main = main
    GlobalRecord = global
    Undefined = undef
    Unbound = unbound
    FastSlots = {s}
    Suspends = {"await", "yield"}
    CatchVar = FALSE
SPECIFICATION Spec
INVARIANTS TypeOK ScopeTree SlotsPrivate SlotsInnermost
PROPERTY ScopeChainSpec
CONSTRAINT TwoFunctions
CHECK_DEADLOCK FALSE
