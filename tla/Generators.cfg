CONSTANTS
    g = g  h = h  u = u  v = v  undef = undef
    Generators <- TwoGenerators
    Bodies <- FourBodies
    Sent <- TwoValues
    Undefined = undef
    MaxCallDepth = 3
    MaxRecursive = 2
    MaxWork = 4
SPECIFICATION Spec
INVARIANT TypeOK
PROPERTIES StaysFinished GeneratorObjectsSpec
