CONSTANTS
    FrameKinds = {"async", "generator"}
    MaxNesting = 4
    SuspendsInTry = FALSE
    CatchCalls = FALSE
SPECIFICATION Spec
INVARIANTS TypeOK ScopesBalanced
PROPERTY CompletionsSpec
CHECK_DEADLOCK FALSE
