SPECIFICATION Spec
CONSTANTS
    Programs <- LocalInLoop
    MaxLength = 2
    MaxEvents = 9
    SameMethods = TRUE
INVARIANT RunsAsWritten
CHECK_DEADLOCK FALSE
