SPECIFICATION Spec
CONSTANTS
    Programs <- MCPrograms
    MaxLength = 2
    MaxEvents = 9
    SameMethods = TRUE
INVARIANTS
    TypeOK
    RunsAsWritten
    ScopesAsWritten
CHECK_DEADLOCK FALSE
