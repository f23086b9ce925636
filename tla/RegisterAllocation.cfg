CONSTANTS
    Registers <- ThreeRegisters
    Programs <- Frames
    AllocationLimit = 7
SPECIFICATION FairSpec
INVARIANTS TypeOK ReadsAgree LivenessExact FrameSmallest
PROPERTY Allocates
CHECK_DEADLOCK FALSE
