SPECIFICATION Spec
CONSTANTS
    FrameNumber <- SmallFrames
    ThreadCount = {1, 2, 3, 4, 5}
INVARIANTS
    TypeOK
    Partition
    Balanced
    ClosedForm
