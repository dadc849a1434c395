SPECIFICATION ProgressSpec
CONSTANTS
    Worker = {me}
    Requester = {r}
    Module = module
    NoWorker = noWorker
    File = {"frame_000001.png", "frame_000002.png", "frame_000003.png"}
    Hash = {h1}
    NoHash = noHash
    Malformed = malformed
    SignedInput <- AllSigned
    TaskSpec <- OneOrTwoThreads
    Stake = {1}
    MinWorkerStaking = 1
    MaxWorkersPerThread = 2
    InitialBalance = 5
    MaxTasks = 2
    MaxValidations = 3
    MaxWins = 3
    Me = me
    MinReward = 1
    FrameFile <- ThreeFileNames
    Rendering = h1
    Faults = {}
    MaxGoroutines = 1
    MaxLagging = 0
INVARIANTS
    ProposalIsWhole
PROPERTIES
    TaskGetsDone
