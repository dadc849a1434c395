SPECIFICATION FairNodeSpec
CONSTANTS
    Worker = {me}
    Requester = {r}
    Module = module
    NoWorker = noWorker
    File = {"frame_000001.png"}
    Hash = {h1}
    NoHash = noHash
    Malformed = malformed
    SignedInput <- AllSigned
    TaskSpec <- OneFrame
    Stake = {1}
    MinWorkerStaking = 1
    MaxWorkersPerThread = 2
    InitialBalance = 5
    MaxTasks = 1
    MaxValidations = 3
    MaxWins = 2
    Me = me
    MinReward = 1
    FrameFile <- OneFileName
    Rendering = h1
    Faults = {"docker"}
    MaxGoroutines = 1
    MaxLagging = 0
PROPERTIES
    FailedWorkStartsOver
