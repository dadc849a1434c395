SPECIFICATION Spec
CONSTANTS
    Worker = {w1, w2}
    Requester = {r}
    Module = module
    NoWorker = noWorker
    File = {f1, f2}
    Hash = {h1, h2}
    NoHash = noHash
    Malformed = malformed
    SignedInput <- AnySigned
    TaskSpec <- TwoFrames
    Stake = {1}
    MinWorkerStaking = 1
    MaxWorkersPerThread = 2
    InitialBalance = 5
    MaxTasks = 1
    MaxValidations = 3
    MaxWins = 1
SYMMETRY Symmetry
INVARIANTS
    ValidationNeedsSolution
    RevealIsAllOrNothing
PROPERTIES
    SolutionStable
