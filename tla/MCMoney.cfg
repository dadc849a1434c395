SPECIFICATION FairSpec
CONSTANTS
    Worker = {w1, w2}
    Requester = {r}
    Module = module
    NoWorker = noWorker
    File = {f1}
    Hash = {h1}
    NoHash = noHash
    Malformed = malformed
    SignedInput <- AllSigned
    TaskSpec <- OneFrameCheap
    Stake = {2, 4}
    MinWorkerStaking = 2
    MaxWorkersPerThread = 2
    InitialBalance = 3
    MaxTasks = 2
    MaxValidations = 1
    MaxWins = 2
INVARIANTS
    TypeOK
    MoneyIsWon
    WinsCoverCompletions
PROPERTIES
    CompletedThreadsCompleteTask
