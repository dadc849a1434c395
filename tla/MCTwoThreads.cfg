SPECIFICATION Spec
CONSTANTS
    Worker = {w1, w2}
    Requester = {r}
    Module = module
    NoWorker = noWorker
    File = {f1}
    Hash = {h1, h2}
    NoHash = noHash
    Malformed = malformed
    SignedInput <- AllSigned
    TaskSpec <- TwoThreads
    Stake = {1}
    MinWorkerStaking = 1
    MaxWorkersPerThread = 2
    InitialBalance = 5
    MaxTasks = 1
    MaxValidations = 2
    MaxWins = 1
SYMMETRY Symmetry
INVARIANTS
    ActiveWorkerIsMember
    NoWorkerOnCompletedThread
    AcceptedIsSupported
    VotesCounted
    OthersValidateOnce
    TaskCompletion
PROPERTIES
    CompletedThreadIsFinal
    ImplementsLifecycle
