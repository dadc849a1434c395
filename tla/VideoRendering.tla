--------------------------- MODULE VideoRendering ---------------------------
(***************************************************************************)
(* The consensus state of the videoRendering Cosmos module: the message    *)
(* handlers of keeper/msg_server.go and the state that BeginBlock and      *)
(* EndBlock of module/module.go write.  Every node executes these steps    *)
(* in the same order, so the chain is one sequential process; what is      *)
(* concurrent is the order in which the transactions of requesters and     *)
(* workers are delivered.                                                  *)
(*                                                                         *)
(* A handler that returns an error, or panics on a nil dereference, has    *)
(* its writes reverted by the SDK.  Each handler is therefore a guard, the *)
(* operator ...OK, and an action that takes the whole effect: a refused    *)
(* transaction is a stuttering step.                                       *)
(*                                                                         *)
(* X_... is a wrong version of definition X, as a slip in the code would   *)
(* make it.  No specification uses it: it stands in for X to show that a   *)
(* property notices.                                                       *)
(***************************************************************************)
EXTENDS Frames, Sequences, FiniteSets

CONSTANTS
    Worker,              \* addresses that may register as workers
    Requester,           \* addresses that create tasks
    Module,              \* the account of the module, ModuleName
    NoWorker,            \* ProposedBy of a thread whose Solution is nil
    File,                \* names of frame files
    Hash,                \* hashes of the pixels of a rendered frame
    NoHash,              \* "", the hash of a frame that is not revealed
    Malformed,           \* a signature, or a key, that does not decode
    SignedInput,         \* what the SubmitValidation messages sign, file by file
    TaskSpec,            \* startFrame, endFrame, threads, reward of a request
    Stake,               \* amounts that AddWorker messages offer
    MinWorkerStaking,    \* parameters of the module
    MaxWorkersPerThread,
    InitialBalance,      \* coins of every account but the module's
    \* Bounds on what grows without one in the code; Next alone uses them.
    MaxTasks, MaxValidations, MaxWins

Account == Worker \cup Requester \cup {Module}

ASSUME AccountAssumption ==
    /\ Module \notin Worker \cup Requester
    /\ NoWorker \notin Worker
    /\ IsFiniteSet(Worker)   \* addresses have a bounded length

ASSUME HashAssumption == NoHash \notin Hash /\ Malformed \notin Hash

SignedFrames == UNION {[S -> Hash \cup {Malformed}] : S \in SUBSET File}

ASSUME SignedInputAssumption == SignedInput \subseteq SignedFrames

ASSUME TaskSpecAssumption ==
    TaskSpec \subseteq [startFrame: Int, endFrame: Int, threads: Int, reward: Nat]

ASSUME ParamsAssumption ==
    /\ Stake \subseteq Nat
    /\ MinWorkerStaking \in Nat
    /\ MaxWorkersPerThread \in Nat
    /\ InitialBalance \in Nat

ASSUME BoundAssumption == MaxTasks \in Nat /\ MaxValidations \in Nat /\ MaxWins \in Nat

VARIABLES
    phase,          \* where the chain is in the current block
    nextId,         \* VideoRenderingTaskInfo.NextId
    tasks,          \* VideoRenderingTasks, a function on the ids stored
    workers,        \* Workers, a function on the registered addresses
    minValidators,  \* Params.MinValidators
    bank            \* balances kept by the bank module

vars == <<phase, nextId, tasks, workers, minValidators, bank>>

-----------------------------------------------------------------------------
(***************************************************************************)
(* Data.  Solution is flattened into its thread: proposedBy # NoWorker     *)
(* stands for Solution # nil.  Solution.Dir is set with completed and is   *)
(* left out, as are cids, public keys, durations and Points, which grows   *)
(* with Solutions.                                                         *)
(***************************************************************************)
Frame == [name: File, hash: Hash \cup {NoHash}, valid: Nat, invalid: Nat]

Validation == [validator: Worker, signed: SignedFrames]

Thread == [startFrame: Int, endFrame: Int, workers: Seq(Worker),
           proposedBy: Worker \cup {NoWorker}, frames: Seq(Frame),
           accepted: BOOLEAN, validations: Seq(Validation), completed: BOOLEAN]

Task == [completed: BOOLEAN, reward: Nat, threads: Seq(Thread)]

WorkerRecord == [task: Nat, thread: Nat, staked: Nat, solutions: Nat, winnings: Nat]

\* The empty task id: CurrentTaskId of an idle worker, and the key of the
\* zero task that EndBlock stores.  Created tasks are numbered from 1.
EmptyId == 0

EmptyTask == [completed |-> TRUE, reward |-> 0, threads |-> <<>>]

Put(f, k, v) == [x \in DOMAIN f \cup {k} |-> IF x = k THEN v ELSE f[x]]

Elements(s) == {s[i] : i \in DOMAIN s}

ThreadExists(t, i) == t \in DOMAIN tasks /\ i \in DOMAIN tasks[t].threads

PutThread(t, i, thread) == [tasks EXCEPT ![t].threads[i] = thread]

\* CurrentTaskId = "" and CurrentThreadIndex = 0; threads are numbered from 1 here.
Released(worker) == [worker EXCEPT !.task = EmptyId, !.thread = 1]

DeclareWinner(worker, payment) ==
    [Released(worker) EXCEPT !.solutions = @ + 1, !.winnings = @ + payment]

Transfer(from, to, amount) == [bank EXCEPT ![from] = @ - amount, ![to] = @ + amount]

-----------------------------------------------------------------------------
NewThread(spec, i) ==
    [startFrame |-> ThreadStart(spec.startFrame, spec.endFrame, spec.threads, i),
     endFrame |-> ThreadStart(spec.startFrame, spec.endFrame, spec.threads, i + 1) - 1,
     workers |-> <<>>, proposedBy |-> NoWorker, frames |-> <<>>,
     accepted |-> FALSE, validations |-> <<>>, completed |-> FALSE]

GenerateThreads(spec) == [i \in 1 .. spec.threads |-> NewThread(spec, i)]

WinnerReward(task) == (task.reward \div 2) \div Len(task.threads)

-----------------------------------------------------------------------------
(***************************************************************************)
(* Judging a solution against the validations of its thread.               *)
(***************************************************************************)
\* Validation v of the thread signs a file of the name of frame f.
Signs(thread, f, v) == thread.frames[f].name \in DOMAIN thread.validations[v].signed

SignedHash(thread, f, v) == thread.validations[v].signed[thread.frames[f].name]

Broken(thread, f, v) == Signs(thread, f, v) /\ SignedHash(thread, f, v) = Malformed

\* The nested loops return at the first signature or key that does not decode.
Reached(thread, f, v) ==
    \A g \in DOMAIN thread.frames, u \in DOMAIN thread.validations :
        Broken(thread, g, u) => g > f \/ (g = f /\ u > v)

Votes(thread, f) ==
    {v \in DOMAIN thread.validations : Signs(thread, f, v) /\ Reached(thread, f, v)}

\* A signature is valid for the revealed hash when that hash was signed.
ValidVotes(thread, f) ==
    {v \in Votes(thread, f) : SignedHash(thread, f, v) = thread.frames[f].hash}

EvaluateVerifications(thread) ==
    [thread EXCEPT !.frames = [f \in DOMAIN thread.frames |->
        [thread.frames[f] EXCEPT
            !.valid = @ + Cardinality(ValidVotes(thread, f)),
            !.invalid = @ + Cardinality(Votes(thread, f) \ ValidVotes(thread, f))]]]

\* Two valid votes make a frame valid, one when a single worker has the thread;
\* a fifth of the frames, rounded down but at least one, must be valid.
IsSolutionAccepted(thread) ==
    LET needed == IF Len(thread.workers) = 1 THEN 1 ELSE 2
        valid == {f \in DOMAIN thread.frames : thread.frames[f].valid >= needed}
        fifth == Len(thread.frames) \div 5
    IN  /\ thread.frames # <<>>
        /\ Cardinality(valid) >= IF fifth = 0 THEN 1 ELSE fifth

EnoughValidations(thread) ==
    Len(thread.validations) > 1 \/ Len(thread.validations) = Len(thread.workers)

ReadyToEvaluate_AgainWhenAccepted(thread) ==
    /\ EnoughValidations(thread)
    /\ ~thread.completed
    /\ thread.proposedBy # NoWorker
    /\ thread.frames # <<>> /\ thread.frames[1].hash # NoHash

ReadyToEvaluate(thread) ==
    /\ EnoughValidations(thread)
    /\ ~thread.completed
    /\ thread.proposedBy # NoWorker
    /\ ~thread.accepted
    /\ thread.frames # <<>> /\ thread.frames[1].hash # NoHash

AcceptedNow(thread) ==
    ReadyToEvaluate(thread) /\ IsSolutionAccepted(EvaluateVerifications(thread))

Walked_AlwaysStored(task) ==
    [task EXCEPT !.threads = [i \in DOMAIN task.threads |->
        IF ReadyToEvaluate(task.threads[i])
        THEN [EvaluateVerifications(task.threads[i]) EXCEPT
                  !.accepted = AcceptedNow(task.threads[i])]
        ELSE task.threads[i]]]

\* The walk over one task.  The counts live in the task read from the store and
\* are written back with the whole task, when this or a later thread is accepted.
Walked(task) ==
    LET n == Len(task.threads)
        stored(i) == \E j \in i .. n : AcceptedNow(task.threads[j])
        walkedThread(i) ==
            IF ReadyToEvaluate(task.threads[i]) /\ stored(i)
            THEN [EvaluateVerifications(task.threads[i]) EXCEPT
                      !.accepted = AcceptedNow(task.threads[i])]
            ELSE task.threads[i]
    IN  IF task.completed THEN task
        ELSE [task EXCEPT !.threads = [i \in 1 .. n |-> walkedThread(i)]]

AllThreadsCompleted(task) == \A i \in DOMAIN task.threads : task.threads[i].completed

-----------------------------------------------------------------------------
(***************************************************************************)
(* Message handlers.                                                       *)
(***************************************************************************)
\* The cid is taken to be valid.  threads = 0 divides by zero and a negative
\* number panics in make.  An escrow that fails is ignored.
CreateVideoRenderingTaskOK(spec) == spec.threads > 0

CreateVideoRenderingTask_Overdraws(requester, spec) ==
    /\ phase = "deliver"
    /\ CreateVideoRenderingTaskOK(spec)
    /\ nextId' = nextId + 1
    /\ tasks' = Put(tasks, nextId, [completed |-> FALSE, reward |-> spec.reward,
                                    threads |-> GenerateThreads(spec)])
    /\ bank' = Transfer(requester, Module, spec.reward)
    /\ UNCHANGED <<phase, workers, minValidators>>

CreateVideoRenderingTask(requester, spec) ==
    /\ phase = "deliver"
    /\ CreateVideoRenderingTaskOK(spec)
    /\ nextId' = nextId + 1
    /\ tasks' = Put(tasks, nextId, [completed |-> FALSE, reward |-> spec.reward,
                                    threads |-> GenerateThreads(spec)])
    /\ bank' = IF bank[requester] >= spec.reward
               THEN Transfer(requester, Module, spec.reward)
               ELSE bank
    /\ UNCHANGED <<phase, workers, minValidators>>

\* The balance is compared with the minimum; the transfer of the stake itself
\* fails, and reverts the registration, when the balance is short of it.
AddWorkerOK(w, stake) ==
    /\ w \notin DOMAIN workers
    /\ stake >= MinWorkerStaking
    /\ bank[w] >= MinWorkerStaking
    /\ bank[w] >= stake

AddWorker_NotStaked(w, stake) ==
    /\ phase = "deliver"
    /\ AddWorkerOK(w, stake)
    /\ workers' = Put(workers, w, [task |-> EmptyId, thread |-> 1, staked |-> stake,
                                   solutions |-> 0, winnings |-> 0])
    /\ UNCHANGED <<phase, nextId, tasks, minValidators, bank>>

AddWorker(w, stake) ==
    /\ phase = "deliver"
    /\ AddWorkerOK(w, stake)
    /\ workers' = Put(workers, w, [task |-> EmptyId, thread |-> 1, staked |-> stake,
                                   solutions |-> 0, winnings |-> 0])
    /\ bank' = Transfer(w, Module, stake)
    /\ UNCHANGED <<phase, nextId, tasks, minValidators>>

\* Whether the worker is idle is not asked here, only by the node that sends this.
SubscribeWorkerToTaskOK(w, t, i) ==
    /\ w \in DOMAIN workers
    /\ ThreadExists(t, i)
    /\ ~tasks[t].completed
    /\ Len(tasks[t].threads[i].workers) < MaxWorkersPerThread
    /\ ~tasks[t].threads[i].completed
    /\ w \notin Elements(tasks[t].threads[i].workers)

SubscribeWorkerToTask_NoIndex(w, t, i) ==
    /\ phase = "deliver"
    /\ SubscribeWorkerToTaskOK(w, t, i)
    /\ tasks' = PutThread(t, i, [tasks[t].threads[i] EXCEPT !.workers = Append(@, w)])
    /\ workers' = [workers EXCEPT ![w].task = t]
    /\ UNCHANGED <<phase, nextId, minValidators, bank>>

SubscribeWorkerToTask(w, t, i) ==
    /\ phase = "deliver"
    /\ SubscribeWorkerToTaskOK(w, t, i)
    /\ tasks' = PutThread(t, i, [tasks[t].threads[i] EXCEPT !.workers = Append(@, w)])
    /\ workers' = [workers EXCEPT ![w].task = t, ![w].thread = i]
    /\ UNCHANGED <<phase, nextId, minValidators, bank>>

\* The names of the files are not compared with the frames of the thread, and
\* the signatures that come with them are stored but verified nowhere.
ProposeSolutionOK_Replaces(w, t, i, names) ==
    /\ w \in DOMAIN workers
    /\ ThreadExists(t, i)
    /\ ~tasks[t].completed
    /\ w \in Elements(tasks[t].threads[i].workers)
    /\ Len(names) = tasks[t].threads[i].endFrame - tasks[t].threads[i].startFrame + 1

ProposeSolutionOK(w, t, i, names) ==
    /\ w \in DOMAIN workers
    /\ ThreadExists(t, i)
    /\ ~tasks[t].completed
    /\ tasks[t].threads[i].proposedBy = NoWorker
    /\ w \in Elements(tasks[t].threads[i].workers)
    /\ Len(names) = tasks[t].threads[i].endFrame - tasks[t].threads[i].startFrame + 1

ProposeSolution(w, t, i, names) ==
    /\ phase = "deliver"
    /\ ProposeSolutionOK(w, t, i, names)
    /\ tasks' = PutThread(t, i, [tasks[t].threads[i] EXCEPT
           !.proposedBy = w,
           !.frames = [f \in DOMAIN names |->
               [name |-> names[f], hash |-> NoHash, valid |-> 0, invalid |-> 0]]])
    /\ UNCHANGED <<phase, nextId, workers, minValidators, bank>>

\* The message carries a file=cid:hash entry per frame; entries of one name
\* collapse into the map "revealed", and only the first frame of a name is set.
Revealed(thread, revealed) ==
    [f \in DOMAIN thread.frames |->
        IF /\ thread.frames[f].name \in DOMAIN revealed
           /\ \A g \in 1 .. f - 1 : thread.frames[g].name # thread.frames[f].name
        THEN [thread.frames[f] EXCEPT !.hash = revealed[thread.frames[f].name]]
        ELSE thread.frames[f]]

RevealSolutionOK_Partly(w, t, i, revealed) ==
    /\ i = workers[w].thread /\ workers[w].task = t /\ ~tasks[t].completed
    /\ ~tasks[t].threads[i].accepted
    /\ tasks[t].threads[i].proposedBy = w

RevealSolutionOK_AfterAcceptance(w, t, i, revealed) ==
    /\ i = workers[w].thread /\ workers[w].task = t /\ ~tasks[t].completed
    /\ tasks[t].threads[i].proposedBy = w
    /\ \A f \in DOMAIN tasks[t].threads[i].frames :
           Revealed(tasks[t].threads[i], revealed)[f].hash # NoHash

RevealSolutionOK(w, t, i, revealed) ==
    LET thread == tasks[t].threads[i]
    IN  /\ t \in DOMAIN tasks
        /\ w \in DOMAIN workers
        /\ workers[w].task = t
        /\ ~tasks[t].completed
        /\ i = workers[w].thread /\ i \in DOMAIN tasks[t].threads
        /\ thread.proposedBy # NoWorker
        /\ ~thread.accepted
        /\ thread.proposedBy = w
        /\ w \in Elements(thread.workers)
        /\ DOMAIN revealed \subseteq {thread.frames[f].name : f \in DOMAIN thread.frames}
        /\ \A f \in DOMAIN thread.frames : Revealed(thread, revealed)[f].hash # NoHash

RevealSolution(w, t, i, revealed) ==
    /\ phase = "deliver"
    /\ RevealSolutionOK(w, t, i, revealed)
    /\ tasks' = PutThread(t, i, [tasks[t].threads[i] EXCEPT
           !.frames = Revealed(tasks[t].threads[i], revealed)])
    /\ UNCHANGED <<phase, nextId, workers, minValidators, bank>>

SubmitValidationOK_NilSolution(w, t, i) ==
    /\ t \in DOMAIN tasks /\ workers[w].task = t /\ i = workers[w].thread
    /\ ~tasks[t].completed
    /\ w \in Elements(tasks[t].threads[i].workers)

\* Nothing keeps a worker from validating twice, or before the reveal, or after
\* the acceptance.  Reading Solution.ProposedBy after the append panics, and so
\* reverts it, while there is no solution.
SubmitValidationOK(w, t, i) ==
    /\ t \in DOMAIN tasks
    /\ w \in DOMAIN workers
    /\ workers[w].task = t
    /\ ~tasks[t].completed
    /\ i = workers[w].thread /\ i \in DOMAIN tasks[t].threads
    /\ w \in Elements(tasks[t].threads[i].workers)
    /\ tasks[t].threads[i].proposedBy # NoWorker

SubmitValidation_NotReleased(w, t, i, signed) ==
    /\ phase = "deliver"
    /\ SubmitValidationOK(w, t, i)
    /\ tasks' = PutThread(t, i, [tasks[t].threads[i] EXCEPT
           !.validations = Append(@, [validator |-> w, signed |-> signed])])
    /\ UNCHANGED <<phase, nextId, workers, minValidators, bank>>

SubmitValidation(w, t, i, signed) ==
    /\ phase = "deliver"
    /\ SubmitValidationOK(w, t, i)
    /\ tasks' = PutThread(t, i, [tasks[t].threads[i] EXCEPT
           !.validations = Append(@, [validator |-> w, signed |-> signed])])
    /\ workers' = IF w # tasks[t].threads[i].proposedBy
                  THEN [workers EXCEPT ![w] = Released(@)]
                  ELSE workers
    /\ UNCHANGED <<phase, nextId, minValidators, bank>>

\* Neither the acceptance of the solution nor an earlier submission is checked.
SubmitSolutionOK(w, t, i) ==
    /\ ThreadExists(t, i)
    /\ tasks[t].threads[i].proposedBy # NoWorker
    /\ tasks[t].threads[i].proposedBy = w

SubmitSolution_WinnerOnly(w, t, i) ==
    /\ phase = "deliver"
    /\ SubmitSolutionOK(w, t, i)
    /\ tasks' = PutThread(t, i, [tasks[t].threads[i] EXCEPT !.completed = TRUE])
    /\ workers' = [workers EXCEPT ![w] = [Released(@) EXCEPT !.solutions = @ + 1]]
    /\ UNCHANGED <<phase, nextId, minValidators, bank>>

SubmitSolution_NoRecord(w, t, i) ==
    /\ phase = "deliver"
    /\ SubmitSolutionOK(w, t, i)
    /\ tasks' = PutThread(t, i, [tasks[t].threads[i] EXCEPT !.completed = TRUE])
    /\ workers' = [workers EXCEPT ![w] = Released(@)]
    /\ UNCHANGED <<phase, nextId, minValidators, bank>>

\* The payment is counted as won even when the transfer of it failed.
SubmitSolution(w, t, i) ==
    LET thread == tasks[t].threads[i]
        payment == WinnerReward(tasks[t])
        atThread(v) == v \in Elements(thread.workers) /\ workers[v].task = t /\ workers[v].thread = i
    IN  /\ phase = "deliver"
        /\ SubmitSolutionOK(w, t, i)
        /\ bank' = IF bank[Module] >= payment THEN Transfer(Module, w, payment) ELSE bank
        /\ tasks' = PutThread(t, i, [tasks[t].threads[i] EXCEPT !.completed = TRUE])
        /\ workers' = [v \in DOMAIN workers |->
               IF v = w THEN DeclareWinner(workers[v], payment)
               ELSE IF atThread(v) THEN Released(workers[v])
               ELSE workers[v]]
        /\ UNCHANGED <<phase, nextId, minValidators>>

-----------------------------------------------------------------------------
(***************************************************************************)
(* Block boundaries: what BeginBlock and EndBlock write to the store.      *)
(***************************************************************************)
BeginBlock ==
    LET count == Cardinality(DOMAIN workers)
    IN  /\ phase = "begin"
        /\ phase' = "deliver"
        /\ minValidators' = IF count > 1 /\ count < 7 THEN count ELSE minValidators
        /\ tasks' = [t \in DOMAIN tasks |-> Walked(tasks[t])]
        /\ UNCHANGED <<nextId, workers, bank>>

EndBlock_AnyThread ==
    /\ phase = "deliver"
    /\ phase' = "begin"
    /\ tasks' = Put([t \in DOMAIN tasks |->
                        [tasks[t] EXCEPT !.completed =
                            \E i \in DOMAIN tasks[t].threads : tasks[t].threads[i].completed]],
                    EmptyId, EmptyTask)
    /\ UNCHANGED <<nextId, workers, minValidators, bank>>

EndBlock_LastTaskMissed ==
    /\ phase = "deliver"
    /\ phase' = "begin"
    /\ tasks' = [t \in DOMAIN tasks |->
                    [tasks[t] EXCEPT !.completed =
                        @ \/ (t < nextId - 1 /\ AllThreadsCompleted(tasks[t]))]]
    /\ UNCHANGED <<nextId, workers, minValidators, bank>>

\* The loop starts at id "0", which no task has: the zero task it reads instead
\* has no threads, so it is completed and stored, under the empty id.
EndBlock ==
    /\ phase = "deliver"
    /\ phase' = "begin"
    /\ tasks' = Put([t \in DOMAIN tasks |->
                        [tasks[t] EXCEPT !.completed = @ \/ AllThreadsCompleted(tasks[t])]],
                    EmptyId, EmptyTask)
    /\ UNCHANGED <<nextId, workers, minValidators, bank>>

-----------------------------------------------------------------------------
Init ==
    /\ phase = "begin"
    /\ nextId = 1
    /\ tasks = [t \in {} |-> EmptyTask]
    /\ workers = [w \in {} |-> 0]
    /\ minValidators = 1
    /\ bank = [a \in Account |-> IF a = Module THEN 0 ELSE InitialBalance]

\* The names and frames a message may carry for thread i of task t.
Proposals(t, i) ==
    LET thread == tasks[t].threads[i]
    IN  [1 .. thread.endFrame - thread.startFrame + 1 -> File]

Names(t, i) == {tasks[t].threads[i].frames[f].name : f \in DOMAIN tasks[t].threads[i].frames}

\* What requesters and workers may send.
Request ==
    \E r \in Requester, spec \in TaskSpec :
        nextId <= MaxTasks /\ CreateVideoRenderingTask(r, spec)

Register(w) == \E stake \in Stake : AddWorker(w, stake)

Transaction(w) ==
    \E t \in DOMAIN tasks : \E i \in DOMAIN tasks[t].threads :
        \/ SubscribeWorkerToTask(w, t, i)
        \/ \E names \in Proposals(t, i) : ProposeSolution(w, t, i, names)
        \/ \E S \in SUBSET Names(t, i) :
               \E revealed \in [S -> Hash] : RevealSolution(w, t, i, revealed)
        \/ /\ Len(tasks[t].threads[i].validations) < MaxValidations
           /\ \E signed \in SignedInput : SubmitValidation(w, t, i, signed)
        \/ /\ workers[w].solutions < MaxWins
           /\ SubmitSolution(w, t, i)

Next ==
    \/ BeginBlock
    \/ EndBlock
    \/ Request
    \/ \E w \in Worker : Register(w)
    \/ \E w \in DOMAIN workers : Transaction(w)

Spec == Init /\ [][Next]_vars

\* A chain keeps producing blocks; no transaction is ever certain to come.
FairSpec == Spec /\ WF_vars(BeginBlock) /\ WF_vars(EndBlock)

-----------------------------------------------------------------------------
(***************************************************************************)
(* Properties.                                                             *)
(***************************************************************************)
\* Every stored record has the shape of its message type; no balance is negative.
TypeOK ==
    /\ phase \in {"begin", "deliver"}
    /\ nextId \in Nat \ {EmptyId}
    /\ DOMAIN tasks \subseteq 0 .. nextId - 1
    /\ tasks \in [DOMAIN tasks -> Task]
    /\ DOMAIN workers \subseteq Worker
    /\ workers \in [DOMAIN workers -> WorkerRecord]
    /\ minValidators \in Nat
    /\ bank \in [Account -> Nat]

\* A busy worker points at a thread that exists and lists him.  RevealSolution and
\* SubmitValidation index task.Threads with the pointer before they check anything
\* of the thread, and call the other case "this shouldn't happen".
ActiveWorkerIsMember ==
    \A w \in DOMAIN workers :
        workers[w].task # EmptyId =>
            /\ ThreadExists(workers[w].task, workers[w].thread)
            /\ w \in Elements(tasks[workers[w].task].threads[workers[w].thread].workers)

\* A thread with validations has a solution, and those who proposed and validated
\* are workers of the thread: EndBlock reads Solution.ProposedBy of every thread
\* with enough validations, and a nil there would halt the chain.
ValidationNeedsSolution ==
    \A t \in DOMAIN tasks : \A i \in DOMAIN tasks[t].threads :
        LET thread == tasks[t].threads[i]
        IN  /\ thread.validations # <<>> => thread.proposedBy # NoWorker
            /\ thread.proposedBy # NoWorker => thread.proposedBy \in Elements(thread.workers)
            /\ \A v \in Elements(thread.validations) : v.validator \in Elements(thread.workers)

\* No worker is left on a completed thread: SubmitSolution releases every worker
\* that had not sent a validation, and nobody subscribes afterwards.
NoWorkerOnCompletedThread ==
    \A w \in DOMAIN workers :
        ThreadExists(workers[w].task, workers[w].thread) =>
            ~tasks[workers[w].task].threads[workers[w].thread].completed

\* A solution is revealed for all its frames or for none, however often it is
\* revealed, and BeginBlock, which looks at the first frame, accepts no other.
RevealIsAllOrNothing ==
    \A t \in DOMAIN tasks : \A i \in DOMAIN tasks[t].threads :
        LET thread == tasks[t].threads[i]
            revealed == {f \in DOMAIN thread.frames : thread.frames[f].hash # NoHash}
        IN  /\ revealed \in {{}, DOMAIN thread.frames}
            /\ thread.accepted => revealed # {}

\* Behind every accepted solution stands a validation that signed one of the
\* hashes it has now, although counts outlive a hash that is revealed again.
AcceptedIsSupported ==
    \A t \in DOMAIN tasks : \A i \in DOMAIN tasks[t].threads :
        LET thread == tasks[t].threads[i]
        IN  thread.accepted =>
                \E f \in DOMAIN thread.frames, v \in DOMAIN thread.validations :
                    Signs(thread, f, v) /\ SignedHash(thread, f, v) = thread.frames[f].hash

\* BeginBlock counts the validations of a thread once for each acceptance in the
\* same task that writes them back: its own, or that of a later thread.
VotesCounted ==
    \A t \in DOMAIN tasks : \A i \in DOMAIN tasks[t].threads :
        LET thread == tasks[t].threads[i]
            writers == {j \in DOMAIN tasks[t].threads : j >= i /\ tasks[t].threads[j].accepted}
        IN  \A f \in DOMAIN thread.frames :
                thread.frames[f].valid + thread.frames[f].invalid
                    <= Len(thread.validations) * Cardinality(writers)

\* Only the proposer can validate a thread more than once, although the handler does
\* not look for an earlier validation: whoever else validates is released, and
\* cannot come back to a thread that lists him.
OthersValidateOnce ==
    \A t \in DOMAIN tasks : \A i \in DOMAIN tasks[t].threads :
        LET validations == tasks[t].threads[i].validations
        IN  \A k, l \in DOMAIN validations :
                k # l /\ validations[k].validator = validations[l].validator =>
                    validations[k].validator = tasks[t].threads[i].proposedBy

\* A task is completed only with all its threads; between blocks exactly then.
TaskCompletion ==
    \A t \in DOMAIN tasks :
        /\ tasks[t].completed => AllThreadsCompleted(tasks[t])
        /\ phase = "begin" /\ AllThreadsCompleted(tasks[t]) => tasks[t].completed

\* A worker's coins, with his stake, grow only by what he is recorded to have won:
\* a payment that fails is recorded too, one that is not recorded never happens.
MoneyIsWon ==
    \A w \in DOMAIN workers \ Requester :
        bank[w] + workers[w].staked <= InitialBalance + workers[w].winnings

CompletedBy(w) ==
    UNION {{<<t, i>> : i \in {j \in DOMAIN tasks[t].threads :
                                 /\ tasks[t].threads[j].completed
                                 /\ tasks[t].threads[j].proposedBy = w}}
           : t \in DOMAIN tasks}

\* Each completed thread is recorded as a solution of its proposer, who is still
\* registered; submitting a thread again is recorded again.
WinsCoverCompletions ==
    \A w \in Worker :
        CompletedBy(w) # {} => /\ w \in DOMAIN workers
                               /\ workers[w].solutions >= Cardinality(CompletedBy(w))

\* A proposal is never replaced, an acceptance never withdrawn, and what was
\* accepted (names, hashes and counts) never changes.
SolutionStable ==
    [][\A t \in DOMAIN tasks : \A i \in DOMAIN tasks[t].threads :
          LET before == tasks[t].threads[i]
              after == tasks'[t].threads[i]
          IN  /\ before.proposedBy # NoWorker => after.proposedBy = before.proposedBy
              /\ before.accepted => after.accepted /\ after.frames = before.frames
      ]_vars

\* A completed thread never changes again, although no handler but
\* SubscribeWorkerToTask asks whether the thread it writes to is completed.
CompletedThreadIsFinal ==
    [][\A t \in DOMAIN tasks : \A i \in DOMAIN tasks[t].threads :
          tasks[t].threads[i].completed => tasks'[t].threads[i] = tasks[t].threads[i]
      ]_vars

\* A task whose last thread is completed is itself completed by some EndBlock.
CompletedThreadsCompleteTask ==
    \A t \in 1 .. MaxTasks :
        (t \in DOMAIN tasks /\ AllThreadsCompleted(tasks[t]))
            ~> (t \in DOMAIN tasks /\ tasks[t].completed)

=============================================================================
