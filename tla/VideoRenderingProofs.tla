------------------------ MODULE VideoRenderingProofs ------------------------
(***************************************************************************)
(* Proofs about VideoRendering, for every value of its constants.          *)
(***************************************************************************)
EXTENDS VideoRendering, FiniteSetTheorems, TLAPS

-----------------------------------------------------------------------------
(***************************************************************************)
(* Facts about the operators the model is built from.                      *)
(***************************************************************************)
\* A thread written into a task is read back, and nothing else changes.
LEMMA PutThreadFacts ==
    ASSUME tasks \in [DOMAIN tasks -> Task],
           NEW t, NEW i, ThreadExists(t, i), NEW thread \in Thread
    PROVE  /\ DOMAIN PutThread(t, i, thread) = DOMAIN tasks
           /\ PutThread(t, i, thread) \in [DOMAIN tasks -> Task]
           /\ \A u \in DOMAIN tasks :
                  /\ PutThread(t, i, thread)[u].completed = tasks[u].completed
                  /\ DOMAIN PutThread(t, i, thread)[u].threads = DOMAIN tasks[u].threads
           /\ PutThread(t, i, thread)[t].threads[i] = thread
           /\ \A u \in DOMAIN tasks : \A j \in DOMAIN tasks[u].threads :
                  u # t \/ j # i =>
                      PutThread(t, i, thread)[u].threads[j] = tasks[u].threads[j]
<1> DEFINE threads == tasks[t].threads
           put == [threads EXCEPT ![i] = thread]
<1>1. t \in DOMAIN tasks /\ i \in DOMAIN threads /\ tasks[t] \in Task
    BY DEF ThreadExists
<1>2. threads \in Seq(Thread) /\ DOMAIN threads = 1 .. Len(threads) /\ Len(threads) \in Nat
    BY <1>1 DEF Task
<1>3. put \in Seq(Thread) /\ DOMAIN put = DOMAIN threads /\ put[i] = thread
    BY <1>1, <1>2
<1>4. PutThread(t, i, thread) = [tasks EXCEPT ![t] = [tasks[t] EXCEPT !.threads = put]]
    BY <1>1 DEF PutThread
<1>5. /\ [tasks[t] EXCEPT !.threads = put] \in Task
      /\ [tasks[t] EXCEPT !.threads = put].threads = put
      /\ [tasks[t] EXCEPT !.threads = put].completed = tasks[t].completed
    BY <1>1, <1>3 DEF Task
<1>6. \A j \in DOMAIN threads : j # i => put[j] = threads[j]
    BY <1>2
<1> HIDE DEF put
<1>7. DOMAIN PutThread(t, i, thread) = DOMAIN tasks
    BY <1>4
<1>8. PutThread(t, i, thread)[t] = [tasks[t] EXCEPT !.threads = put]
    BY <1>1, <1>4
<1>9. \A u \in DOMAIN tasks : u # t => PutThread(t, i, thread)[u] = tasks[u]
    BY <1>4
<1>10. PutThread(t, i, thread) \in [DOMAIN tasks -> Task]
    BY <1>4, <1>5
<1>11. \A u \in DOMAIN tasks :
           /\ PutThread(t, i, thread)[u].completed = tasks[u].completed
           /\ DOMAIN PutThread(t, i, thread)[u].threads = DOMAIN tasks[u].threads
    BY <1>3, <1>5, <1>8, <1>9
<1>12. PutThread(t, i, thread)[t].threads[i] = thread
    BY <1>3, <1>5, <1>8
<1>13. ASSUME NEW u \in DOMAIN tasks, NEW j \in DOMAIN tasks[u].threads, u # t \/ j # i
       PROVE  PutThread(t, i, thread)[u].threads[j] = tasks[u].threads[j]
    <2>1. CASE u # t
        BY <2>1, <1>9
    <2>2. CASE u = t
        BY <2>2, <1>5, <1>6, <1>8, <1>13
    <2> QED
        BY <2>1, <2>2
<1> QED
    BY <1>7, <1>10, <1>11, <1>12, <1>13

\* The elements of a sequence after an Append.
LEMMA AppendElements ==
    ASSUME NEW S, NEW s \in Seq(S), NEW e \in S
    PROVE  /\ Append(s, e) \in Seq(S)
           /\ Append(s, e) # <<>>
           /\ Elements(Append(s, e)) = Elements(s) \cup {e}
<1>1. Len(s) \in Nat /\ DOMAIN s = 1 .. Len(s)
    OBVIOUS
<1>2. /\ Append(s, e) \in Seq(S)
      /\ DOMAIN Append(s, e) = 1 .. Len(s) + 1
      /\ Append(s, e)[Len(s) + 1] = e
      /\ \A j \in 1 .. Len(s) : Append(s, e)[j] = s[j]
    BY <1>1
<1>3. 1 .. Len(s) + 1 = (1 .. Len(s)) \cup {Len(s) + 1}
    BY <1>1
<1> QED
    BY <1>1, <1>2, <1>3 DEF Elements

\* The sets of votes on a frame are finite, so their sizes are numbers.
LEMMA VotesAreFinite ==
    ASSUME NEW thread \in Thread, NEW f \in DOMAIN thread.frames
    PROVE  /\ Cardinality(ValidVotes(thread, f)) \in Nat
           /\ Cardinality(Votes(thread, f) \ ValidVotes(thread, f)) \in Nat
<1>1. DOMAIN thread.validations = 1 .. Len(thread.validations)
      /\ Len(thread.validations) \in Nat
    BY DEF Thread
<1>2. IsFiniteSet(DOMAIN thread.validations)
    BY <1>1, FS_Interval
<1>3. /\ ValidVotes(thread, f) \subseteq DOMAIN thread.validations
      /\ Votes(thread, f) \ ValidVotes(thread, f) \subseteq DOMAIN thread.validations
    BY DEF Votes, ValidVotes
<1> QED
    BY <1>2, <1>3, FS_Subset, FS_CardinalityType

\* Evaluating the validations of a thread writes counts and nothing else.
LEMMA EvaluateFacts ==
    ASSUME NEW thread \in Thread
    PROVE  LET evaluated == EvaluateVerifications(thread)
           IN  /\ evaluated \in Thread
               /\ DOMAIN evaluated.frames = DOMAIN thread.frames
               /\ \A f \in DOMAIN thread.frames :
                      /\ evaluated.frames[f].name = thread.frames[f].name
                      /\ evaluated.frames[f].hash = thread.frames[f].hash
               /\ evaluated = [thread EXCEPT !.frames = evaluated.frames]
<1> DEFINE counted(f) == [thread.frames[f] EXCEPT
               !.valid = @ + Cardinality(ValidVotes(thread, f)),
               !.invalid = @ + Cardinality(Votes(thread, f) \ ValidVotes(thread, f))]
           frames == [f \in DOMAIN thread.frames |-> counted(f)]
<1>1. thread.frames \in Seq(Frame)
    BY DEF Thread
<1>2. ASSUME NEW f \in DOMAIN thread.frames
      PROVE  /\ counted(f) \in Frame
             /\ counted(f).name = thread.frames[f].name
             /\ counted(f).hash = thread.frames[f].hash
    <2>1. thread.frames[f] \in Frame
        BY <1>1
    <2>2. /\ thread.frames[f].valid + Cardinality(ValidVotes(thread, f)) \in Nat
          /\ thread.frames[f].invalid
                 + Cardinality(Votes(thread, f) \ ValidVotes(thread, f)) \in Nat
        BY <2>1, VotesAreFinite DEF Frame
    <2> QED
        BY <2>1, <2>2 DEF Frame
<1> HIDE DEF counted
<1>3. frames \in Seq(Frame)
    BY <1>1, <1>2
<1>4. EvaluateVerifications(thread) = [thread EXCEPT !.frames = frames]
    BY DEF EvaluateVerifications, counted
<1> HIDE DEF frames
<1>5. /\ [thread EXCEPT !.frames = frames] \in Thread
      /\ [thread EXCEPT !.frames = frames].frames = frames
    BY <1>3 DEF Thread
<1>6. DOMAIN frames = DOMAIN thread.frames /\ \A f \in DOMAIN thread.frames : frames[f] = counted(f)
    BY DEF frames
<1> QED
    BY <1>2, <1>4, <1>5, <1>6

\* BeginBlock's walk over a task keeps its threads, and of each thread everything
\* but the counts and the acceptance; threads that were accepted, completed or
\* without a solution it leaves alone.
LEMMA WalkedFacts ==
    ASSUME NEW task \in Task
    PROVE  /\ Walked(task) \in Task
           /\ Walked(task).completed = task.completed
           /\ Walked(task).reward = task.reward
           /\ DOMAIN Walked(task).threads = DOMAIN task.threads
           /\ task.completed => Walked(task) = task
           /\ \A i \in DOMAIN task.threads :
                  LET before == task.threads[i]
                      after == Walked(task).threads[i]
                  IN  \/ after = before
                      \/ /\ ReadyToEvaluate(before)
                         /\ after = [EvaluateVerifications(before) EXCEPT
                                         !.accepted = AcceptedNow(before)]
<1> DEFINE n == Len(task.threads)
           stored(i) == \E j \in i .. n : AcceptedNow(task.threads[j])
           judged(i) == [EvaluateVerifications(task.threads[i]) EXCEPT
                             !.accepted = AcceptedNow(task.threads[i])]
           walkedThread(i) == IF ReadyToEvaluate(task.threads[i]) /\ stored(i)
                              THEN judged(i) ELSE task.threads[i]
           walked == [i \in 1 .. n |-> walkedThread(i)]
<1>1. task.threads \in Seq(Thread) /\ n \in Nat /\ DOMAIN task.threads = 1 .. n
    BY DEF Task
<1>2. CASE task.completed
    <2>1. Walked(task) = task
        BY <1>2 DEF Walked
    <2> QED
        BY <2>1
<1>3. CASE ~task.completed
    <2>1. Walked(task) = [task EXCEPT !.threads = walked]
        BY <1>3 DEF Walked
    <2>2. ASSUME NEW i \in 1 .. n
          PROVE  walkedThread(i) \in Thread
        <3>1. task.threads[i] \in Thread
            BY <1>1
        <3>2. EvaluateVerifications(task.threads[i]) \in Thread
            BY <3>1, EvaluateFacts
        <3>3. AcceptedNow(task.threads[i]) \in BOOLEAN
            BY DEF AcceptedNow, ReadyToEvaluate, IsSolutionAccepted
        <3>4. judged(i) \in Thread
            BY <3>2, <3>3 DEF Thread
        <3> QED
            BY <3>1, <3>4
    <2>3. walked \in Seq(Thread) /\ DOMAIN walked = 1 .. n
        BY <1>1, <2>2
    <2>4. \A i \in 1 .. n : \/ walked[i] = task.threads[i]
                            \/ ReadyToEvaluate(task.threads[i]) /\ walked[i] = judged(i)
        OBVIOUS
    <2> HIDE DEF walked, judged, walkedThread
    <2>5. /\ Walked(task) \in Task
          /\ Walked(task).completed = task.completed
          /\ Walked(task).reward = task.reward
          /\ Walked(task).threads = walked
        BY <2>1, <2>3 DEF Task
    <2> QED
        BY <1>1, <1>3, <2>3, <2>4, <2>5 DEF judged
<1> QED
    BY <1>2, <1>3

-----------------------------------------------------------------------------
(***************************************************************************)
(* Type correctness, one lemma per action.                                 *)
(***************************************************************************)
\* A coin transfer that is covered leaves natural balances.
LEMMA TransferType ==
    ASSUME bank \in [Account -> Nat], NEW from \in Account, NEW to \in Account, from # to,
           NEW amount \in Nat, bank[from] >= amount
    PROVE  Transfer(from, to, amount) \in [Account -> Nat]
BY DEF Transfer

\* The chain starts with well-formed state.
LEMMA InitType ==
    ASSUME Init
    PROVE  TypeOK
BY ParamsAssumption DEF Init, TypeOK, EmptyId, Account

\* The threads of a new task are well-formed whatever range of frames it asks for,
\* reversed ones included.
LEMMA GenerateThreadsType ==
    ASSUME NEW spec \in TaskSpec, CreateVideoRenderingTaskOK(spec)
    PROVE  [completed |-> FALSE, reward |-> spec.reward, threads |-> GenerateThreads(spec)] \in Task
<1>1. /\ spec.startFrame \in Int /\ spec.endFrame \in Int
      /\ spec.threads \in Nat \ {0} /\ spec.reward \in Nat
    BY TaskSpecAssumption DEF CreateVideoRenderingTaskOK
<1>2. \A a \in Int, b \in Nat \ {0} : Quotient(a, b) \in Int
    BY DEF Quotient
<1>3. \A a \in Int, b \in Nat \ {0} : Remainder(a, b) \in Int
    <2> SUFFICES ASSUME NEW a \in Int, NEW b \in Nat \ {0}
                 PROVE  Remainder(a, b) \in Int
        OBVIOUS
    <2>1. Quotient(a, b) \in Int
        BY <1>2
    <2> QED
        BY <2>1 DEF Remainder
<1>4. ASSUME NEW i \in Int
      PROVE  ThreadStart(spec.startFrame, spec.endFrame, spec.threads, i) \in Int
    <2> DEFINE total == FrameCount(spec.startFrame, spec.endFrame)
    <2>1. total \in Int
        BY <1>1 DEF FrameCount
    <2>2. Quotient(total, spec.threads) \in Int /\ Remainder(total, spec.threads) \in Int
        BY <1>1, <1>2, <1>3, <2>1
    <2>3. Extras(Remainder(total, spec.threads), i) \in Int
        BY <2>2 DEF Extras
    <2> HIDE DEF total
    <2>4. spec.startFrame + (i - 1) * Quotient(total, spec.threads)
              + Extras(Remainder(total, spec.threads), i) \in Int
        BY <1>1, <2>2, <2>3
    <2> QED
        BY <2>4 DEF ThreadStart, total
<1>5. ASSUME NEW i \in 1 .. spec.threads
      PROVE  NewThread(spec, i) \in Thread
    <2>1. /\ ThreadStart(spec.startFrame, spec.endFrame, spec.threads, i) \in Int
          /\ ThreadStart(spec.startFrame, spec.endFrame, spec.threads, i + 1) - 1 \in Int
        BY <1>1, <1>4
    <2> QED
        BY <2>1 DEF NewThread, Thread
<1>6. GenerateThreads(spec) \in Seq(Thread)
    BY <1>1, <1>5 DEF GenerateThreads
<1> QED
    BY <1>1, <1>6 DEF Task

\* A new task leaves the state well-formed, whether or not its escrow was paid.
LEMMA CreateType ==
    ASSUME TypeOK, NEW r \in Requester, NEW spec \in TaskSpec, CreateVideoRenderingTask(r, spec)
    PROVE  TypeOK'
<1> DEFINE task == [completed |-> FALSE, reward |-> spec.reward, threads |-> GenerateThreads(spec)]
<1>1. task \in Task
    BY GenerateThreadsType DEF CreateVideoRenderingTask
<1>2. spec.reward \in Nat /\ r \in Account /\ Module \in Account /\ r # Module
    BY TaskSpecAssumption, AccountAssumption DEF Account
<1>3. bank' \in [Account -> Nat]
    BY <1>2, TransferType DEF TypeOK, CreateVideoRenderingTask
<1> HIDE DEF task
<1>4. tasks' = Put(tasks, nextId, task)
    BY DEF CreateVideoRenderingTask, task
<1>5. DOMAIN tasks' \subseteq 0 .. nextId' - 1 /\ tasks' \in [DOMAIN tasks' -> Task]
    <2>1. nextId \in Nat /\ nextId' = nextId + 1 /\ DOMAIN tasks \subseteq 0 .. nextId - 1
        BY DEF TypeOK, CreateVideoRenderingTask
    <2>2. DOMAIN tasks' = DOMAIN tasks \cup {nextId}
        BY <1>4 DEF Put
    <2>3. tasks' = [x \in DOMAIN tasks' |-> IF x = nextId THEN task ELSE tasks[x]]
        BY <1>4 DEF Put
    <2>4. tasks' \in [DOMAIN tasks' -> Task]
        BY <1>1, <2>2, <2>3 DEF TypeOK
    <2> QED
        BY <2>1, <2>2, <2>4
<1>6. nextId' \in Nat \ {EmptyId}
    BY DEF TypeOK, CreateVideoRenderingTask, EmptyId
<1> QED
    BY <1>3, <1>5, <1>6 DEF TypeOK, CreateVideoRenderingTask

\* A registration leaves the state well-formed: the stake was covered.
LEMMA AddWorkerType ==
    ASSUME TypeOK, NEW w \in Worker, NEW stake \in Stake, AddWorker(w, stake)
    PROVE  TypeOK'
<1>1. stake \in Nat /\ w \in Account /\ Module \in Account /\ w # Module
    BY ParamsAssumption, AccountAssumption DEF Account
<1>2. bank' \in [Account -> Nat]
    BY <1>1, TransferType DEF TypeOK, AddWorker, AddWorkerOK
<1>3. [task |-> EmptyId, thread |-> 1, staked |-> stake, solutions |-> 0, winnings |-> 0]
          \in WorkerRecord
    BY <1>1 DEF WorkerRecord, EmptyId
<1>4. DOMAIN workers' \subseteq Worker /\ workers' \in [DOMAIN workers' -> WorkerRecord]
    BY <1>3 DEF TypeOK, AddWorker, Put
<1> QED
    BY <1>2, <1>4 DEF TypeOK, AddWorker

\* What a handler that rewrites one thread does to the tasks.
LEMMA TasksType ==
    ASSUME TypeOK, NEW t, NEW i, ThreadExists(t, i), NEW thread \in Thread,
           tasks' = PutThread(t, i, thread), nextId' = nextId
    PROVE  DOMAIN tasks' \subseteq 0 .. nextId' - 1 /\ tasks' \in [DOMAIN tasks' -> Task]
BY PutThreadFacts DEF TypeOK

\* A thread that exists is a well-formed thread, under numeric ids.
LEMMA ThreadType ==
    ASSUME TypeOK, NEW t, NEW i, ThreadExists(t, i)
    PROVE  tasks[t] \in Task /\ tasks[t].threads[i] \in Thread /\ t \in Nat /\ i \in Nat
<1>1. t \in DOMAIN tasks /\ i \in DOMAIN tasks[t].threads /\ tasks[t] \in Task /\ t \in 0 .. nextId - 1
    BY DEF ThreadExists, TypeOK
<1>2. tasks[t].threads \in Seq(Thread)
    BY <1>1 DEF Task
<1>3. t \in Nat
    BY <1>1 DEF TypeOK
<1> QED
    BY <1>1, <1>2, <1>3

\* Releasing a worker resets his pointer and nothing else.
LEMMA ReleasedType ==
    ASSUME NEW worker \in WorkerRecord
    PROVE  /\ Released(worker) \in WorkerRecord
           /\ Released(worker).task = EmptyId
           /\ Released(worker).solutions = worker.solutions
           /\ Released(worker).winnings = worker.winnings
BY DEF Released, WorkerRecord, EmptyId

\* Declaring a worker the winner releases him too.
LEMMA DeclareWinnerType ==
    ASSUME NEW worker \in WorkerRecord, NEW payment \in Nat
    PROVE  /\ DeclareWinner(worker, payment) \in WorkerRecord
           /\ DeclareWinner(worker, payment).task = EmptyId
<1> DEFINE r == Released(worker)
<1>1. r \in WorkerRecord /\ r.task = EmptyId
    BY ReleasedType
<1> HIDE DEF r
<1>2. r.solutions + 1 \in Nat /\ r.winnings + payment \in Nat
    BY <1>1 DEF WorkerRecord
<1>3. /\ [r EXCEPT !.solutions = r.solutions + 1, !.winnings = r.winnings + payment] \in WorkerRecord
      /\ [r EXCEPT !.solutions = r.solutions + 1, !.winnings = r.winnings + payment].task = r.task
    BY <1>1, <1>2 DEF WorkerRecord
<1> QED
    BY <1>1, <1>3 DEF DeclareWinner, r

\* A subscription leaves the state well-formed.
LEMMA SubscribeType ==
    ASSUME TypeOK, NEW w \in DOMAIN workers, NEW t, NEW i, SubscribeWorkerToTask(w, t, i)
    PROVE  TypeOK'
<1> DEFINE thread == tasks[t].threads[i]
           written == [thread EXCEPT !.workers = Append(@, w)]
<1>1. ThreadExists(t, i) /\ w \in Worker
    BY DEF SubscribeWorkerToTask, SubscribeWorkerToTaskOK, TypeOK
<1>2. thread \in Thread /\ t \in Nat /\ i \in Nat
    BY <1>1, ThreadType
<1>3. Append(thread.workers, w) \in Seq(Worker)
    BY <1>1, <1>2 DEF Thread
<1>4. written \in Thread
    BY <1>2, <1>3 DEF Thread
<1>5. DOMAIN tasks' \subseteq 0 .. nextId' - 1 /\ tasks' \in [DOMAIN tasks' -> Task]
    BY <1>1, <1>4, TasksType DEF SubscribeWorkerToTask
<1>6. DOMAIN workers' \subseteq Worker /\ workers' \in [DOMAIN workers' -> WorkerRecord]
    BY <1>2 DEF SubscribeWorkerToTask, TypeOK, WorkerRecord
<1> QED
    BY <1>5, <1>6 DEF TypeOK, SubscribeWorkerToTask

\* The frames of a new solution.
LEMMA FramesOfNames ==
    ASSUME NEW names \in Seq(File)
    PROVE  [f \in DOMAIN names |->
               [name |-> names[f], hash |-> NoHash, valid |-> 0, invalid |-> 0]] \in Seq(Frame)
<1> DEFINE frames == [f \in DOMAIN names |->
               [name |-> names[f], hash |-> NoHash, valid |-> 0, invalid |-> 0]]
<1>1. DOMAIN names = 1 .. Len(names) /\ Len(names) \in Nat /\ \A f \in DOMAIN names : names[f] \in File
    OBVIOUS
<1>2. \A f \in 1 .. Len(names) : frames[f] \in Frame
    BY <1>1 DEF Frame
<1>3. frames \in [1 .. Len(names) -> Frame]
    BY <1>1, <1>2
<1> QED
    BY <1>1, <1>3

\* A proposal leaves the state well-formed.
LEMMA ProposeType ==
    ASSUME TypeOK, NEW w \in DOMAIN workers, NEW t, NEW i, NEW names \in Seq(File),
           ProposeSolution(w, t, i, names)
    PROVE  TypeOK'
<1> DEFINE thread == tasks[t].threads[i]
           frames == [f \in DOMAIN names |->
               [name |-> names[f], hash |-> NoHash, valid |-> 0, invalid |-> 0]]
           written == [thread EXCEPT !.proposedBy = w, !.frames = frames]
<1>1. ThreadExists(t, i) /\ w \in Worker
    BY DEF ProposeSolution, ProposeSolutionOK, TypeOK
<1>2. thread \in Thread
    BY <1>1, ThreadType
<1>3. frames \in Seq(Frame)
    BY FramesOfNames
<1> HIDE DEF frames
<1>4. written \in Thread
    BY <1>1, <1>2, <1>3 DEF Thread
<1>5. tasks' = PutThread(t, i, written)
    BY DEF ProposeSolution, frames
<1>6. DOMAIN tasks' \subseteq 0 .. nextId' - 1 /\ tasks' \in [DOMAIN tasks' -> Task]
    BY <1>1, <1>4, <1>5, TasksType DEF ProposeSolution
<1> QED
    BY <1>6 DEF TypeOK, ProposeSolution

\* The names a proposal carries form a sequence.
LEMMA ProposalIsSequence ==
    ASSUME TypeOK, NEW t, NEW i, ThreadExists(t, i), NEW names \in Proposals(t, i)
    PROVE  names \in Seq(File)
<1>1. tasks[t].threads[i].startFrame \in Int /\ tasks[t].threads[i].endFrame \in Int
    BY ThreadType DEF Thread
<1>2. \A n \in Int : \A s \in [1 .. n -> File] : s \in Seq(File)
    <2> SUFFICES ASSUME NEW n \in Int, NEW s \in [1 .. n -> File]
                 PROVE  s \in Seq(File)
        OBVIOUS
    <2>1. CASE n \in Nat
        BY <2>1
    <2>2. CASE n \notin Nat
        <3>1. s \in [1 .. 0 -> File]
            BY <2>2
        <3> QED
            BY <3>1
    <2> QED
        BY <2>1, <2>2
<1>3. tasks[t].threads[i].endFrame - tasks[t].threads[i].startFrame + 1 \in Int
    BY <1>1
<1> QED
    BY <1>2, <1>3 DEF Proposals

\* The frames after a reveal.
LEMMA RevealedFrames ==
    ASSUME NEW thread \in Thread, NEW S, NEW revealed \in [S -> Hash]
    PROVE  Revealed(thread, revealed) \in Seq(Frame)
<1> DEFINE frames == Revealed(thread, revealed)
<1>1. thread.frames \in Seq(Frame)
    BY DEF Thread
<1>2. ASSUME NEW f \in DOMAIN thread.frames
      PROVE  frames[f] \in Frame
    <2>1. thread.frames[f] \in Frame
        BY <1>1
    <2>2. thread.frames[f].name \in S => revealed[thread.frames[f].name] \in Hash
        OBVIOUS
    <2> QED
        BY <2>1, <2>2 DEF Revealed, Frame
<1>3. DOMAIN frames = DOMAIN thread.frames /\ frames = [f \in DOMAIN thread.frames |-> frames[f]]
    BY DEF Revealed
<1> HIDE DEF frames
<1>4. DOMAIN thread.frames = 1 .. Len(thread.frames) /\ Len(thread.frames) \in Nat
    BY <1>1
<1>5. frames \in [1 .. Len(thread.frames) -> Frame]
    BY <1>2, <1>3, <1>4
<1>6. frames \in Seq(Frame)
    BY <1>4, <1>5
<1> QED
    BY <1>6 DEF frames

\* A reveal leaves the state well-formed.
LEMMA RevealType ==
    ASSUME TypeOK, NEW w \in DOMAIN workers, NEW t, NEW i, NEW S, NEW revealed \in [S -> Hash],
           RevealSolution(w, t, i, revealed)
    PROVE  TypeOK'
<1> DEFINE thread == tasks[t].threads[i]
           frames == Revealed(thread, revealed)
           written == [thread EXCEPT !.frames = frames]
<1>1. ThreadExists(t, i)
    BY DEF RevealSolution, RevealSolutionOK, ThreadExists
<1>2. thread \in Thread
    BY <1>1, ThreadType
<1>3. frames \in Seq(Frame)
    BY <1>2, RevealedFrames
<1> HIDE DEF frames
<1>4. written \in Thread
    BY <1>2, <1>3 DEF Thread
<1>5. tasks' = PutThread(t, i, written)
    BY DEF RevealSolution, frames
<1>6. DOMAIN tasks' \subseteq 0 .. nextId' - 1 /\ tasks' \in [DOMAIN tasks' -> Task]
    BY <1>1, <1>4, <1>5, TasksType DEF RevealSolution
<1> QED
    BY <1>6 DEF TypeOK, RevealSolution

\* A validation leaves the state well-formed.
LEMMA SubmitValidationType ==
    ASSUME TypeOK, NEW w \in DOMAIN workers, NEW t, NEW i, NEW signed \in SignedInput,
           SubmitValidation(w, t, i, signed)
    PROVE  TypeOK'
<1> DEFINE thread == tasks[t].threads[i]
           validation == [validator |-> w, signed |-> signed]
           written == [thread EXCEPT !.validations = Append(@, validation)]
<1>1. ThreadExists(t, i) /\ w \in Worker
    BY DEF SubmitValidation, SubmitValidationOK, ThreadExists, TypeOK
<1>2. thread \in Thread
    BY <1>1, ThreadType
<1>3. validation \in Validation
    BY <1>1, SignedInputAssumption DEF Validation
<1>4. Append(thread.validations, validation) \in Seq(Validation)
    BY <1>2, <1>3 DEF Thread
<1>5. written \in Thread
    BY <1>2, <1>4 DEF Thread
<1>6. DOMAIN tasks' \subseteq 0 .. nextId' - 1 /\ tasks' \in [DOMAIN tasks' -> Task]
    BY <1>1, <1>5, TasksType DEF SubmitValidation
<1>7. DOMAIN workers' \subseteq Worker /\ workers' \in [DOMAIN workers' -> WorkerRecord]
    <2>1. Released(workers[w]) \in WorkerRecord
        BY ReleasedType DEF TypeOK
    <2> QED
        BY <2>1 DEF SubmitValidation, TypeOK
<1> QED
    BY <1>6, <1>7 DEF TypeOK, SubmitValidation

\* The winner's share of a reward is a natural number: a task that exists has threads.
LEMMA WinnerRewardType ==
    ASSUME NEW task \in Task, task.threads # <<>>
    PROVE  WinnerReward(task) \in Nat
<1>1. Len(task.threads) \in Nat \ {0}
    BY DEF Task
<1>2. task.reward \div 2 \in Nat
    BY DEF Task
<1>3. \A a \in Nat, b \in Nat \ {0} : a \div b \in Nat
    OBVIOUS
<1> QED
    BY <1>1, <1>2, <1>3 DEF WinnerReward

\* A submission leaves the state well-formed, whether or not the payment succeeded.
LEMMA SubmitSolutionType ==
    ASSUME TypeOK, NEW w \in DOMAIN workers, NEW t, NEW i, SubmitSolution(w, t, i)
    PROVE  TypeOK'
<1> DEFINE thread == tasks[t].threads[i]
           written == [thread EXCEPT !.completed = TRUE]
           payment == WinnerReward(tasks[t])
<1>1. ThreadExists(t, i) /\ w \in Worker
    BY DEF SubmitSolution, SubmitSolutionOK, TypeOK
<1>2. thread \in Thread /\ tasks[t] \in Task
    BY <1>1, ThreadType
<1>3. payment \in Nat
    BY <1>1, <1>2, WinnerRewardType DEF ThreadExists
<1>4. bank' \in [Account -> Nat]
    <2>1. w \in Account /\ Module \in Account /\ w # Module
        BY <1>1, AccountAssumption DEF Account
    <2> QED
        BY <1>3, <2>1, TransferType DEF TypeOK, SubmitSolution
<1>5. written \in Thread
    BY <1>2 DEF Thread
<1>6. DOMAIN tasks' \subseteq 0 .. nextId' - 1 /\ tasks' \in [DOMAIN tasks' -> Task]
    BY <1>1, <1>5, TasksType DEF SubmitSolution
<1>7. ASSUME NEW v \in DOMAIN workers
      PROVE  v \in DOMAIN workers' /\ workers'[v] \in WorkerRecord
    <2>1. workers[v] \in WorkerRecord /\ Released(workers[v]) \in WorkerRecord
        BY ReleasedType DEF TypeOK
    <2>2. DeclareWinner(workers[v], payment) \in WorkerRecord
        BY <1>3, <2>1, DeclareWinnerType
    <2> QED
        BY <2>1, <2>2 DEF SubmitSolution
<1>8. DOMAIN workers' = DOMAIN workers /\ workers' = [v \in DOMAIN workers |-> workers'[v]]
    BY DEF SubmitSolution
<1> QED
    BY <1>4, <1>6, <1>7, <1>8 DEF TypeOK, SubmitSolution

\* BeginBlock leaves the state well-formed.
LEMMA BeginBlockType ==
    ASSUME TypeOK, BeginBlock
    PROVE  TypeOK'
<1>1. DOMAIN tasks' = DOMAIN tasks /\ tasks' \in [DOMAIN tasks' -> Task]
    BY WalkedFacts DEF BeginBlock, TypeOK
<1>2. minValidators' \in Nat
    <2>1. Cardinality(DOMAIN workers) \in Nat
        BY AccountAssumption, FS_Subset, FS_CardinalityType DEF TypeOK
    <2> QED
        BY <2>1 DEF BeginBlock, TypeOK
<1> QED
    BY <1>1, <1>2 DEF BeginBlock, TypeOK

\* A task keeps its shape when its completion is written.
LEMMA TaskCompletedType ==
    ASSUME NEW task \in Task, NEW c \in BOOLEAN
    PROVE  /\ [task EXCEPT !.completed = c] \in Task
           /\ [task EXCEPT !.completed = c].completed = c
           /\ [task EXCEPT !.completed = c].threads = task.threads
BY DEF Task

\* EndBlock leaves the state well-formed, the task under the empty id included.
LEMMA EndBlockType ==
    ASSUME TypeOK, EndBlock
    PROVE  TypeOK'
<1> DEFINE ended(t) == [tasks[t] EXCEPT !.completed = @ \/ AllThreadsCompleted(tasks[t])]
<1>1. EmptyTask \in Task
    BY DEF EmptyTask, Task
<1>2. ASSUME NEW t \in DOMAIN tasks
      PROVE  ended(t) \in Task
    <2>1. tasks[t] \in Task
        BY DEF TypeOK
    <2>2. (tasks[t].completed \/ AllThreadsCompleted(tasks[t])) \in BOOLEAN
        OBVIOUS
    <2> QED
        BY <2>1, <2>2, TaskCompletedType
<1> HIDE DEF ended
<1>3. tasks' = Put([t \in DOMAIN tasks |-> ended(t)], EmptyId, EmptyTask)
    BY DEF EndBlock, ended
<1>4. tasks' \in [DOMAIN tasks \cup {EmptyId} -> Task]
    BY <1>1, <1>2, <1>3 DEF Put
<1>5. DOMAIN tasks \cup {EmptyId} \subseteq 0 .. nextId - 1
    BY DEF TypeOK, EmptyId
<1> QED
    BY <1>4, <1>5 DEF EndBlock, TypeOK

\* Every step of the chain leaves the state well-formed.
LEMMA NextType ==
    ASSUME TypeOK, [Next]_vars
    PROVE  TypeOK'
<1>1. CASE BeginBlock
    BY <1>1, BeginBlockType
<1>2. CASE EndBlock
    BY <1>2, EndBlockType
<1>3. ASSUME NEW r \in Requester, NEW spec \in TaskSpec, CreateVideoRenderingTask(r, spec)
      PROVE  TypeOK'
    BY <1>3, CreateType
<1>4. ASSUME NEW w \in Worker, NEW stake \in Stake, AddWorker(w, stake)
      PROVE  TypeOK'
    BY <1>4, AddWorkerType
<1>5. ASSUME NEW w \in DOMAIN workers, NEW t \in DOMAIN tasks,
             NEW i \in DOMAIN tasks[t].threads,
             \/ SubscribeWorkerToTask(w, t, i)
             \/ \E names \in Proposals(t, i) : ProposeSolution(w, t, i, names)
             \/ \E S \in SUBSET Names(t, i) :
                    \E revealed \in [S -> Hash] : RevealSolution(w, t, i, revealed)
             \/ \E signed \in SignedInput : SubmitValidation(w, t, i, signed)
             \/ SubmitSolution(w, t, i)
      PROVE  TypeOK'
    <2>1. CASE SubscribeWorkerToTask(w, t, i)
        BY <2>1, SubscribeType
    <2>2. ASSUME NEW names \in Proposals(t, i), ProposeSolution(w, t, i, names)
          PROVE  TypeOK'
        BY <2>2, ProposalIsSequence, ProposeType DEF ThreadExists
    <2>3. ASSUME NEW S \in SUBSET Names(t, i), NEW revealed \in [S -> Hash],
                 RevealSolution(w, t, i, revealed)
          PROVE  TypeOK'
        BY <2>3, RevealType
    <2>4. ASSUME NEW signed \in SignedInput, SubmitValidation(w, t, i, signed)
          PROVE  TypeOK'
        BY <2>4, SubmitValidationType
    <2>5. CASE SubmitSolution(w, t, i)
        BY <2>5, SubmitSolutionType
    <2> QED
        BY <1>5, <2>1, <2>2, <2>3, <2>4, <2>5
<1>6. CASE UNCHANGED vars
    BY <1>6 DEF vars, TypeOK
<1> QED
    BY <1>1, <1>2, <1>3, <1>4, <1>5, <1>6 DEF Next, Request, Register, Transaction

\* Every reachable state is well typed.
THEOREM TypeCorrect == Spec => []TypeOK
<1>1. TypeOK /\ [Next]_vars => TypeOK'
    BY NextType
<1> QED
    BY InitType, <1>1, PTL DEF Spec

=============================================================================
