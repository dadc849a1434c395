----------------------- MODULE VideoRenderingHistory -----------------------
(***************************************************************************)
(* What the votes on a thread and the completion of a task go through:     *)
(* consequences of the invariant of VideoRenderingSafety that need one of  *)
(* their own.                                                              *)
(***************************************************************************)
EXTENDS VideoRenderingSafety

-----------------------------------------------------------------------------
(***************************************************************************)
(* Completion of tasks.                                                    *)
(***************************************************************************)
\* Within a block no handler completes a task, and no thread of a completed task
\* ever changes.
LEMMA CompletionKept ==
    ASSUME TaskCompletion, Evolves, phase' # "begin",
           \A t \in DOMAIN tasks : tasks'[t].completed => tasks[t].completed,
           \A t \in DOMAIN tasks' : t \notin DOMAIN tasks => ~tasks'[t].completed
    PROVE  TaskCompletion'
<1> SUFFICES ASSUME NEW t \in DOMAIN tasks', tasks'[t].completed
             PROVE  AllThreadsCompleted(tasks'[t])
    BY DEF TaskCompletion
<1>1. t \in DOMAIN tasks /\ AllThreadsCompleted(tasks[t])
    BY DEF TaskCompletion
<1> QED
    BY <1>1 DEF Evolves, TaskStep, ThreadStep, AllThreadsCompleted

\* What a worker may send about a thread.
Handles(w, t, i) ==
    \/ SubscribeWorkerToTask(w, t, i)
    \/ \E names \in Proposals(t, i) : ProposeSolution(w, t, i, names)
    \/ \E S \in SUBSET Names(t, i) :
           \E revealed \in [S -> Hash] : RevealSolution(w, t, i, revealed)
    \/ \E signed \in SignedInput : SubmitValidation(w, t, i, signed)
    \/ SubmitSolution(w, t, i)

\* A handler that a worker calls writes one well-formed thread, and only
\* SubmitValidation its validations.
LEMMA HandlerWrites ==
    ASSUME IInv, NEW w \in DOMAIN workers, NEW t \in DOMAIN tasks,
           NEW i \in DOMAIN tasks[t].threads, Handles(w, t, i)
    PROVE  \E written \in Thread :
               /\ tasks' = PutThread(t, i, written)
               /\ \/ written.validations = tasks[t].threads[i].validations
                  \/ \E signed \in SignedInput : SubmitValidation(w, t, i, signed)
<1> DEFINE thread == tasks[t].threads[i]
<1>1. TypeOK /\ ThreadExists(t, i) /\ w \in Worker
    BY DEF IInv, TypeOK, ThreadExists
<1>2. thread \in Thread
    BY <1>1, ThreadType
<1>3. CASE SubscribeWorkerToTask(w, t, i)
    <2>1. Append(thread.workers, w) \in Seq(Worker)
        BY <1>1, <1>2 DEF Thread
    <2> DEFINE written == [thread EXCEPT !.workers = Append(@, w)]
    <2>2. written \in Thread /\ written.validations = thread.validations
        BY <1>2, <2>1 DEF Thread
    <2>3. tasks' = PutThread(t, i, written)
        BY <1>3 DEF SubscribeWorkerToTask
    <2> HIDE DEF written
    <2> QED
        BY <2>2, <2>3
<1>4. ASSUME NEW names \in Proposals(t, i), ProposeSolution(w, t, i, names)
      PROVE  \E written \in Thread :
                 /\ tasks' = PutThread(t, i, written)
                 /\ written.validations = thread.validations
    <2> DEFINE frames == [f \in DOMAIN names |->
                   [name |-> names[f], hash |-> NoHash, valid |-> 0, invalid |-> 0]]
    <2>1. frames \in Seq(Frame)
        BY <1>1, ProposalIsSequence, FramesOfNames
    <2> DEFINE after == [thread EXCEPT !.proposedBy = w, !.frames = frames]
    <2>2. tasks' = PutThread(t, i, after)
        BY <1>4 DEF ProposeSolution
    <2> HIDE DEF frames
    <2>3. after \in Thread /\ after.validations = thread.validations
        BY <1>1, <1>2, <2>1 DEF Thread
    <2> HIDE DEF after
    <2> QED
        BY <2>2, <2>3
<1>5. ASSUME NEW S \in SUBSET Names(t, i), NEW revealed \in [S -> Hash],
             RevealSolution(w, t, i, revealed)
      PROVE  \E written \in Thread :
                 /\ tasks' = PutThread(t, i, written)
                 /\ written.validations = thread.validations
    <2> DEFINE frames == Revealed(thread, revealed)
    <2>1. frames \in Seq(Frame)
        BY <1>2, RevealedFrames
    <2> DEFINE after == [thread EXCEPT !.frames = frames]
    <2>2. tasks' = PutThread(t, i, after)
        BY <1>5 DEF RevealSolution
    <2> HIDE DEF frames
    <2>3. after \in Thread /\ after.validations = thread.validations
        BY <1>2, <2>1 DEF Thread
    <2> HIDE DEF after
    <2> QED
        BY <2>2, <2>3
<1>6. ASSUME NEW signed \in SignedInput, SubmitValidation(w, t, i, signed)
      PROVE  \E written \in Thread : tasks' = PutThread(t, i, written)
    <2> DEFINE validation == [validator |-> w, signed |-> signed]
    <2>1. validation \in Validation
        BY <1>1, SignedInputAssumption DEF Validation
    <2>2. tasks' = PutThread(t, i, [thread EXCEPT !.validations = Append(@, validation)])
        BY <1>6 DEF SubmitValidation
    <2> HIDE DEF validation
    <2>3. Append(thread.validations, validation) \in Seq(Validation)
        BY <1>2, <2>1 DEF Thread
    <2>4. [thread EXCEPT !.validations = Append(@, validation)] \in Thread
        BY <1>2, <2>3 DEF Thread
    <2> QED
        BY <2>2, <2>4
<1>7. CASE SubmitSolution(w, t, i)
    <2> DEFINE written == [thread EXCEPT !.completed = TRUE]
    <2>1. written \in Thread /\ written.validations = thread.validations
        BY <1>2 DEF Thread
    <2>2. tasks' = PutThread(t, i, written)
        BY <1>7 DEF SubmitSolution
    <2> HIDE DEF written
    <2> QED
        BY <2>1, <2>2
<1> QED
    BY <1>3, <1>4, <1>5, <1>6, <1>7 DEF Handles

\* A handler that writes one thread completes no task.
LEMMA WriteCompletesNoTask ==
    ASSUME IInv, NEW t, NEW i, ThreadExists(t, i), NEW thread \in Thread,
           tasks' = PutThread(t, i, thread)
    PROVE  /\ \A u \in DOMAIN tasks : tasks'[u].completed => tasks[u].completed
           /\ \A u \in DOMAIN tasks' : u \notin DOMAIN tasks => ~tasks'[u].completed
BY PutThreadFacts DEF IInv, TypeOK

\* EndBlock completes the tasks whose threads are, and no others.
LEMMA CompletionAtEndBlock ==
    ASSUME IInv, TaskCompletion, EndBlock
    PROVE  TaskCompletion'
<1> DEFINE ended(t) == [tasks[t] EXCEPT !.completed = @ \/ AllThreadsCompleted(tasks[t])]
<1>1. tasks' = Put([t \in DOMAIN tasks |-> ended(t)], EmptyId, EmptyTask)
    BY DEF EndBlock
<1>2. ASSUME NEW t \in DOMAIN tasks
      PROVE  /\ ended(t).threads = tasks[t].threads
             /\ ended(t).completed <=> tasks[t].completed \/ AllThreadsCompleted(tasks[t])
    <2>1. tasks[t] \in Task
        BY DEF IInv, TypeOK
    <2> QED
        BY <2>1 DEF Task
<1> HIDE DEF ended
<1>3. ASSUME NEW t \in DOMAIN tasks'
      PROVE  \/ t = EmptyId /\ tasks'[t] = EmptyTask
             \/ t \in DOMAIN tasks /\ tasks'[t] = ended(t)
    BY <1>1 DEF Put
<1>4. EmptyTask.completed /\ AllThreadsCompleted(EmptyTask)
    BY DEF EmptyTask, AllThreadsCompleted
<1>5. ASSUME NEW t \in DOMAIN tasks'
      PROVE  tasks'[t].completed <=> AllThreadsCompleted(tasks'[t])
    BY <1>2, <1>3, <1>4 DEF TaskCompletion, AllThreadsCompleted
<1> QED
    BY <1>5 DEF TaskCompletion

\* A task stays uncompleted until the EndBlock after its last thread is completed.
LEMMA CompletionInductive ==
    ASSUME IInv, TaskCompletion, [Next]_vars
    PROVE  TaskCompletion'
<1>1. Evolves
    BY NextSafe
<1>2. CASE BeginBlock
    <2>1. \A t \in DOMAIN tasks : tasks[t] \in Task
        BY DEF IInv, TypeOK
    <2>2. /\ tasks' = [t \in DOMAIN tasks |-> Walked(tasks[t])]
          /\ phase' = "deliver"
        BY <1>2 DEF BeginBlock
    <2> QED
        BY <1>1, <2>1, <2>2, WalkedFacts, CompletionKept
<1>3. CASE EndBlock
    BY <1>3, CompletionAtEndBlock
<1>4. ASSUME NEW r \in Requester, NEW spec \in TaskSpec, CreateVideoRenderingTask(r, spec)
      PROVE  TaskCompletion'
    <2> DEFINE task == [completed |-> FALSE, reward |-> spec.reward, threads |-> GenerateThreads(spec)]
    <2>1. tasks' = Put(tasks, nextId, task) /\ phase' = "deliver" /\ ~task.completed
        BY <1>4 DEF CreateVideoRenderingTask
    <2>2. nextId \notin DOMAIN tasks
        BY DEF IInv, TypeOK
    <2> HIDE DEF task
    <2> QED
        BY <1>1, <2>1, <2>2, CompletionKept DEF Put
<1>5. ASSUME NEW w \in Worker, NEW stake \in Stake, AddWorker(w, stake)
      PROVE  TaskCompletion'
    BY <1>1, <1>5, CompletionKept DEF AddWorker
<1>6. ASSUME NEW w \in DOMAIN workers, NEW t \in DOMAIN tasks,
             NEW i \in DOMAIN tasks[t].threads, Handles(w, t, i)
      PROVE  TaskCompletion'
    <2>1. PICK thread \in Thread : tasks' = PutThread(t, i, thread)
        BY <1>6, HandlerWrites, SMTT(30)
    <2>2. phase' = "deliver"
        BY <1>6 DEF Handles, SubscribeWorkerToTask, ProposeSolution, RevealSolution,
                    SubmitValidation, SubmitSolution
    <2> QED
        BY <1>1, <2>1, <2>2, WriteCompletesNoTask, CompletionKept DEF ThreadExists
<1>7. CASE UNCHANGED vars
    BY <1>7 DEF vars, TaskCompletion
<1> QED
    BY <1>2, <1>3, <1>4, <1>5, <1>6, <1>7 DEF Next, Request, Register, Transaction, Handles

\* Between blocks exactly the tasks whose threads are all completed are completed.
THEOREM TasksComplete == Spec => []TaskCompletion
<1>1. Init => TaskCompletion
    BY DEF Init, TaskCompletion
<1>2. IInv /\ TaskCompletion /\ [Next]_vars => TaskCompletion'
    BY CompletionInductive
<1> QED
    BY Invariance, <1>1, <1>2, PTL DEF Spec

-----------------------------------------------------------------------------
(***************************************************************************)
(* Who validates a thread.  That nobody but the proposer does so twice     *)
(* rests on the pointers: whoever points at a thread that he did not       *)
(* propose has not validated it yet.                                       *)
(***************************************************************************)
ValidatedOnce(thread) ==
    \A k, l \in DOMAIN thread.validations :
        k # l /\ thread.validations[k].validator = thread.validations[l].validator =>
            thread.validations[k].validator = thread.proposedBy

NoVoteOf(w, thread) ==
    w # thread.proposedBy =>
        \A k \in DOMAIN thread.validations : thread.validations[k].validator # w

NotYetValidated(w) ==
    workers[w].task # EmptyId =>
        NoVoteOf(w, tasks[workers[w].task].threads[workers[w].thread])

VotesInv ==
    /\ \A t, i : ThreadExists(t, i) => ValidatedOnce(tasks[t].threads[i])
    /\ \A w \in DOMAIN workers : NotYetValidated(w)

\* A thread that keeps its validations keeps what is known of them: it has none, or
\* its proposer is already decided.
LEMMA ThreadVotesKept ==
    ASSUME NEW before, NEW after, ThreadInv(before), ThreadStep(before, after),
           after.validations = before.validations
    PROVE  /\ ValidatedOnce(before) => ValidatedOnce(after)
           /\ \A w : NoVoteOf(w, before) => NoVoteOf(w, after)
<1>1. CASE before.validations = <<>>
    BY <1>1 DEF ValidatedOnce, NoVoteOf
<1>2. CASE before.validations # <<>>
    <2>1. after.proposedBy = before.proposedBy
        BY <1>2 DEF ThreadInv, ThreadStep
    <2> QED
        BY <2>1 DEF ValidatedOnce, NoVoteOf
<1> QED
    BY <1>1, <1>2

\* A step that adds no validations keeps the votes in order, if a worker whose
\* pointer it moves is released or has not validated where he now points.
LEMMA VotesKept ==
    ASSUME IInv, VotesInv, Evolves,
           \A t, i : ThreadExists(t, i) =>
               tasks'[t].threads[i].validations = tasks[t].threads[i].validations,
           \A t, i : ThreadExists(t, i)' /\ ~ThreadExists(t, i) =>
               tasks'[t].threads[i].validations = <<>>,
           \A w \in DOMAIN workers' :
               \/ workers'[w].task = EmptyId
               \/ NotYetValidated(w)'
               \/ /\ w \in DOMAIN workers
                  /\ workers'[w].task = workers[w].task
                  /\ workers'[w].thread = workers[w].thread
    PROVE  VotesInv'
<1>1. ASSUME NEW t, NEW i, ThreadExists(t, i)
      PROVE  /\ ValidatedOnce(tasks[t].threads[i]) => ValidatedOnce(tasks'[t].threads[i])
             /\ \A w : NoVoteOf(w, tasks[t].threads[i]) => NoVoteOf(w, tasks'[t].threads[i])
    <2>1. ThreadInv(tasks[t].threads[i])
        BY <1>1 DEF IInv, ThreadsInv, ThreadExists
    <2>2. ThreadStep(tasks[t].threads[i], tasks'[t].threads[i])
        BY <1>1 DEF Evolves, TaskStep, ThreadExists
    <2> QED
        BY <1>1, <2>1, <2>2, ThreadVotesKept
<1>2. ASSUME NEW t, NEW i, ThreadExists(t, i)'
      PROVE  ValidatedOnce(tasks'[t].threads[i])
    <2>1. CASE ThreadExists(t, i)
        BY <2>1, <1>1 DEF VotesInv
    <2>2. CASE ~ThreadExists(t, i)
        BY <2>2, <1>2 DEF ValidatedOnce
    <2> QED
        BY <2>1, <2>2
<1>3. ASSUME NEW w \in DOMAIN workers'
      PROVE  NotYetValidated(w)'
    <2>1. CASE workers'[w].task = EmptyId
        BY <2>1 DEF NotYetValidated
    <2>2. CASE /\ w \in DOMAIN workers
               /\ workers'[w].task = workers[w].task
               /\ workers'[w].thread = workers[w].thread
        <3>1. NotYetValidated(w) /\ PointerOK(w)
            BY <2>2 DEF VotesInv, IInv
        <3> QED
            BY <2>2, <3>1, <1>1, Zenon DEF NotYetValidated, PointerOK
    <2> QED
        BY <2>1, <2>2
<1> QED
    BY <1>2, <1>3 DEF VotesInv

\* A worker who subscribes was not in the list of the thread, so no validation of
\* the thread is his.
LEMMA SubscribeVotes ==
    ASSUME IInv, VotesInv, NEW w \in DOMAIN workers, NEW t, NEW i,
           SubscribeWorkerToTask(w, t, i), Evolves,
           \A u, j : ThreadExists(u, j)' => ThreadExists(u, j),
           \A u, j : ThreadExists(u, j) =>
               tasks'[u].threads[j].validations = tasks[u].threads[j].validations
    PROVE  VotesInv'
<1> DEFINE thread == tasks[t].threads[i]
<1>1. ThreadExists(t, i) /\ w \notin Elements(thread.workers) /\ ThreadInv(thread)
    BY DEF SubscribeWorkerToTask, SubscribeWorkerToTaskOK, IInv, ThreadsInv, ThreadExists
<1>2. \A k \in DOMAIN thread.validations : thread.validations[k].validator # w
    BY <1>1, SMTT(30) DEF ThreadInv, Elements
<1>3. /\ DOMAIN workers' = DOMAIN workers
      /\ workers'[w].task = t /\ workers'[w].thread = i
      /\ \A u \in DOMAIN workers : u # w => workers'[u] = workers[u]
    BY DEF SubscribeWorkerToTask, IInv, TypeOK, WorkerRecord
<1>4. NotYetValidated(w)'
    BY <1>1, <1>2, <1>3 DEF NotYetValidated, NoVoteOf
<1> QED
    BY <1>3, <1>4, VotesKept

\* An element of an extended sequence is the new one or one of the old.
LEMMA AppendIndices ==
    ASSUME NEW S, NEW s \in Seq(S), NEW e \in S, NEW k \in DOMAIN Append(s, e)
    PROVE  \/ k = Len(s) + 1 /\ Append(s, e)[k] = e
           \/ k \in DOMAIN s /\ Append(s, e)[k] = s[k]
<1>1. Len(s) \in Nat /\ DOMAIN s = 1 .. Len(s)
    OBVIOUS
<1>2. DOMAIN Append(s, e) = 1 .. Len(s) + 1
    BY <1>1
<1>3. CASE k = Len(s) + 1
    BY <1>1, <1>3
<1>4. CASE k # Len(s) + 1
    <2>1. k \in 1 .. Len(s)
        BY <1>1, <1>2, <1>4
    <2> QED
        BY <1>1, <2>1
<1> QED
    BY <1>3, <1>4

\* Whoever validates points at the thread: he has not validated it yet, or he
\* proposed it; and unless he proposed it, he does not point at it any longer.
LEMMA SubmitValidationVotes ==
    ASSUME IInv, VotesInv, NEW w \in DOMAIN workers, NEW t, NEW i, NEW signed \in SignedInput,
           SubmitValidation(w, t, i, signed)
    PROVE  VotesInv'
<1> DEFINE thread == tasks[t].threads[i]
           validation == [validator |-> w, signed |-> signed]
           written == [thread EXCEPT !.validations = Append(@, validation)]
<1>1. /\ ThreadExists(t, i) /\ t # EmptyId /\ TypeOK /\ w \in Worker
      /\ t = workers[w].task /\ i = workers[w].thread
    BY DEF SubmitValidation, SubmitValidationOK, IInv, ThreadExists, EmptyIdIsEmpty,
           EmptyTask, TypeOK
<1>2. thread \in Thread
    BY <1>1, ThreadType
<1>3. validation \in Validation /\ validation.validator = w
    BY <1>1, SignedInputAssumption DEF Validation
<1>4. /\ tasks' = PutThread(t, i, written)
      /\ workers' = IF w # thread.proposedBy THEN [workers EXCEPT ![w] = Released(@)] ELSE workers
    BY DEF SubmitValidation
<1> HIDE DEF validation, written
<1>5. /\ written \in Thread /\ written.proposedBy = thread.proposedBy
      /\ written.validations = Append(thread.validations, validation)
    <2>1. Append(thread.validations, validation) \in Seq(Validation)
        BY <1>2, <1>3 DEF Thread
    <2> QED
        BY <1>2, <2>1 DEF Thread, written
<1>6. \A k \in DOMAIN written.validations :
          \/ k = Len(thread.validations) + 1 /\ written.validations[k].validator = w
          \/ k \in DOMAIN thread.validations /\ written.validations[k] = thread.validations[k]
    <2>1. thread.validations \in Seq(Validation)
        BY <1>2 DEF Thread
    <2> QED
        BY <1>3, <1>5, <2>1, AppendIndices, SMTT(30)
<1>7. /\ \A u, j : ThreadExists(u, j)' => ThreadExists(u, j)
      /\ tasks'[t].threads[i] = written
      /\ \A u, j : ThreadExists(u, j) /\ (u # t \/ j # i) =>
             tasks'[u].threads[j] = tasks[u].threads[j]
    BY <1>1, <1>4, <1>5, PutThreadFacts DEF TypeOK, ThreadExists
<1>8. NoVoteOf(w, thread) /\ ValidatedOnce(thread)
    BY <1>1 DEF VotesInv, NotYetValidated
<1>9. ValidatedOnce(written)
    BY <1>5, <1>6, <1>8, Zenon DEF ValidatedOnce, NoVoteOf
<1>10. ASSUME NEW v \in DOMAIN workers'
       PROVE  NotYetValidated(v)'
    <2>1. CASE v = w
        <3>1. CASE w # thread.proposedBy
            BY <1>4, <2>1, <3>1, ReleasedType DEF NotYetValidated, IInv, TypeOK
        <3>2. CASE w = thread.proposedBy
            BY <1>1, <1>4, <1>5, <1>7, <2>1, <3>2, Zenon DEF NotYetValidated, NoVoteOf
        <3> QED
            BY <3>1, <3>2
    <2>2. CASE v # w
        <3>1. v \in DOMAIN workers /\ workers'[v] = workers[v]
            BY <1>4, <2>2
        <3>2. NotYetValidated(v) /\ PointerOK(v)
            BY <3>1 DEF VotesInv, IInv
        <3>3. NoVoteOf(v, thread) => NoVoteOf(v, written)
            BY <1>5, <1>6, <2>2 DEF NoVoteOf
        <3> QED
            BY <1>7, <3>1, <3>2, <3>3 DEF NotYetValidated, PointerOK
    <2> QED
        BY <2>1, <2>2
<1> QED
    BY <1>7, <1>9, <1>10 DEF VotesInv

\* The walk of BeginBlock leaves the validations alone.
LEMMA WalkedValidations ==
    ASSUME NEW task \in Task, NEW i \in DOMAIN task.threads
    PROVE  Walked(task).threads[i].validations = task.threads[i].validations
<1> DEFINE before == task.threads[i]
           after == Walked(task).threads[i]
           evaluated == EvaluateVerifications(before)
<1>1. before \in Thread
    BY DEF Task
<1>2. after = before \/ after = [evaluated EXCEPT !.accepted = AcceptedNow(before)]
    BY WalkedFacts
<1>3. evaluated \in Thread /\ evaluated = [before EXCEPT !.frames = evaluated.frames]
    BY <1>1, EvaluateFacts
<1> HIDE DEF evaluated
<1>4. [evaluated EXCEPT !.accepted = AcceptedNow(before)].validations = before.validations
    BY <1>1, <1>3 DEF Thread
<1> QED
    BY <1>2, <1>4

\* Every step keeps the votes in order.
LEMMA VotesInductive ==
    ASSUME IInv, VotesInv, [Next]_vars
    PROVE  VotesInv'
<1>1. Evolves
    BY NextSafe
<1>2. CASE BeginBlock
    <2>1. \A t \in DOMAIN tasks : tasks[t] \in Task
        BY DEF IInv, TypeOK
    <2>2. workers' = workers /\ tasks' = [t \in DOMAIN tasks |-> Walked(tasks[t])]
        BY <1>2 DEF BeginBlock
    <2> QED
        BY <1>1, <2>1, <2>2, WalkedFacts, WalkedValidations, VotesKept DEF ThreadExists
<1>3. CASE EndBlock
    <2> DEFINE ended(t) == [tasks[t] EXCEPT !.completed = @ \/ AllThreadsCompleted(tasks[t])]
    <2>1. /\ tasks' = Put([t \in DOMAIN tasks |-> ended(t)], EmptyId, EmptyTask)
          /\ workers' = workers
        BY <1>3 DEF EndBlock
    <2>2. \A t \in DOMAIN tasks : ended(t).threads = tasks[t].threads
        BY DEF IInv, TypeOK, Task
    <2> HIDE DEF ended
    <2>3. /\ DOMAIN tasks' = DOMAIN tasks \cup {EmptyId}
          /\ tasks'[EmptyId] = EmptyTask
          /\ \A t \in DOMAIN tasks : tasks'[t].threads = tasks[t].threads
        BY <2>1, <2>2 DEF Put, IInv, EmptyIdIsEmpty
    <2>4. DOMAIN EmptyTask.threads = {}
        BY DEF EmptyTask
    <2> QED
        BY <1>1, <2>1, <2>3, <2>4, VotesKept DEF ThreadExists
<1>4. ASSUME NEW r \in Requester, NEW spec \in TaskSpec, CreateVideoRenderingTask(r, spec)
      PROVE  VotesInv'
    <2> DEFINE task == [completed |-> FALSE, reward |-> spec.reward, threads |-> GenerateThreads(spec)]
    <2>1. tasks' = Put(tasks, nextId, task) /\ workers' = workers
        BY <1>4 DEF CreateVideoRenderingTask
    <2>2. \A i \in DOMAIN task.threads : task.threads[i].validations = <<>>
        BY DEF GenerateThreads, NewThread
    <2>3. nextId \notin DOMAIN tasks
        BY DEF IInv, TypeOK
    <2> HIDE DEF task
    <2>4. /\ DOMAIN tasks' = DOMAIN tasks \cup {nextId}
          /\ tasks'[nextId] = task
          /\ \A t \in DOMAIN tasks : tasks'[t] = tasks[t]
        BY <2>1, <2>3 DEF Put
    <2> QED
        BY <1>1, <2>1, <2>2, <2>4, VotesKept DEF ThreadExists
<1>5. ASSUME NEW w \in Worker, NEW stake \in Stake, AddWorker(w, stake)
      PROVE  VotesInv'
    <2> DEFINE record == [task |-> EmptyId, thread |-> 1, staked |-> stake,
                          solutions |-> 0, winnings |-> 0]
    <2>1. tasks' = tasks /\ workers' = Put(workers, w, record) /\ record.task = EmptyId
        BY <1>5 DEF AddWorker
    <2> HIDE DEF record
    <2> QED
        BY <1>1, <2>1, VotesKept DEF Put, ThreadExists
<1>6. ASSUME NEW w \in DOMAIN workers, NEW t \in DOMAIN tasks,
             NEW i \in DOMAIN tasks[t].threads, Handles(w, t, i)
      PROVE  VotesInv'
    <2>1. PICK written \in Thread :
              /\ tasks' = PutThread(t, i, written)
              /\ \/ written.validations = tasks[t].threads[i].validations
                 \/ \E signed \in SignedInput : SubmitValidation(w, t, i, signed)
        BY <1>6, HandlerWrites
    <2>2. CASE \E signed \in SignedInput : SubmitValidation(w, t, i, signed)
        BY <2>2, SubmitValidationVotes
    <2>3. CASE /\ written.validations = tasks[t].threads[i].validations
               /\ ~\E signed \in SignedInput : SubmitValidation(w, t, i, signed)
        <3>1. tasks \in [DOMAIN tasks -> Task] /\ ThreadExists(t, i)
            BY DEF IInv, TypeOK, ThreadExists
        <3>2. /\ \A u, j : ThreadExists(u, j)' => ThreadExists(u, j)
              /\ \A u, j : ThreadExists(u, j) =>
                     tasks'[u].threads[j].validations = tasks[u].threads[j].validations
            <4>1. /\ DOMAIN tasks' = DOMAIN tasks
                  /\ \A u \in DOMAIN tasks : DOMAIN tasks'[u].threads = DOMAIN tasks[u].threads
                  /\ tasks'[t].threads[i] = written
                  /\ \A u \in DOMAIN tasks : \A j \in DOMAIN tasks[u].threads :
                         u # t \/ j # i => tasks'[u].threads[j] = tasks[u].threads[j]
                BY <2>1, <3>1, PutThreadFacts
            <4> QED
                BY <2>3, <4>1 DEF ThreadExists
        <3>3. CASE SubscribeWorkerToTask(w, t, i)
            BY <1>1, <3>2, <3>3, SubscribeVotes
        <3>4. CASE SubmitSolution(w, t, i)
            <4>1. ASSUME NEW v \in DOMAIN workers'
                  PROVE  /\ v \in DOMAIN workers
                         /\ workers'[v].task = EmptyId \/ workers'[v] = workers[v]
                <5>1. workers[v] \in WorkerRecord /\ v \in DOMAIN workers
                    BY <3>4 DEF SubmitSolution, IInv, TypeOK
                <5> QED
                    BY <3>4, <5>1, Zenon DEF SubmitSolution, DeclareWinner, Released, WorkerRecord
            <4> QED
                BY <1>1, <3>2, <4>1, VotesKept
        <3>5. CASE workers' = workers
            BY <1>1, <3>2, <3>5, VotesKept
        <3> QED
            BY <1>6, <2>3, <3>3, <3>4, <3>5, Zenon DEF Handles, ProposeSolution, RevealSolution
    <2> QED
        BY <2>1, <2>2, <2>3
<1>7. CASE UNCHANGED vars
    BY <1>7 DEF vars, VotesInv, NotYetValidated, ThreadExists
<1> QED
    BY <1>2, <1>3, <1>4, <1>5, <1>6, <1>7 DEF Next, Request, Register, Transaction, Handles

\* Whoever did not propose the solution of a thread validates it at most once.
THEOREM SingleValidations == Spec => []OthersValidateOnce
<1>1. Init => VotesInv
    BY DEF Init, VotesInv, ThreadExists
<1>2. IInv /\ VotesInv /\ [Next]_vars => VotesInv'
    BY VotesInductive
<1>3. VotesInv => OthersValidateOnce
    BY DEF VotesInv, ThreadExists, ValidatedOnce, OthersValidateOnce
<1> QED
    BY Invariance, <1>1, <1>2, <1>3, PTL DEF Spec

=============================================================================
