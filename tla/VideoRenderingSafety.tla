------------------------ MODULE VideoRenderingSafety ------------------------
(***************************************************************************)
(* The invariant that keeps workers and threads consistent, and the        *)
(* history of a thread that follows from it.                               *)
(***************************************************************************)
EXTENDS VideoRenderingProofs

\* What every thread satisfies by itself.
ThreadInv(thread) ==
    /\ thread.validations # <<>> \/ thread.accepted \/ thread.completed
           => thread.proposedBy # NoWorker
    /\ thread.proposedBy # NoWorker => thread.proposedBy \in Elements(thread.workers)
    /\ \A v \in Elements(thread.validations) : v.validator \in Elements(thread.workers)

ThreadsInv == \A t \in DOMAIN tasks : \A i \in DOMAIN tasks[t].threads :
                  ThreadInv(tasks[t].threads[i])

\* A worker is idle or on a thread that lists him and is not completed.
PointerOK(w) ==
    workers[w].task # EmptyId =>
        /\ ThreadExists(workers[w].task, workers[w].thread)
        /\ w \in Elements(tasks[workers[w].task].threads[workers[w].thread].workers)
        /\ ~tasks[workers[w].task].threads[workers[w].thread].completed

EmptyIdIsEmpty == EmptyId \in DOMAIN tasks => tasks[EmptyId] = EmptyTask

IInv ==
    /\ TypeOK
    /\ EmptyIdIsEmpty
    /\ ThreadsInv
    /\ \A w \in DOMAIN workers : PointerOK(w)

\* What a step may do to a thread.
ThreadStep(before, after) ==
    /\ Elements(before.workers) \subseteq Elements(after.workers)
    /\ before.proposedBy # NoWorker => after.proposedBy = before.proposedBy
    /\ before.accepted => after.accepted /\ after.frames = before.frames
    /\ before.completed => after = before

TaskStep(t) ==
    /\ t \in DOMAIN tasks'
    /\ DOMAIN tasks'[t].threads = DOMAIN tasks[t].threads
    /\ \A i \in DOMAIN tasks[t].threads :
           ThreadStep(tasks[t].threads[i], tasks'[t].threads[i])

Evolves == \A t \in DOMAIN tasks : TaskStep(t)

\* The tasks a step leaves or creates satisfy what is asked of tasks.
TasksInv == EmptyIdIsEmpty /\ ThreadsInv

-----------------------------------------------------------------------------
\* A thread that stays as it is takes no forbidden step.
LEMMA ThreadStepReflexive ==
    ASSUME NEW thread
    PROVE  ThreadStep(thread, thread)
BY DEF ThreadStep

\* Writing one good thread keeps all threads good.
LEMMA WriteThread ==
    ASSUME TypeOK, TasksInv, NEW t, NEW i, ThreadExists(t, i), NEW thread \in Thread,
           ThreadInv(thread), ThreadStep(tasks[t].threads[i], thread),
           tasks' = PutThread(t, i, thread)
    PROVE  /\ TasksInv' /\ Evolves
           /\ tasks'[t].threads[i] = thread
           /\ \A u, j : ThreadExists(u, j) => ThreadExists(u, j)'
           /\ \A u, j : ThreadExists(u, j) /\ (u # t \/ j # i) =>
                  tasks'[u].threads[j] = tasks[u].threads[j]
<1>1. tasks \in [DOMAIN tasks -> Task]
    BY DEF TypeOK
<1>2. /\ DOMAIN tasks' = DOMAIN tasks
      /\ \A u \in DOMAIN tasks : DOMAIN tasks'[u].threads = DOMAIN tasks[u].threads
      /\ tasks'[t].threads[i] = thread
      /\ \A u \in DOMAIN tasks : \A j \in DOMAIN tasks[u].threads :
             u # t \/ j # i => tasks'[u].threads[j] = tasks[u].threads[j]
    BY <1>1, PutThreadFacts
<1>3. EmptyIdIsEmpty'
    <2>1. t # EmptyId
        BY DEF ThreadExists, TasksInv, EmptyIdIsEmpty, EmptyTask
    <2>2. \A u \in DOMAIN tasks : u # t => tasks'[u] = tasks[u]
        BY DEF PutThread
    <2> QED
        BY <1>2, <2>1, <2>2 DEF TasksInv, EmptyIdIsEmpty
<1>4. ThreadsInv'
    BY <1>2 DEF TasksInv, ThreadsInv
<1>5. Evolves
    <2> SUFFICES ASSUME NEW u \in DOMAIN tasks, NEW j \in DOMAIN tasks[u].threads
                 PROVE  ThreadStep(tasks[u].threads[j], tasks'[u].threads[j])
        BY <1>2 DEF Evolves, TaskStep
    <2>1. CASE u = t /\ j = i
        BY <2>1, <1>2
    <2>2. CASE u # t \/ j # i
        BY <2>2, <1>2, ThreadStepReflexive
    <2> QED
        BY <2>1, <2>2
<1>6. \A u, j : ThreadExists(u, j) => ThreadExists(u, j)'
    BY <1>2 DEF ThreadExists
<1>7. \A u, j : ThreadExists(u, j) /\ (u # t \/ j # i) =>
          tasks'[u].threads[j] = tasks[u].threads[j]
    BY <1>2 DEF ThreadExists
<1> QED
    BY <1>2, <1>3, <1>4, <1>5, <1>6, <1>7 DEF TasksInv

\* A worker whose pointer does not move stays where he may be, unless the thread
\* he is on is completed by the step.
LEMMA PointerStays ==
    ASSUME IInv, Evolves, NEW v \in DOMAIN workers, v \in DOMAIN workers',
           workers'[v].task = workers[v].task, workers'[v].thread = workers[v].thread,
           \A u, j : ThreadExists(u, j) /\ u = workers[v].task /\ j = workers[v].thread =>
               tasks'[u].threads[j].completed = tasks[u].threads[j].completed
    PROVE  PointerOK(v)'
<1> DEFINE t == workers[v].task
           i == workers[v].thread
<1> SUFFICES ASSUME t # EmptyId
             PROVE  /\ ThreadExists(t, i)'
                    /\ v \in Elements(tasks'[t].threads[i].workers)
                    /\ ~tasks'[t].threads[i].completed
    BY DEF PointerOK
<1>1. ThreadExists(t, i) /\ v \in Elements(tasks[t].threads[i].workers) /\ ~tasks[t].threads[i].completed
    BY DEF IInv, PointerOK
<1>2. t \in DOMAIN tasks' /\ i \in DOMAIN tasks'[t].threads
      /\ ThreadStep(tasks[t].threads[i], tasks'[t].threads[i])
    BY <1>1 DEF Evolves, TaskStep, ThreadExists
<1> QED
    BY <1>1, <1>2 DEF ThreadStep, ThreadExists

\* A released worker points nowhere, which is always in order.
LEMMA PointerReleased ==
    ASSUME NEW v \in DOMAIN workers', workers'[v].task = EmptyId
    PROVE  PointerOK(v)'
BY DEF PointerOK

-----------------------------------------------------------------------------
(***************************************************************************)
(* One lemma per action.                                                   *)
(***************************************************************************)
PointersOK == \A w \in DOMAIN workers : PointerOK(w)

\* Tasks and pointers stay while a step writes neither.
LEMMA CreateSafe ==
    ASSUME IInv, NEW r \in Requester, NEW spec \in TaskSpec, CreateVideoRenderingTask(r, spec)
    PROVE  TasksInv' /\ Evolves /\ PointersOK'
<1> DEFINE task == [completed |-> FALSE, reward |-> spec.reward, threads |-> GenerateThreads(spec)]
<1>1. tasks' = Put(tasks, nextId, task) /\ workers' = workers
    BY DEF CreateVideoRenderingTask
<1>2. nextId \notin DOMAIN tasks /\ nextId # EmptyId
    BY DEF IInv, TypeOK
<1>3. \A i \in DOMAIN task.threads : task.threads[i] = NewThread(spec, i)
    BY DEF GenerateThreads
<1>4. \A i : ThreadInv(NewThread(spec, i))
    BY DEF ThreadInv, NewThread, Elements
<1> HIDE DEF task
<1>5. /\ DOMAIN tasks' = DOMAIN tasks \cup {nextId}
      /\ tasks'[nextId] = task
      /\ \A t \in DOMAIN tasks : tasks'[t] = tasks[t]
    BY <1>1, <1>2 DEF Put
<1>6. TasksInv'
    BY <1>2, <1>3, <1>4, <1>5 DEF IInv, TasksInv, EmptyIdIsEmpty, ThreadsInv
<1>7. Evolves
    BY <1>5, ThreadStepReflexive DEF Evolves, TaskStep
<1>8. ASSUME NEW w \in DOMAIN workers'
      PROVE  PointerOK(w)'
    <2>1. \A u, j : ThreadExists(u, j) =>
              tasks'[u].threads[j].completed = tasks[u].threads[j].completed
        BY <1>5 DEF ThreadExists
    <2> QED
        BY <1>1, <1>7, <2>1, PointerStays
<1> QED
    BY <1>6, <1>7, <1>8 DEF PointersOK

\* A registration touches no thread, and the new worker is idle.
LEMMA AddWorkerSafe ==
    ASSUME IInv, NEW w \in Worker, NEW stake \in Stake, AddWorker(w, stake)
    PROVE  TasksInv' /\ Evolves /\ PointersOK'
<1>1. tasks' = tasks /\ w \notin DOMAIN workers
    BY DEF AddWorker, AddWorkerOK
<1>2. TasksInv'
    BY <1>1 DEF IInv, TasksInv, EmptyIdIsEmpty, ThreadsInv
<1>3. Evolves
    BY <1>1, ThreadStepReflexive DEF Evolves, TaskStep
<1>4. /\ DOMAIN workers' = DOMAIN workers \cup {w}
      /\ workers'[w].task = EmptyId
      /\ \A v \in DOMAIN workers : workers'[v] = workers[v]
    <2> DEFINE record == [task |-> EmptyId, thread |-> 1, staked |-> stake,
                          solutions |-> 0, winnings |-> 0]
    <2>1. workers' = Put(workers, w, record) /\ record.task = EmptyId
        BY DEF AddWorker
    <2> HIDE DEF record
    <2> QED
        BY <1>1, <2>1 DEF Put
<1>5. ASSUME NEW v \in DOMAIN workers'
      PROVE  PointerOK(v)'
    <2>1. CASE v = w
        BY <2>1, <1>4, PointerReleased
    <2>2. CASE v # w
        BY <2>2, <1>1, <1>3, <1>4, PointerStays
    <2> QED
        BY <2>1, <2>2
<1> QED
    BY <1>2, <1>3, <1>5 DEF PointersOK

\* A subscription adds the worker to the thread that he then points at, and that
\* thread is not completed.
LEMMA SubscribeSafe ==
    ASSUME IInv, NEW w \in DOMAIN workers, NEW t, NEW i, SubscribeWorkerToTask(w, t, i)
    PROVE  TasksInv' /\ Evolves /\ PointersOK'
<1> DEFINE thread == tasks[t].threads[i]
           written == [thread EXCEPT !.workers = Append(@, w)]
<1>1. ThreadExists(t, i) /\ w \in Worker /\ ~thread.completed /\ TypeOK /\ TasksInv
    BY DEF SubscribeWorkerToTask, SubscribeWorkerToTaskOK, IInv, TypeOK, TasksInv
<1>2. thread \in Thread /\ t \in Nat /\ i \in Nat
    BY <1>1, ThreadType
<1>3. /\ Append(thread.workers, w) \in Seq(Worker)
      /\ Elements(Append(thread.workers, w)) = Elements(thread.workers) \cup {w}
    BY <1>1, <1>2, AppendElements DEF Thread
<1>4. /\ written \in Thread
      /\ written.workers = Append(thread.workers, w)
      /\ written.completed = thread.completed
      /\ written.proposedBy = thread.proposedBy /\ written.accepted = thread.accepted
      /\ written.validations = thread.validations /\ written.frames = thread.frames
    BY <1>2, <1>3 DEF Thread
<1>5. ThreadInv(thread)
    BY <1>1 DEF TasksInv, ThreadsInv, ThreadExists
<1> HIDE DEF written
<1>6. ThreadInv(written) /\ ThreadStep(thread, written)
    BY <1>1, <1>3, <1>4, <1>5 DEF ThreadInv, ThreadStep
<1>7. tasks' = PutThread(t, i, written)
    BY DEF SubscribeWorkerToTask, written
<1>8. /\ TasksInv' /\ Evolves
      /\ tasks'[t].threads[i] = written
      /\ \A u, j : ThreadExists(u, j) => ThreadExists(u, j)'
      /\ \A u, j : ThreadExists(u, j) /\ (u # t \/ j # i) =>
             tasks'[u].threads[j] = tasks[u].threads[j]
    BY <1>1, <1>4, <1>6, <1>7, WriteThread
<1>9. ASSUME NEW v \in DOMAIN workers'
      PROVE  PointerOK(v)'
    <2>1. /\ DOMAIN workers' = DOMAIN workers
          /\ workers'[w].task = t /\ workers'[w].thread = i
          /\ \A u \in DOMAIN workers : u # w => workers'[u] = workers[u]
        BY DEF SubscribeWorkerToTask, IInv, TypeOK, WorkerRecord
    <2>2. CASE v = w
        BY <2>1, <2>2, <1>1, <1>3, <1>4, <1>8 DEF PointerOK
    <2>3. CASE v # w
        BY <2>1, <2>3, <1>4, <1>8, PointerStays
    <2> QED
        BY <2>2, <2>3
<1> QED
    BY <1>8, <1>9 DEF PointersOK

\* A proposal is the first of its thread and comes from one of its workers.
LEMMA ProposeSafe ==
    ASSUME IInv, NEW w \in DOMAIN workers, NEW t, NEW i, NEW names \in Seq(File),
           ProposeSolution(w, t, i, names)
    PROVE  TasksInv' /\ Evolves /\ PointersOK'
<1> DEFINE thread == tasks[t].threads[i]
           frames == [f \in DOMAIN names |->
               [name |-> names[f], hash |-> NoHash, valid |-> 0, invalid |-> 0]]
           written == [thread EXCEPT !.proposedBy = w, !.frames = frames]
<1>1. /\ ThreadExists(t, i) /\ w \in Worker /\ TypeOK /\ TasksInv
      /\ thread.proposedBy = NoWorker /\ w \in Elements(thread.workers)
    BY DEF ProposeSolution, ProposeSolutionOK, IInv, TypeOK, TasksInv
<1>2. thread \in Thread
    BY <1>1, ThreadType
<1>3. frames \in Seq(Frame)
    BY FramesOfNames
<1> HIDE DEF frames
<1>4. /\ written \in Thread
      /\ written.workers = thread.workers /\ written.completed = thread.completed
      /\ written.proposedBy = w /\ written.accepted = thread.accepted
      /\ written.validations = thread.validations
    BY <1>1, <1>2, <1>3 DEF Thread
<1>5. ThreadInv(thread)
    BY <1>1 DEF TasksInv, ThreadsInv, ThreadExists
<1>6. tasks' = PutThread(t, i, written) /\ workers' = workers
    BY DEF ProposeSolution, frames
<1> HIDE DEF written
<1>7. ThreadInv(written) /\ ThreadStep(thread, written)
    BY <1>1, <1>4, <1>5, AccountAssumption DEF ThreadInv, ThreadStep
<1>8. /\ TasksInv' /\ Evolves
      /\ tasks'[t].threads[i] = written
      /\ \A u, j : ThreadExists(u, j) /\ (u # t \/ j # i) =>
             tasks'[u].threads[j] = tasks[u].threads[j]
    BY <1>1, <1>4, <1>6, <1>7, WriteThread
<1>9. \A v \in DOMAIN workers' : PointerOK(v)'
    BY <1>4, <1>6, <1>8, PointerStays
<1> QED
    BY <1>8, <1>9 DEF PointersOK

\* A reveal changes the frames of a solution that is not accepted; its proposer still
\* points at the thread, which is therefore not completed.
LEMMA RevealSafe ==
    ASSUME IInv, NEW w \in DOMAIN workers, NEW t, NEW i, NEW S, NEW revealed \in [S -> Hash],
           RevealSolution(w, t, i, revealed)
    PROVE  TasksInv' /\ Evolves /\ PointersOK'
<1> DEFINE thread == tasks[t].threads[i]
           frames == Revealed(thread, revealed)
           written == [thread EXCEPT !.frames = frames]
<1>1. /\ ThreadExists(t, i) /\ t # EmptyId /\ TypeOK /\ TasksInv
      /\ t = workers[w].task /\ i = workers[w].thread /\ ~thread.accepted
    BY DEF RevealSolution, RevealSolutionOK, IInv, TasksInv, ThreadExists, EmptyIdIsEmpty, EmptyTask
<1>2. thread \in Thread
    BY <1>1, ThreadType
\* The worker is on the thread, so it is not completed.
<1>3. ~thread.completed
    BY <1>1 DEF IInv, PointerOK
<1>4. frames \in Seq(Frame)
    BY <1>2, RevealedFrames
<1>5. tasks' = PutThread(t, i, written) /\ workers' = workers
    BY DEF RevealSolution
<1> HIDE DEF frames
<1>6. /\ written \in Thread
      /\ written.workers = thread.workers /\ written.completed = thread.completed
      /\ written.proposedBy = thread.proposedBy /\ written.accepted = thread.accepted
      /\ written.validations = thread.validations
    BY <1>2, <1>4, Zenon DEF Thread
<1>7. ThreadInv(thread)
    BY <1>1 DEF TasksInv, ThreadsInv, ThreadExists
<1> HIDE DEF written
<1>8. ThreadInv(written) /\ ThreadStep(thread, written)
    BY <1>1, <1>3, <1>6, <1>7, ZenonT(30) DEF ThreadInv, ThreadStep
<1>9. /\ TasksInv' /\ Evolves
      /\ tasks'[t].threads[i] = written
      /\ \A u, j : ThreadExists(u, j) /\ (u # t \/ j # i) =>
             tasks'[u].threads[j] = tasks[u].threads[j]
    <2>1. TypeOK /\ TasksInv /\ ThreadExists(t, i) /\ written \in Thread
        BY <1>1, <1>6
    <2>2. TasksInv' /\ Evolves
        BY <2>1, <1>5, <1>8, WriteThread
    <2>3. tasks'[t].threads[i] = written
        BY <2>1, <1>5, <1>8, WriteThread
    <2>4. \A u, j : ThreadExists(u, j) /\ (u # t \/ j # i) =>
              tasks'[u].threads[j] = tasks[u].threads[j]
        BY <2>1, <1>5, <1>8, WriteThread
    <2> QED
        BY <2>2, <2>3, <2>4
<1>10. \A v \in DOMAIN workers' : PointerOK(v)'
    BY <1>5, <1>6, <1>9, PointerStays
<1> QED
    BY <1>9, <1>10 DEF PointersOK

\* A validation comes from a worker who points at the thread, so the thread has a
\* solution and is not completed; the validator is then released, unless he proposed.
LEMMA SubmitValidationSafe ==
    ASSUME IInv, NEW w \in DOMAIN workers, NEW t, NEW i, NEW signed \in SignedInput,
           SubmitValidation(w, t, i, signed)
    PROVE  TasksInv' /\ Evolves /\ PointersOK'
<1> DEFINE thread == tasks[t].threads[i]
           validation == [validator |-> w, signed |-> signed]
           written == [thread EXCEPT !.validations = Append(@, validation)]
<1>1. /\ ThreadExists(t, i) /\ t # EmptyId /\ TypeOK /\ TasksInv /\ w \in Worker
      /\ t = workers[w].task /\ i = workers[w].thread
      /\ thread.proposedBy # NoWorker /\ w \in Elements(thread.workers)
    BY DEF SubmitValidation, SubmitValidationOK, IInv, TasksInv, ThreadExists,
           EmptyIdIsEmpty, EmptyTask, TypeOK
<1>2. thread \in Thread
    BY <1>1, ThreadType
<1>3. ~thread.completed
    BY <1>1 DEF IInv, PointerOK
<1>4. validation \in Validation /\ validation.validator = w
    BY <1>1, SignedInputAssumption DEF Validation
<1>5. tasks' = PutThread(t, i, written)
    BY DEF SubmitValidation
<1>6. workers' = IF w # thread.proposedBy THEN [workers EXCEPT ![w] = Released(@)] ELSE workers
    BY DEF SubmitValidation
<1> HIDE DEF validation
<1>7. /\ Append(thread.validations, validation) \in Seq(Validation)
      /\ Elements(Append(thread.validations, validation)) = Elements(thread.validations) \cup {validation}
    BY <1>2, <1>4, AppendElements DEF Thread
<1>8. /\ written \in Thread
      /\ written.workers = thread.workers /\ written.completed = thread.completed
      /\ written.proposedBy = thread.proposedBy /\ written.accepted = thread.accepted
      /\ written.validations = Append(thread.validations, validation)
      /\ written.frames = thread.frames
    BY <1>2, <1>7, Zenon DEF Thread
<1>9. ThreadInv(thread)
    BY <1>1 DEF TasksInv, ThreadsInv, ThreadExists
<1> HIDE DEF written
<1>10. ThreadInv(written) /\ ThreadStep(thread, written)
    BY <1>1, <1>3, <1>4, <1>7, <1>8, <1>9, Zenon DEF ThreadInv, ThreadStep
<1>11. /\ TasksInv' /\ Evolves
       /\ tasks'[t].threads[i] = written
       /\ \A u, j : ThreadExists(u, j) /\ (u # t \/ j # i) =>
              tasks'[u].threads[j] = tasks[u].threads[j]
    <2>1. TypeOK /\ TasksInv /\ ThreadExists(t, i) /\ written \in Thread
        BY <1>1, <1>8, Zenon
    <2> QED
        BY <2>1, <1>5, <1>10, WriteThread
<1>12. ASSUME NEW v \in DOMAIN workers'
       PROVE  PointerOK(v)'
    <2>1. DOMAIN workers' = DOMAIN workers
        BY <1>6
    <2>2. CASE workers'[v] = workers[v]
        BY <2>1, <2>2, <1>8, <1>11, PointerStays
    <2>3. CASE workers'[v] # workers[v]
        <3>1. workers'[v] = Released(workers[v]) /\ workers[v] \in WorkerRecord
            BY <2>1, <2>3, <1>1, <1>6 DEF TypeOK
        <3> QED
            BY <3>1, ReleasedType, PointerReleased
    <2> QED
        BY <2>2, <2>3
<1> QED
    BY <1>11, <1>12 DEF PointersOK

\* The workers that are still on the thread are released in the step that
\* completes it; the others are elsewhere.
LEMMA SubmitSolutionSafe ==
    ASSUME IInv, NEW w \in DOMAIN workers, NEW t, NEW i, SubmitSolution(w, t, i)
    PROVE  TasksInv' /\ Evolves /\ PointersOK'
<1> DEFINE thread == tasks[t].threads[i]
           written == [thread EXCEPT !.completed = TRUE]
           payment == WinnerReward(tasks[t])
           atThread(v) == /\ v \in Elements(thread.workers)
                          /\ workers[v].task = t /\ workers[v].thread = i
<1>1. /\ ThreadExists(t, i) /\ TypeOK /\ TasksInv
      /\ thread.proposedBy # NoWorker
    BY DEF SubmitSolution, SubmitSolutionOK, IInv, TasksInv
<1>2. thread \in Thread /\ tasks[t] \in Task
    BY <1>1, ThreadType
<1>3. payment \in Nat
    BY <1>1, <1>2, WinnerRewardType DEF ThreadExists
<1>4. /\ tasks' = PutThread(t, i, written)
      /\ workers' = [v \in DOMAIN workers |->
             IF v = w THEN DeclareWinner(workers[v], payment)
             ELSE IF atThread(v) THEN Released(workers[v])
             ELSE workers[v]]
    BY DEF SubmitSolution
<1> HIDE DEF payment
<1>5. /\ written \in Thread
      /\ written.workers = thread.workers
      /\ written.proposedBy = thread.proposedBy /\ written.accepted = thread.accepted
      /\ written.validations = thread.validations
      /\ written.frames = thread.frames
      /\ thread.completed => written = thread
    BY <1>2 DEF Thread
<1>6. ThreadInv(thread)
    BY <1>1 DEF TasksInv, ThreadsInv, ThreadExists
<1> HIDE DEF written
<1>7. ThreadInv(written) /\ ThreadStep(thread, written)
    BY <1>1, <1>5, <1>6 DEF ThreadInv, ThreadStep
<1>8. /\ TasksInv' /\ Evolves
      /\ \A u, j : ThreadExists(u, j) /\ (u # t \/ j # i) =>
             tasks'[u].threads[j] = tasks[u].threads[j]
    BY <1>1, <1>4, <1>5, <1>7, WriteThread
<1>9. ASSUME NEW v \in DOMAIN workers'
      PROVE  PointerOK(v)'
    <2>1. v \in DOMAIN workers /\ workers[v] \in WorkerRecord
        BY <1>1, <1>4 DEF TypeOK
    <2>2. CASE v = w
        <3>1. workers'[v] = DeclareWinner(workers[v], payment)
            BY <2>1, <2>2, <1>4
        <3> QED
            BY <2>1, <3>1, <1>3, DeclareWinnerType, PointerReleased
    <2>3. CASE v # w /\ atThread(v)
        <3>1. workers'[v] = Released(workers[v])
            BY <2>1, <2>3, <1>4
        <3> QED
            BY <2>1, <3>1, ReleasedType, PointerReleased
    <2>4. CASE v # w /\ ~atThread(v)
        <3>1. workers'[v] = workers[v]
            BY <2>1, <2>4, <1>4
        <3>2. CASE workers[v].task = EmptyId
            BY <3>1, <3>2, PointerReleased
        <3>3. CASE workers[v].task # EmptyId
            <4>1. workers[v].task # t \/ workers[v].thread # i
                BY <2>1, <2>4, <3>3 DEF IInv, PointerOK
            <4> QED
                BY <2>1, <3>1, <4>1, <1>8, PointerStays
        <3> QED
            BY <3>2, <3>3
    <2> QED
        BY <2>2, <2>3, <2>4
<1> QED
    BY <1>8, <1>9 DEF PointersOK

\* BeginBlock writes only to threads that are neither accepted nor completed.
LEMMA BeginBlockSafe ==
    ASSUME IInv, BeginBlock
    PROVE  TasksInv' /\ Evolves /\ PointersOK'
<1>1. /\ tasks' = [t \in DOMAIN tasks |-> Walked(tasks[t])] /\ workers' = workers
      /\ \A t \in DOMAIN tasks : tasks[t] \in Task
    BY DEF BeginBlock, IInv, TypeOK
<1>2. ASSUME NEW t \in DOMAIN tasks
      PROVE  /\ DOMAIN tasks'[t].threads = DOMAIN tasks[t].threads
             /\ tasks[t].completed => tasks'[t] = tasks[t]
    BY <1>1, WalkedFacts
<1>3. ASSUME NEW t \in DOMAIN tasks, NEW i \in DOMAIN tasks[t].threads
      PROVE  /\ ThreadInv(tasks'[t].threads[i])
             /\ ThreadStep(tasks[t].threads[i], tasks'[t].threads[i])
             /\ tasks'[t].threads[i].completed = tasks[t].threads[i].completed
    <2> DEFINE before == tasks[t].threads[i]
               after == tasks'[t].threads[i]
    <2>1. before \in Thread
        BY <1>1 DEF Task
    <2>2. ThreadInv(before)
        BY DEF IInv, ThreadsInv
    <2>3. \/ after = before
          \/ /\ ReadyToEvaluate(before)
             /\ after = [EvaluateVerifications(before) EXCEPT !.accepted = AcceptedNow(before)]
        BY <1>1, WalkedFacts
    <2>4. CASE after = before
        BY <2>2, <2>4, ThreadStepReflexive
    <2>5. CASE /\ ReadyToEvaluate(before)
               /\ after = [EvaluateVerifications(before) EXCEPT !.accepted = AcceptedNow(before)]
        <3> DEFINE evaluated == EvaluateVerifications(before)
        <3>1. /\ evaluated \in Thread
              /\ evaluated = [before EXCEPT !.frames = evaluated.frames]
            BY <2>1, EvaluateFacts
        <3> HIDE DEF evaluated
        <3>2. /\ after.workers = before.workers /\ after.proposedBy = before.proposedBy
              /\ after.validations = before.validations /\ after.completed = before.completed
            BY <2>1, <2>5, <3>1 DEF Thread, evaluated
        <3>3. before.proposedBy # NoWorker /\ ~before.accepted /\ ~before.completed
            BY <2>5 DEF ReadyToEvaluate
        <3> QED
            BY <2>2, <3>2, <3>3 DEF ThreadInv, ThreadStep
    <2> QED
        BY <2>3, <2>4, <2>5
<1>4. TasksInv'
    <2>1. EmptyIdIsEmpty'
        BY <1>1, <1>2 DEF IInv, EmptyIdIsEmpty, EmptyTask
    <2>2. ThreadsInv'
        BY <1>1, <1>2, <1>3 DEF ThreadsInv
    <2> QED
        BY <2>1, <2>2 DEF TasksInv
<1>5. Evolves
    BY <1>1, <1>2, <1>3 DEF Evolves, TaskStep
<1>6. \A w \in DOMAIN workers' : PointerOK(w)'
    BY <1>1, <1>3, <1>5, PointerStays DEF ThreadExists
<1> QED
    BY <1>4, <1>5, <1>6 DEF PointersOK

\* EndBlock writes to no thread, and the task it stores under the empty id has none.
LEMMA EndBlockSafe ==
    ASSUME IInv, EndBlock
    PROVE  TasksInv' /\ Evolves /\ PointersOK'
<1> DEFINE ended(t) == [tasks[t] EXCEPT !.completed = @ \/ AllThreadsCompleted(tasks[t])]
<1>1. /\ tasks' = Put([t \in DOMAIN tasks |-> ended(t)], EmptyId, EmptyTask)
      /\ workers' = workers
    BY DEF EndBlock
<1>2. ASSUME NEW t \in DOMAIN tasks
      PROVE  ended(t).threads = tasks[t].threads
    BY DEF IInv, TypeOK, Task
<1> HIDE DEF ended
<1>3. /\ DOMAIN tasks' = DOMAIN tasks \cup {EmptyId}
      /\ tasks'[EmptyId] = EmptyTask
      /\ \A t \in DOMAIN tasks : t # EmptyId => tasks'[t] = ended(t)
    BY <1>1 DEF Put
<1>4. \A t \in DOMAIN tasks : tasks'[t].threads = tasks[t].threads
    BY <1>2, <1>3 DEF IInv, EmptyIdIsEmpty
<1>5. DOMAIN EmptyTask.threads = {}
    BY DEF EmptyTask
<1>6. TasksInv'
    BY <1>3, <1>4, <1>5 DEF IInv, TasksInv, EmptyIdIsEmpty, ThreadsInv
<1>7. Evolves
    BY <1>3, <1>4, ThreadStepReflexive DEF Evolves, TaskStep
<1>8. ASSUME NEW w \in DOMAIN workers'
      PROVE  PointerOK(w)'
    <2>1. \A u, j : ThreadExists(u, j) =>
              tasks'[u].threads[j].completed = tasks[u].threads[j].completed
        BY <1>4 DEF ThreadExists
    <2> QED
        BY <1>1, <1>7, <2>1, PointerStays
<1> QED
    BY <1>6, <1>7, <1>8 DEF PointersOK

-----------------------------------------------------------------------------
(***************************************************************************)
(* The theorems.                                                           *)
(***************************************************************************)
\* The chain starts without tasks and workers, so the invariant holds.
LEMMA InitIInv ==
    ASSUME Init
    PROVE  IInv
BY InitType DEF Init, IInv, EmptyIdIsEmpty, ThreadsInv

\* Every step keeps the invariant and changes threads only as ThreadStep allows.
LEMMA NextSafe ==
    ASSUME IInv, [Next]_vars
    PROVE  IInv' /\ Evolves
<1>1. TypeOK'
    BY NextType DEF IInv
<1>2. CASE BeginBlock
    BY <1>1, <1>2, BeginBlockSafe DEF IInv, TasksInv, PointersOK
<1>3. CASE EndBlock
    BY <1>1, <1>3, EndBlockSafe DEF IInv, TasksInv, PointersOK
<1>4. ASSUME NEW r \in Requester, NEW spec \in TaskSpec, CreateVideoRenderingTask(r, spec)
      PROVE  IInv' /\ Evolves
    BY <1>1, <1>4, CreateSafe DEF IInv, TasksInv, PointersOK
<1>5. ASSUME NEW w \in Worker, NEW stake \in Stake, AddWorker(w, stake)
      PROVE  IInv' /\ Evolves
    BY <1>1, <1>5, AddWorkerSafe DEF IInv, TasksInv, PointersOK
<1>6. ASSUME NEW w \in DOMAIN workers, NEW t \in DOMAIN tasks,
             NEW i \in DOMAIN tasks[t].threads,
             \/ SubscribeWorkerToTask(w, t, i)
             \/ \E names \in Proposals(t, i) : ProposeSolution(w, t, i, names)
             \/ \E S \in SUBSET Names(t, i) :
                    \E revealed \in [S -> Hash] : RevealSolution(w, t, i, revealed)
             \/ \E signed \in SignedInput : SubmitValidation(w, t, i, signed)
             \/ SubmitSolution(w, t, i)
      PROVE  IInv' /\ Evolves
    <2>1. CASE SubscribeWorkerToTask(w, t, i)
        BY <1>1, <2>1, SubscribeSafe DEF IInv, TasksInv, PointersOK
    <2>2. ASSUME NEW names \in Proposals(t, i), ProposeSolution(w, t, i, names)
          PROVE  IInv' /\ Evolves
        <3>1. names \in Seq(File)
            BY ProposalIsSequence DEF IInv, ThreadExists
        <3> QED
            BY <1>1, <2>2, <3>1, ProposeSafe DEF IInv, TasksInv, PointersOK
    <2>3. ASSUME NEW S \in SUBSET Names(t, i), NEW revealed \in [S -> Hash],
                 RevealSolution(w, t, i, revealed)
          PROVE  IInv' /\ Evolves
        BY <1>1, <2>3, RevealSafe DEF IInv, TasksInv, PointersOK
    <2>4. ASSUME NEW signed \in SignedInput, SubmitValidation(w, t, i, signed)
          PROVE  IInv' /\ Evolves
        BY <1>1, <2>4, SubmitValidationSafe DEF IInv, TasksInv, PointersOK
    <2>5. CASE SubmitSolution(w, t, i)
        BY <1>1, <2>5, SubmitSolutionSafe DEF IInv, TasksInv, PointersOK
    <2> QED
        BY <1>6, <2>1, <2>2, <2>3, <2>4, <2>5
<1>7. CASE UNCHANGED vars
    <2>1. IInv'
        BY <1>1, <1>7 DEF vars, IInv, EmptyIdIsEmpty, ThreadsInv, PointerOK, ThreadExists
    <2>2. Evolves
        BY <1>7, ThreadStepReflexive DEF vars, Evolves, TaskStep
    <2> QED
        BY <2>1, <2>2
<1> QED
    BY <1>2, <1>3, <1>4, <1>5, <1>6, <1>7 DEF Next, Request, Register, Transaction

\* The inductive invariant holds in every state that the chain reaches.
THEOREM Invariance == Spec => []IInv
<1>1. IInv /\ [Next]_vars => IInv'
    BY NextSafe
<1> QED
    BY InitIInv, <1>1, PTL DEF Spec

\* A busy worker's pointer always leads to a thread that lists him: the branches
\* "this shouldn't happen" of the handlers are indeed never taken.
THEOREM WorkersAreMembers == Spec => []ActiveWorkerIsMember
<1>1. IInv => ActiveWorkerIsMember
    BY DEF IInv, PointerOK, ActiveWorkerIsMember
<1> QED
    BY Invariance, <1>1, PTL

\* No worker is left behind on a completed thread.
THEOREM NobodyLeftBehind == Spec => []NoWorkerOnCompletedThread
<1>1. IInv => NoWorkerOnCompletedThread
    <2> SUFFICES ASSUME IInv, NEW w \in DOMAIN workers,
                        ThreadExists(workers[w].task, workers[w].thread)
                 PROVE  ~tasks[workers[w].task].threads[workers[w].thread].completed
        BY DEF NoWorkerOnCompletedThread
    <2>1. workers[w].task # EmptyId
        BY DEF IInv, EmptyIdIsEmpty, EmptyTask, ThreadExists
    <2> QED
        BY <2>1 DEF IInv, PointerOK
<1> QED
    BY Invariance, <1>1, PTL

\* The dereference of Solution in EndBlock, and so the block, never fails.
THEOREM ValidatedThreadsHaveSolutions == Spec => []ValidationNeedsSolution
<1>1. IInv => ValidationNeedsSolution
    BY DEF IInv, ThreadsInv, ThreadInv, ValidationNeedsSolution
<1> QED
    BY Invariance, <1>1, PTL

\* Proposals stay, acceptances stay, and what was accepted stays as it was.
THEOREM SolutionsAreStable == Spec => SolutionStable
<1> DEFINE Stable ==
        \A t \in DOMAIN tasks : \A i \in DOMAIN tasks[t].threads :
          LET before == tasks[t].threads[i]
              after == tasks'[t].threads[i]
          IN  /\ before.proposedBy # NoWorker => after.proposedBy = before.proposedBy
              /\ before.accepted => after.accepted /\ after.frames = before.frames
<1>1. IInv /\ [Next]_vars => [Stable]_vars
    BY NextSafe DEF Evolves, TaskStep, ThreadStep
<1> QED
    BY Invariance, <1>1, PTL DEF Spec, SolutionStable

\* Nothing writes to a completed thread.
THEOREM CompletedThreadsAreFinal == Spec => CompletedThreadIsFinal
<1> DEFINE Final ==
        \A t \in DOMAIN tasks : \A i \in DOMAIN tasks[t].threads :
          tasks[t].threads[i].completed => tasks'[t].threads[i] = tasks[t].threads[i]
<1>1. IInv /\ [Next]_vars => [Final]_vars
    BY NextSafe DEF Evolves, TaskStep, ThreadStep
<1> QED
    BY Invariance, <1>1, PTL DEF Spec, CompletedThreadIsFinal

=============================================================================
