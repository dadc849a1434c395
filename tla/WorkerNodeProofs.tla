-------------------------- MODULE WorkerNodeProofs --------------------------
(***************************************************************************)
(* A node beside the chain: its steps are steps of the chain, so that what *)
(* is proved of the chain holds beside any node; and what the node's       *)
(* tables, files and messages say agrees with what the chain has stored.   *)
(***************************************************************************)
EXTENDS WorkerNode, VideoRenderingAccounts

-----------------------------------------------------------------------------
(***************************************************************************)
(* What a thread keeps on the chain, and what it is created with.          *)
(***************************************************************************)
FrameNames(thread) == {thread.frames[f].name : f \in DOMAIN thread.frames}

\* With ThreadStep, what a step of the chain may do to a thread.
Grows(before, after) ==
    /\ after.startFrame = before.startFrame /\ after.endFrame = before.endFrame
    /\ before.validations # <<>> => after.validations # <<>>
    /\ before.proposedBy # NoWorker => FrameNames(after) = FrameNames(before)

\* The thread is one that some request asks for.
Shaped(t, i, thread) ==
    /\ t \in 1 .. MaxTasks
    /\ \E spec \in TaskSpec :
           /\ i \in 1 .. spec.threads
           /\ thread.startFrame = NewThread(spec, i).startFrame
           /\ thread.endFrame = NewThread(spec, i).endFrame

ShapeInv == \A t, i : ThreadExists(t, i) => Shaped(t, i, tasks[t].threads[i])

\* Neither proposed nor completed: what the node is asked of its own threads
\* does not ask anything more of this one.
Mine(before, after) ==
    after.proposedBy = Me => before.proposedBy = Me /\ after.completed = before.completed

Started(thread) == thread.proposedBy = NoWorker /\ ~thread.completed

\* Nothing that is kept is lost by doing nothing.
LEMMA GrowsReflexive ==
    ASSUME NEW thread
    PROVE  Grows(thread, thread) /\ Mine(thread, thread)
BY DEF Grows, Mine

\* A subscription adds a worker and nothing else.
LEMMA SubscribeGrows ==
    ASSUME IInv, NEW w \in DOMAIN workers, NEW t, NEW i, ThreadExists(t, i),
           SubscribeWorkerToTask(w, t, i)
    PROVE  Grows(tasks[t].threads[i], tasks'[t].threads[i]) /\ Mine(tasks[t].threads[i], tasks'[t].threads[i])
<1> DEFINE before == tasks[t].threads[i]
           after == tasks'[t].threads[i]
<1>1. Subscribed(before, after, w)
    BY SubscribeEffect
<1> HIDE DEF before, after
<1>2. Grows(before, after) /\ Mine(before, after)
    BY <1>1 DEF Subscribed, SameSolution, Grows, Mine, FrameNames
<1> QED
    BY <1>2 DEF before, after

\* A validation is added to those there are.
LEMMA SubmitValidationGrows ==
    ASSUME IInv, NEW w \in DOMAIN workers, NEW t, NEW i, NEW signed \in SignedInput,
           ThreadExists(t, i), SubmitValidation(w, t, i, signed)
    PROVE  Grows(tasks[t].threads[i], tasks'[t].threads[i]) /\ Mine(tasks[t].threads[i], tasks'[t].threads[i])
<1> DEFINE before == tasks[t].threads[i]
           after == tasks'[t].threads[i]
<1>1. Validated(before, after, w)
    BY SubmitValidationEffect
<1>2. before \in Thread
    BY ThreadType DEF IInv
<1> HIDE DEF before, after
<1>3. after.validations # <<>>
    <2>1. PICK v \in Validation : after.validations = Append(before.validations, v)
        BY <1>1 DEF Validated
    <2>2. before.validations \in Seq(Validation)
        BY <1>2 DEF Thread
    <2> QED
        BY <2>1, <2>2, AppendElements
<1>4. Grows(before, after) /\ Mine(before, after)
    BY <1>1, <1>3 DEF Validated, SameSolution, Grows, Mine, FrameNames
<1> QED
    BY <1>4 DEF before, after

\* A submission completes a thread of the worker who submits.
LEMMA SubmitSolutionGrows ==
    ASSUME IInv, NEW w \in DOMAIN workers, NEW t, NEW i, ThreadExists(t, i), SubmitSolution(w, t, i)
    PROVE  /\ Grows(tasks[t].threads[i], tasks'[t].threads[i])
           /\ tasks[t].threads[i].proposedBy = w /\ tasks'[t].threads[i].proposedBy = w
           /\ tasks'[t].threads[i].frames = tasks[t].threads[i].frames
<1> DEFINE before == tasks[t].threads[i]
           after == tasks'[t].threads[i]
<1>1. Submitted(before, after)
    BY SubmitSolutionEffect
<1>2. before.proposedBy = w
    BY DEF SubmitSolution, SubmitSolutionOK
<1> HIDE DEF before, after
<1>3. /\ Grows(before, after)
      /\ after.proposedBy = before.proposedBy /\ after.frames = before.frames
    BY <1>1 DEF Submitted, SameSolution, Grows, FrameNames
<1> QED
    BY <1>2, <1>3 DEF before, after

\* A proposal names the files of a thread that had none.
LEMMA ProposeGrows ==
    ASSUME IInv, NEW w \in DOMAIN workers, NEW t, NEW i, NEW names \in Proposals(t, i),
           ThreadExists(t, i), ProposeSolution(w, t, i, names)
    PROVE  /\ Grows(tasks[t].threads[i], tasks'[t].threads[i])
           /\ tasks'[t].threads[i].proposedBy = w
           /\ tasks'[t].threads[i].completed = tasks[t].threads[i].completed
           /\ FrameNames(tasks'[t].threads[i]) = Elements(names)
<1> DEFINE thread == tasks[t].threads[i]
           frames == [f \in DOMAIN names |->
               [name |-> names[f], hash |-> NoHash, valid |-> 0, invalid |-> 0]]
           after == [thread EXCEPT !.proposedBy = w, !.frames = frames]
<1>1. thread \in Thread /\ TypeOK /\ tasks' = PutThread(t, i, after) /\ thread.proposedBy = NoWorker
    BY ThreadType DEF IInv, ProposeSolution, ProposeSolutionOK
<1>2. w \in Worker /\ tasks \in [DOMAIN tasks -> Task]
    BY <1>1 DEF TypeOK
<1>3. frames \in Seq(Frame)
    BY <1>1, ProposalIsSequence, FramesOfNames
<1>4. DOMAIN frames = DOMAIN names /\ \A f \in DOMAIN frames : frames[f].name = names[f]
    OBVIOUS
<1> HIDE DEF frames
<1>5. /\ after \in Thread /\ after.frames = frames /\ after.proposedBy = w
      /\ after.completed = thread.completed /\ after.validations = thread.validations
      /\ after.startFrame = thread.startFrame /\ after.endFrame = thread.endFrame
    BY <1>1, <1>2, <1>3 DEF Thread
<1> HIDE DEF after
<1>6. tasks'[t].threads[i] = after
    BY <1>1, <1>2, <1>5, PutThreadFacts
<1>7. FrameNames(after) = Elements(names)
    BY <1>4, <1>5 DEF FrameNames, Elements
<1> QED
    BY <1>1, <1>5, <1>6, <1>7 DEF Grows

\* A reveal keeps the names it gives hashes to.
LEMMA RevealGrows ==
    ASSUME IInv, NEW w \in DOMAIN workers, NEW t, NEW i, NEW S, NEW revealed \in [S -> Hash],
           ThreadExists(t, i), RevealSolution(w, t, i, revealed)
    PROVE  Grows(tasks[t].threads[i], tasks'[t].threads[i]) /\ Mine(tasks[t].threads[i], tasks'[t].threads[i])
<1> DEFINE thread == tasks[t].threads[i]
           frames == Revealed(thread, revealed)
           after == [thread EXCEPT !.frames = frames]
<1>1. thread \in Thread /\ tasks \in [DOMAIN tasks -> Task] /\ tasks' = PutThread(t, i, after)
    BY ThreadType DEF IInv, TypeOK, RevealSolution
<1>2. frames \in Seq(Frame) /\ DOMAIN frames = DOMAIN thread.frames
    BY <1>1, RevealedFrames, Zenon DEF Revealed
<1>3. ASSUME NEW f \in DOMAIN thread.frames
      PROVE  frames[f].name = thread.frames[f].name
    <2>1. thread.frames[f] \in Frame
        BY <1>1 DEF Thread
    <2> QED
        BY <2>1, Zenon DEF Revealed, Frame
<1> HIDE DEF frames
<1>4. /\ after \in Thread /\ after.frames = frames /\ after.validations = thread.validations
      /\ after.proposedBy = thread.proposedBy /\ after.completed = thread.completed
      /\ after.startFrame = thread.startFrame /\ after.endFrame = thread.endFrame
    BY <1>1, <1>2 DEF Thread
<1> HIDE DEF after
<1>5. tasks'[t].threads[i] = after
    BY <1>1, <1>4, PutThreadFacts
<1>6. FrameNames(after) = FrameNames(thread)
    BY <1>2, <1>3, <1>4 DEF FrameNames
<1> QED
    BY <1>4, <1>5, <1>6 DEF Grows, Mine

\* Whatever a worker sends, the thread it is about keeps what it has; and what is
\* not sent by the node neither proposes nor completes in its name.
LEMMA HandlerGrows ==
    ASSUME IInv, NEW w \in DOMAIN workers, NEW t, NEW i, ThreadExists(t, i), Handles(w, t, i)
    PROVE  /\ Grows(tasks[t].threads[i], tasks'[t].threads[i])
           /\ w # Me => Mine(tasks[t].threads[i], tasks'[t].threads[i])
<1> DEFINE before == tasks[t].threads[i]
           after == tasks'[t].threads[i]
<1>1. CASE SubscribeWorkerToTask(w, t, i)
    BY <1>1, SubscribeGrows
<1>2. ASSUME NEW names \in Proposals(t, i), ProposeSolution(w, t, i, names)
      PROVE  Grows(before, after) /\ (w # Me => Mine(before, after))
    BY <1>2, ProposeGrows DEF Mine
<1>3. ASSUME NEW S \in SUBSET Names(t, i), NEW revealed \in [S -> Hash],
             RevealSolution(w, t, i, revealed)
      PROVE  Grows(before, after) /\ (w # Me => Mine(before, after))
    BY <1>3, RevealGrows
<1>4. ASSUME NEW signed \in SignedInput, SubmitValidation(w, t, i, signed)
      PROVE  Grows(before, after) /\ (w # Me => Mine(before, after))
    BY <1>4, SubmitValidationGrows
<1>5. CASE SubmitSolution(w, t, i)
    BY <1>5, SubmitSolutionGrows DEF Mine
<1> QED
    BY <1>1, <1>2, <1>3, <1>4, <1>5 DEF Handles

\* The walk of BeginBlock counts and accepts.
LEMMA WalkGrows ==
    ASSUME NEW task \in Task, NEW i \in DOMAIN task.threads
    PROVE  Grows(task.threads[i], Walked(task).threads[i]) /\ Mine(task.threads[i], Walked(task).threads[i])
<1> DEFINE before == task.threads[i]
           after == Walked(task).threads[i]
           evaluated == EvaluateVerifications(before)
<1>1. before \in Thread
    BY DEF Task
<1>2. after = before \/ after = [evaluated EXCEPT !.accepted = AcceptedNow(before)]
    BY WalkedFacts
<1>3. CASE after = before
    BY <1>3, GrowsReflexive
<1>4. CASE after = [evaluated EXCEPT !.accepted = AcceptedNow(before)]
    <2>1. /\ evaluated \in Thread /\ DOMAIN evaluated.frames = DOMAIN before.frames
          /\ \A f \in DOMAIN before.frames : evaluated.frames[f].name = before.frames[f].name
          /\ evaluated = [before EXCEPT !.frames = evaluated.frames]
        BY <1>1, EvaluateFacts
    <2> HIDE DEF before, evaluated, after
    <2>2. /\ evaluated.startFrame = before.startFrame /\ evaluated.endFrame = before.endFrame
          /\ evaluated.validations = before.validations
          /\ evaluated.proposedBy = before.proposedBy /\ evaluated.completed = before.completed
        BY <1>1, <2>1 DEF Thread
    <2>3. /\ after.startFrame = evaluated.startFrame /\ after.endFrame = evaluated.endFrame
          /\ after.validations = evaluated.validations /\ after.frames = evaluated.frames
          /\ after.proposedBy = evaluated.proposedBy /\ after.completed = evaluated.completed
        BY <1>4, <2>1 DEF Thread
    <2>4. FrameNames(after) = FrameNames(before)
        BY <2>1, <2>3 DEF FrameNames
    <2>5. Grows(before, after) /\ Mine(before, after)
        BY <2>2, <2>3, <2>4 DEF Grows, Mine
    <2> QED
        BY <2>5 DEF before, after
<1> QED
    BY <1>2, <1>3, <1>4

\* A step that is no transaction of a registered worker.
Quiet == BeginBlock \/ EndBlock \/ Request \/ (\E w \in Worker : Register(w)) \/ UNCHANGED vars

\* Such a step proposes and completes no thread; the threads it creates are started
\* as some request asked for.
LEMMA QuietGrows ==
    ASSUME IInv, Quiet, NEW t, NEW i, ThreadExists(t, i)'
    PROVE  \/ /\ ThreadExists(t, i)
              /\ Grows(tasks[t].threads[i], tasks'[t].threads[i])
              /\ Mine(tasks[t].threads[i], tasks'[t].threads[i])
           \/ /\ ~ThreadExists(t, i)
              /\ Started(tasks'[t].threads[i]) /\ Shaped(t, i, tasks'[t].threads[i])
<1>1. tasks \in [DOMAIN tasks -> Task] /\ \A u \in DOMAIN tasks : tasks[u] \in Task
    BY DEF IInv, TypeOK
<1>2. ASSUME ThreadExists(t, i), tasks'[t].threads[i] = tasks[t].threads[i]
      PROVE  /\ Grows(tasks[t].threads[i], tasks'[t].threads[i])
             /\ Mine(tasks[t].threads[i], tasks'[t].threads[i])
    BY <1>2, GrowsReflexive
<1>3. CASE BeginBlock
    <2>1. tasks' = [u \in DOMAIN tasks |-> Walked(tasks[u])]
        BY <1>3 DEF BeginBlock
    <2>2. ThreadExists(t, i) /\ tasks'[t] = Walked(tasks[t])
        BY <1>1, <2>1, WalkedFacts DEF ThreadExists
    <2> QED
        BY <1>1, <2>2, WalkGrows DEF ThreadExists
<1>4. CASE EndBlock
    <2> DEFINE ended(u) == [tasks[u] EXCEPT !.completed = @ \/ AllThreadsCompleted(tasks[u])]
    <2>1. tasks' = Put([u \in DOMAIN tasks |-> ended(u)], EmptyId, EmptyTask)
        BY <1>4 DEF EndBlock
    <2>2. \A u \in DOMAIN tasks : ended(u).threads = tasks[u].threads
        BY <1>1 DEF Task
    <2> HIDE DEF ended
    <2>3. DOMAIN EmptyTask.threads = {}
        BY DEF EmptyTask
    <2> QED
        BY <1>2, <2>1, <2>2, <2>3 DEF Put, ThreadExists
<1>5. ASSUME NEW r \in Requester, NEW spec \in TaskSpec, nextId <= MaxTasks,
             CreateVideoRenderingTask(r, spec)
      PROVE  \/ /\ ThreadExists(t, i)
                /\ Grows(tasks[t].threads[i], tasks'[t].threads[i])
                /\ Mine(tasks[t].threads[i], tasks'[t].threads[i])
             \/ /\ ~ThreadExists(t, i)
                /\ Started(tasks'[t].threads[i]) /\ Shaped(t, i, tasks'[t].threads[i])
    <2> DEFINE task == [completed |-> FALSE, reward |-> spec.reward, threads |-> GenerateThreads(spec)]
    <2>1. /\ tasks' = Put(tasks, nextId, task) /\ nextId \notin DOMAIN tasks
          /\ nextId \in Nat \ {0}
        BY <1>5 DEF CreateVideoRenderingTask, IInv, TypeOK, EmptyId
    <2>2. nextId \in 1 .. MaxTasks
        BY <1>5, <2>1, BoundAssumption
    <2>3. DOMAIN task.threads = 1 .. spec.threads
          /\ \A j \in DOMAIN task.threads : task.threads[j] = NewThread(spec, j)
        BY DEF GenerateThreads
    <2>4. \A j : Started(NewThread(spec, j))
        BY DEF NewThread, Started
    <2> HIDE DEF task
    <2>5. CASE t = nextId
        <3>1. ~ThreadExists(t, i) /\ i \in 1 .. spec.threads /\ tasks'[t].threads[i] = NewThread(spec, i)
            BY <2>1, <2>3, <2>5 DEF Put, ThreadExists
        <3> QED
            BY <2>2, <2>4, <2>5, <3>1 DEF Shaped
    <2>6. CASE t # nextId
        BY <1>2, <2>1, <2>6 DEF Put, ThreadExists
    <2> QED
        BY <2>5, <2>6
<1>6. ASSUME NEW w \in Worker, NEW stake \in Stake, AddWorker(w, stake)
      PROVE  /\ ThreadExists(t, i)
             /\ Grows(tasks[t].threads[i], tasks'[t].threads[i])
             /\ Mine(tasks[t].threads[i], tasks'[t].threads[i])
    BY <1>2, <1>6 DEF AddWorker, ThreadExists
<1>7. CASE UNCHANGED vars
    BY <1>2, <1>7 DEF vars, ThreadExists
<1> QED
    BY <1>3, <1>4, <1>5, <1>6, <1>7 DEF Quiet, Request, Register

\* A handler writes one thread.
LEMMA HandlerWritesOne ==
    ASSUME IInv, NEW w \in DOMAIN workers, NEW u, NEW j, ThreadExists(u, j), Handles(w, u, j),
           NEW t, NEW i, ThreadExists(t, i)'
    PROVE  /\ ThreadExists(t, i)
           /\ t # u \/ i # j => tasks'[t].threads[i] = tasks[t].threads[i]
<1>1. PICK written \in Thread : tasks' = PutThread(u, j, written)
    BY HandlerWrites DEF ThreadExists
<1> QED
    BY <1>1, PutThreadFacts DEF ThreadExists, IInv, TypeOK

\* Nothing is lost by a step of the chain.
LEMMA StepGrows ==
    ASSUME IInv, [Next]_vars, NEW t, NEW i, ThreadExists(t, i)'
    PROVE  \/ /\ ThreadExists(t, i)
              /\ Grows(tasks[t].threads[i], tasks'[t].threads[i])
           \/ /\ ~ThreadExists(t, i)
              /\ Started(tasks'[t].threads[i]) /\ Shaped(t, i, tasks'[t].threads[i])
<1>1. CASE Quiet
    BY <1>1, QuietGrows
<1>2. ASSUME NEW w \in DOMAIN workers, NEW u \in DOMAIN tasks,
             NEW j \in DOMAIN tasks[u].threads, Handles(w, u, j)
      PROVE  ThreadExists(t, i) /\ Grows(tasks[t].threads[i], tasks'[t].threads[i])
    <2>1. ThreadExists(u, j)
        BY DEF ThreadExists
    <2>2. ThreadExists(t, i) /\ (t # u \/ i # j => tasks'[t].threads[i] = tasks[t].threads[i])
        BY <1>2, <2>1, HandlerWritesOne
    <2>3. Grows(tasks[u].threads[j], tasks'[u].threads[j])
        BY <1>2, <2>1, HandlerGrows
    <2> QED
        BY <2>2, <2>3, GrowsReflexive
<1> QED
    BY <1>1, <1>2 DEF Next, Quiet, Transaction, Handles

\* Every thread is one that a request asked for.
LEMMA ShapeInductive ==
    ASSUME IInv, ShapeInv, [Next]_vars
    PROVE  ShapeInv'
<1> SUFFICES ASSUME NEW t, NEW i, ThreadExists(t, i)'
             PROVE  Shaped(t, i, tasks'[t].threads[i])
    BY DEF ShapeInv
<1>1. CASE ThreadExists(t, i) /\ Grows(tasks[t].threads[i], tasks'[t].threads[i])
    BY <1>1 DEF ShapeInv, Shaped, Grows
<1> QED
    BY <1>1, StepGrows

-----------------------------------------------------------------------------
(***************************************************************************)
(* The invariant of a node: what it holds, and has on the way, is about    *)
(* threads that exist, and says of them no more than the chain has stored. *)
(***************************************************************************)
HasSolution(id) == id \in ThreadIds /\ ThreadOf(id).proposedBy # NoWorker

HasValidations(id) ==
    id \in ThreadIds /\ ThreadOf(id).validations # <<>> /\ ThreadOf(id).proposedBy = Me

HasAcceptance(id) == id \in ThreadIds /\ ThreadOf(id).accepted /\ ThreadOf(id).proposedBy = Me

\* The names of the files of all frames of the thread.
AllFiles(thread) == {FrameFile[n] : n \in FramesOf(thread)}

\* A thread that the node proposed.
MineOK(thread) ==
    thread.proposedBy = Me =>
        /\ Me \in DOMAIN workers
        /\ thread.completed => thread.accepted
        /\ FrameNames(thread) = AllFiles(thread)

MineInv == \A t, i : ThreadExists(t, i) => MineOK(tasks[t].threads[i])

TablesOK ==
    /\ registered \in BOOLEAN
    /\ \A t \in DOMAIN subscriptions : subscriptions[t] \in [thread : Nat, subscribed : BOOLEAN]
    /\ flags \in [ThreadId -> SUBSET Submitting]
    /\ entries \in [ThreadId -> BOOLEAN]
    /\ DOMAIN files = ThreadId

\* The columns of a thread's row, as FlagsFollowChain has it.
Follow(id, columns) ==
    /\ "verificationStarted" \in columns => HasSolution(id)
    /\ "solutionRevealed" \in columns => HasValidations(id)
    /\ "submitionStarted" \in columns => HasAcceptance(id)

FlagsOK == \A id \in ThreadId : Follow(id, flags[id])

FilesOK == \A id \in ThreadId : \A n \in files[id] : id \in ThreadIds /\ n \in FramesOf(ThreadOf(id))

ContainersOK ==
    \A id \in DOMAIN container :
        id \in ThreadIds /\ container[id] \in [frame : FramesOf(ThreadOf(id)), exited : BOOLEAN]

\* A goroutine was started at a stage that the thread has reached.
Launched(g) ==
    /\ g \in Goroutine
    /\ g.does # "RegisterWorker" => g.id \in ThreadIds
    /\ \A k \in DOMAIN g.left : g.id \in ThreadIds /\ g.left[k] \in FramesOf(ThreadOf(g.id))
    /\ g.does = "SubmitVerification" => HasSolution(g.id)
    /\ g.does = "RevealSolution" => HasValidations(g.id)
    /\ g.does = "SubmitSolution" => HasAcceptance(g.id)

GoroutinesOK == \A g \in BagToSet(goroutines) : Launched(g)

\* A transaction of the node is one that a worker may send.
Sent(tx) ==
    /\ tx.msg # "AddWorker" => tx.id \in ThreadIds
    /\ tx.msg = "ProposeSolution" =>
           /\ tx.data \in [1 .. FrameTotal(ThreadOf(tx.id)) -> File]
           /\ Elements(tx.data) = AllFiles(ThreadOf(tx.id))
    /\ tx.msg = "RevealSolution" => tx.data \in [DOMAIN tx.data -> Hash]
    /\ tx.msg = "SubmitValidation" => tx.data \in SignedInput
    /\ tx.msg = "SubmitSolution" => HasAcceptance(tx.id)

PendingOK == pending = {} \/ \E tx \in pending : pending = {tx} /\ Sent(tx)

LocalInv == TablesOK /\ FlagsOK /\ FilesOK /\ ContainersOK /\ GoroutinesOK /\ PendingOK

ChainInv == IInv /\ SupportInv /\ ShapeInv

NodeInv == ChainInv /\ MineInv /\ LocalInv

-----------------------------------------------------------------------------
(***************************************************************************)
(* What the node knows of a thread stays true as the chain goes on.        *)
(***************************************************************************)
\* An accepted thread has been validated and a validated one proposed.
LEMMA StagesFollow ==
    ASSUME SupportInv, NEW id
    PROVE  /\ HasAcceptance(id) => HasValidations(id)
           /\ HasValidations(id) => HasSolution(id)
<1>1. Me # NoWorker
    BY NodeAssumption, AccountAssumption
<1>2. ASSUME HasAcceptance(id)
      PROVE  HasValidations(id)
    <2>1. PICK t \in DOMAIN tasks : id \in {<<t, i>> : i \in DOMAIN tasks[t].threads}
        BY <1>2 DEF HasAcceptance, ThreadIds
    <2>2. PICK i \in DOMAIN tasks[t].threads : id = <<t, i>>
        BY <2>1
    <2>3. ThreadOf(id) = tasks[t].threads[i] /\ ThreadExists(t, i)
        BY <2>2 DEF ThreadOf, ThreadExists
    <2>4. Supported(ThreadOf(id))
        BY <1>2, <2>3 DEF HasAcceptance, SupportInv, Support
    <2>5. DOMAIN ThreadOf(id).validations # {}
        BY <2>4 DEF Supported
    <2>6. ThreadOf(id).validations # <<>>
        BY <2>5
    <2> QED
        BY <1>2, <2>6 DEF HasAcceptance, HasValidations
<1> QED
    BY <1>1, <1>2 DEF HasValidations, HasSolution

\* The threads of the chain are among those the node has tables for, their frames
\* are numbers, and each has a file name.
LEMMA ThreadsHaveFiles ==
    ASSUME IInv, ShapeInv, NEW id \in ThreadIds
    PROVE  /\ id \in ThreadId /\ ThreadOf(id) \in Thread
           /\ ThreadOf(id).startFrame \in Int /\ ThreadOf(id).endFrame \in Int
           /\ FramesOf(ThreadOf(id)) \subseteq Int
           /\ FramesOf(ThreadOf(id)) \subseteq DOMAIN FrameFile
           /\ \A n \in FramesOf(ThreadOf(id)) : FrameFile[n] \in File
           /\ id[1] \in DOMAIN tasks /\ id[2] \in DOMAIN tasks[id[1]].threads
           /\ id = <<id[1], id[2]>> /\ ThreadExists(id[1], id[2])
<1>1. PICK t \in DOMAIN tasks : id \in {<<t, i>> : i \in DOMAIN tasks[t].threads}
    BY DEF ThreadIds
<1>2. PICK i \in DOMAIN tasks[t].threads : id = <<t, i>>
    BY <1>1
<1>3. ThreadOf(id) = tasks[t].threads[i] /\ ThreadExists(t, i)
    BY <1>2 DEF ThreadOf, ThreadExists
<1>4. ThreadOf(id) \in Thread
    BY <1>3, ThreadType DEF IInv
<1>5. ThreadOf(id).startFrame \in Int /\ ThreadOf(id).endFrame \in Int
    BY <1>4 DEF Thread
<1>6. Shaped(t, i, ThreadOf(id))
    BY <1>3 DEF ShapeInv
<1>7. PICK spec \in TaskSpec : /\ t \in 1 .. MaxTasks /\ i \in 1 .. spec.threads
                               /\ ThreadOf(id).startFrame = NewThread(spec, i).startFrame
                               /\ ThreadOf(id).endFrame = NewThread(spec, i).endFrame
    BY <1>6 DEF Shaped
<1>8. <<t, i>> \in ThreadId
    <2> DEFINE ofTask == {<<t, j>> : j \in 1 .. spec.threads}
               all == {{<<u, j>> : j \in 1 .. made.threads} : u \in 1 .. MaxTasks, made \in TaskSpec}
    <2>1. <<t, i>> \in ofTask
        BY <1>7, Zenon
    <2>2. ofTask \in all
        BY <1>7
    <2>3. ThreadId = UNION all
        BY DEF ThreadId
    <2> HIDE DEF ofTask, all
    <2> QED
        BY <2>1, <2>2, <2>3
<1>9. FramesOf(ThreadOf(id)) \subseteq DOMAIN FrameFile
    BY <1>7, NodeInputAssumption DEF FramesOf
<1>10. \A n \in DOMAIN FrameFile : FrameFile[n] \in File
    BY NodeAssumption
<1> HIDE DEF ThreadOf
<1>11. FramesOf(ThreadOf(id)) \subseteq Int
    BY <1>5 DEF FramesOf
<1> QED
    BY <1>2, <1>3, <1>4, <1>5, <1>8, <1>9, <1>10, <1>11 DEF ThreadOf

\* A thread that exists keeps its frames and every stage it has reached.
LEMMA StagesKept ==
    ASSUME IInv, [Next]_vars, NEW id
    PROVE  /\ id \in ThreadIds => /\ id \in ThreadIds'
                                  /\ ThreadOf(id).startFrame = ThreadOf(id)'.startFrame
                                  /\ ThreadOf(id).endFrame = ThreadOf(id)'.endFrame
           /\ HasSolution(id) => HasSolution(id)'
           /\ HasValidations(id) => HasValidations(id)'
           /\ HasAcceptance(id) => HasAcceptance(id)'
<1> SUFFICES ASSUME id \in ThreadIds
             PROVE  /\ id \in ThreadIds'
                    /\ ThreadOf(id).startFrame = ThreadOf(id)'.startFrame
                    /\ ThreadOf(id).endFrame = ThreadOf(id)'.endFrame
                    /\ HasSolution(id) => HasSolution(id)'
                    /\ HasValidations(id) => HasValidations(id)'
                    /\ HasAcceptance(id) => HasAcceptance(id)'
    BY DEF HasSolution, HasValidations, HasAcceptance
<1>1. PICK t \in DOMAIN tasks : id \in {<<t, i>> : i \in DOMAIN tasks[t].threads}
    BY DEF ThreadIds
<1>2. PICK i \in DOMAIN tasks[t].threads : id = <<t, i>>
    BY <1>1
<1> DEFINE before == tasks[t].threads[i]
           after == tasks'[t].threads[i]
<1>3. /\ t \in DOMAIN tasks' /\ i \in DOMAIN tasks'[t].threads
      /\ ThreadStep(before, after)
    BY NextSafe DEF Evolves, TaskStep
<1>4. Grows(before, after)
    BY <1>3, StepGrows DEF ThreadExists
<1>5. ThreadOf(id) = before /\ ThreadOf(id)' = after
    BY <1>2 DEF ThreadOf
<1>6. id \in ThreadIds'
    BY <1>2, <1>3 DEF ThreadIds
<1>7. Me # NoWorker
    BY NodeAssumption, AccountAssumption
<1> HIDE DEF before, after
<1> QED
    BY <1>3, <1>4, <1>5, <1>6, <1>7
    DEF ThreadStep, Grows, HasSolution, HasValidations, HasAcceptance

\* A goroutine stays justified.
LEMMA LaunchedKept ==
    ASSUME IInv, [Next]_vars, NEW g, Launched(g)
    PROVE  Launched(g)'
<1>1. g.id \in ThreadIds => /\ g.id \in ThreadIds'
                            /\ FramesOf(ThreadOf(g.id))' = FramesOf(ThreadOf(g.id))
    BY StagesKept DEF FramesOf
<1>2. /\ HasSolution(g.id) => HasSolution(g.id)'
      /\ HasValidations(g.id) => HasValidations(g.id)'
      /\ HasAcceptance(g.id) => HasAcceptance(g.id)'
    BY StagesKept
<1> QED
    BY <1>1, <1>2 DEF Launched

\* So does a transaction on the way.
LEMMA SentKept ==
    ASSUME IInv, [Next]_vars, NEW tx, Sent(tx)
    PROVE  Sent(tx)'
<1>1. tx.id \in ThreadIds => /\ tx.id \in ThreadIds'
                             /\ FramesOf(ThreadOf(tx.id))' = FramesOf(ThreadOf(tx.id))
                             /\ FrameTotal(ThreadOf(tx.id))' = FrameTotal(ThreadOf(tx.id))
    BY StagesKept DEF FramesOf, FrameTotal
<1>2. HasAcceptance(tx.id) => HasAcceptance(tx.id)'
    BY StagesKept
<1>3. tx.id \in ThreadIds => AllFiles(ThreadOf(tx.id))' = AllFiles(ThreadOf(tx.id))
    BY <1>1 DEF AllFiles
<1>4. tx.msg = "ProposeSolution" => tx.id \in ThreadIds
    BY DEF Sent
<1> QED
    BY <1>1, <1>2, <1>3, <1>4 DEF Sent

\* So do the rows, files, containers and transactions that the step leaves alone.
LEMMA FlagsKept ==
    ASSUME IInv, [Next]_vars, FlagsOK, flags' = flags
    PROVE  FlagsOK'
<1>1. ASSUME NEW id
      PROVE  /\ HasSolution(id) => HasSolution(id)'
             /\ HasValidations(id) => HasValidations(id)'
             /\ HasAcceptance(id) => HasAcceptance(id)'
    BY StagesKept
<1> QED
    BY <1>1 DEF FlagsOK, Follow

LEMMA FilesKept ==
    ASSUME IInv, [Next]_vars, FilesOK, files' = files
    PROVE  FilesOK'
<1>1. ASSUME NEW id \in ThreadIds
      PROVE  id \in ThreadIds' /\ FramesOf(ThreadOf(id))' = FramesOf(ThreadOf(id))
    BY StagesKept DEF FramesOf
<1> QED
    BY <1>1 DEF FilesOK

LEMMA ContainersKept ==
    ASSUME IInv, [Next]_vars, ContainersOK, container' = container
    PROVE  ContainersOK'
<1>1. ASSUME NEW id \in ThreadIds
      PROVE  id \in ThreadIds' /\ FramesOf(ThreadOf(id))' = FramesOf(ThreadOf(id))
    BY StagesKept DEF FramesOf
<1> QED
    BY <1>1 DEF ContainersOK

LEMMA PendingKept ==
    ASSUME IInv, [Next]_vars, PendingOK, pending' = pending
    PROVE  PendingOK'
BY SentKept DEF PendingOK

LEMMA TablesKept ==
    ASSUME TablesOK, UNCHANGED <<registered, subscriptions, flags, entries, files>>
    PROVE  TablesOK'
BY DEF TablesOK

-----------------------------------------------------------------------------
(***************************************************************************)
(* The goroutines, which leave the chain alone.                            *)
(***************************************************************************)
\* The bag of goroutines, seen as a set.
LEMMA BagFacts ==
    ASSUME NEW B, NEW g, NEW h, NEW S
    PROVE  /\ BagToSet(B (-) SetToBag({g})) \subseteq BagToSet(B)
           /\ BagToSet(B (-) SetToBag({g}) (+) SetToBag({h})) \subseteq BagToSet(B) \cup {h}
           /\ BagToSet(B (+) SetToBag(S)) = BagToSet(B) \cup S
<1>1. BagToSet(B (-) SetToBag({g})) \subseteq BagToSet(B)
    BY DEF (-), BagToSet
<1>2. \A C, T : BagToSet(C (+) SetToBag(T)) = BagToSet(C) \cup T
    BY DEF (+), BagToSet, SetToBag
<1> QED
    BY <1>1, <1>2

\* A goroutine that returns leaves the others as they are.
LEMMA ReturnsKeeps ==
    ASSUME IInv, [Next]_vars, GoroutinesOK, NEW g, Returns(g)
    PROVE  GoroutinesOK'
<1>1. BagToSet(goroutines)' \subseteq BagToSet(goroutines)
    BY BagFacts DEF Returns
<1> QED
    BY <1>1, LaunchedKept DEF GoroutinesOK

\* A goroutine moves on to a point that is in order.
LEMMA BecomesKeeps ==
    ASSUME IInv, [Next]_vars, GoroutinesOK, NEW g, NEW h, Launched(h), Becomes(g, h)
    PROVE  GoroutinesOK'
<1>1. BagToSet(goroutines)' \subseteq BagToSet(goroutines) \cup {h}
    BY BagFacts DEF Becomes
<1> QED
    BY <1>1, LaunchedKept DEF GoroutinesOK

\* Where a goroutine is does not matter to what it was started for.
LEMMA GoesToKeeps ==
    ASSUME IInv, [Next]_vars, GoroutinesOK, NEW g \in BagToSet(goroutines),
           NEW pc \in {"start", "check", "download", "get", "render", "wait", "send", "sent"},
           GoesTo(g, pc)
    PROVE  GoroutinesOK'
<1> DEFINE h == [g EXCEPT !.pc = pc]
<1>1. Launched(g) /\ g \in Goroutine
    BY DEF GoroutinesOK, Launched
<1>2. h \in Goroutine /\ h.does = g.does /\ h.id = g.id /\ h.left = g.left
    BY <1>1 DEF Goroutine
<1>3. Becomes(g, h)
    BY DEF GoesTo
<1> HIDE DEF h
<1>4. Launched(h)
    BY <1>1, <1>2 DEF Launched
<1> QED
    BY <1>3, <1>4, BecomesKeeps

\* The goroutines that a block starts join those that run.
LEMMA StartsKeeps ==
    ASSUME IInv, [Next]_vars, GoroutinesOK, NEW new, Starts(new), \A g \in new : Launched(g)'
    PROVE  GoroutinesOK'
<1>1. BagToSet(goroutines)' = BagToSet(goroutines) \cup new
    BY BagFacts DEF Starts
<1> QED
    BY <1>1, LaunchedKept DEF GoroutinesOK

\* The eight columns, as they are written.
LEMMA ColumnSets ==
    /\ Starting \subseteq Submitting /\ Downloading \subseteq Submitting
    /\ Downloaded \subseteq Submitting /\ Failed \subseteq Submitting
    /\ Rendered \subseteq Submitting /\ Proposed \subseteq Submitting
    /\ Verifying \subseteq Submitting /\ Shown \subseteq Submitting
    /\ \A columns \in {Starting, Downloading, Downloaded, Failed, Rendered, Proposed} :
           /\ "verificationStarted" \notin columns
           /\ "solutionRevealed" \notin columns /\ "submitionStarted" \notin columns
    /\ "solutionRevealed" \notin Verifying /\ "submitionStarted" \notin Verifying
    /\ "submitionStarted" \notin Shown
BY DEF Starting, Downloading, Downloaded, Failed, Rendered, Proposed, Verifying, Shown, Submitting

\* Columns before those of verification claim nothing of the chain.
LEMMA EarlyColumns ==
    ASSUME NEW id, NEW columns \in {Starting, Downloading, Downloaded, Failed, Rendered, Proposed}
    PROVE  columns \in SUBSET Submitting /\ Follow(id, columns)
<1>1. columns \subseteq Submitting
    BY ColumnSets
<1>2. /\ "verificationStarted" \notin columns
      /\ "solutionRevealed" \notin columns /\ "submitionStarted" \notin columns
    BY ColumnSets
<1> QED
    BY <1>1, <1>2 DEF Follow

\* A row that is written follows the chain, and so do the others.
LEMMA UpdateKeeps ==
    ASSUME NodeInv, UNCHANGED vars, NEW id \in ThreadId, NEW columns \in SUBSET Submitting,
           Follow(id, columns), UpdateThread(id, columns)
    PROVE  flags' \in [ThreadId -> SUBSET Submitting] /\ FlagsOK'
<1>1. flags \in [ThreadId -> SUBSET Submitting] /\ FlagsOK
    BY DEF NodeInv, LocalInv, TablesOK
<1>2. flags' \in [ThreadId -> SUBSET Submitting]
    BY <1>1 DEF UpdateThread
<1>3. /\ flags'[id] = columns
      /\ \A other \in ThreadId : other # id => flags'[other] = flags[other]
    BY <1>1 DEF UpdateThread
<1>4. \A other \in ThreadId : Follow(other, flags'[other])
    BY <1>1, <1>3 DEF FlagsOK
<1>5. ASSUME NEW other
      PROVE  /\ HasSolution(other)' <=> HasSolution(other)
             /\ HasValidations(other)' <=> HasValidations(other)
             /\ HasAcceptance(other)' <=> HasAcceptance(other)
    BY DEF vars, HasSolution, HasValidations, HasAcceptance, ThreadIds, ThreadOf
<1> QED
    BY <1>2, <1>4, <1>5 DEF FlagsOK, Follow

\* The frames of a thread are rendered in an order that has each of them.
LEMMA RenderOrderFacts ==
    ASSUME NEW thread \in Thread
    PROVE  /\ RenderOrder(thread) \in Seq(Int)
           /\ \A k \in DOMAIN RenderOrder(thread) : RenderOrder(thread)[k] \in FramesOf(thread)
<1> DEFINE s == thread.startFrame
           e == thread.endFrame
           n == FrameTotal(thread)
           order == RenderOrder(thread)
<1>1. s \in Int /\ e \in Int /\ n = e - s + 1
    BY DEF Thread, FrameTotal
<1>2. order = [k \in 1 .. n |-> IF IsReverse(thread) THEN e - k + 1 ELSE s + k - 1]
    BY DEF RenderOrder
<1> HIDE DEF order, n, s, e
<1>3. \A k \in 1 .. n : order[k] \in s .. e
    BY <1>1, <1>2
<1>4. order \in Seq(Int)
    <2>1. DOMAIN order = 1 .. n /\ \A k \in 1 .. n : order[k] \in Int
        BY <1>1, <1>2, <1>3
    <2>2. CASE n \in Nat
        <3>1. order = [k \in 1 .. n |-> order[k]]
            BY <1>2, <2>1
        <3>2. order \in [1 .. n -> Int]
            BY <2>1, <3>1
        <3> QED
            BY <2>2, <3>2
    <2>3. CASE n \notin Nat
        <3>1. 1 .. n = {}
            BY <1>1, <2>3
        <3>2. order = <<>>
            BY <1>2, <3>1
        <3> QED
            BY <3>2
    <2> QED
        BY <2>2, <2>3
<1>5. DOMAIN order = 1 .. n
    BY <1>2
<1> QED
    BY <1>3, <1>4, <1>5 DEF order, s, e, FramesOf

\* A goroutine of the node, but RegisterWorker, is about a thread of the chain.
LEMMA RoutineFacts ==
    ASSUME NodeInv, NEW g \in BagToSet(goroutines)
    PROVE  /\ Launched(g) /\ g \in Goroutine
           /\ g.does # "RegisterWorker" =>
                  /\ g.id \in ThreadIds /\ g.id \in ThreadId /\ ThreadOf(g.id) \in Thread
<1>1. Launched(g)
    BY DEF NodeInv, LocalInv, GoroutinesOK
<1> QED
    BY <1>1, ThreadsHaveFiles DEF Launched, NodeInv, ChainInv

\* Removing a container leaves the others.
LEMMA RemoveKeeps ==
    ASSUME NodeInv, UNCHANGED vars, NEW id, RemoveContainer(id)
    PROVE  ContainersOK'
<1>1. ContainersOK /\ IInv
    BY DEF NodeInv, LocalInv, ChainInv
<1>2. CASE container' = container
    BY <1>1, <1>2, ContainersKept
<1>3. CASE container' = [c \in {d \in DOMAIN container : d # id \/ ~container[d].exited} |-> container[c]]
    <2>1. \A c \in DOMAIN container' : c \in DOMAIN container /\ container'[c] = container[c]
        BY <1>3
    <2>2. ThreadIds' = ThreadIds /\ \A c : ThreadOf(c)' = ThreadOf(c)
        BY DEF vars, ThreadIds, ThreadOf
    <2> QED
        BY <1>1, <2>1, <2>2 DEF ContainersOK
<1> QED
    BY <1>2, <1>3 DEF RemoveContainer

\* StartWork writes early columns and fills the directory of its thread.
LEMMA StartWorkKeeps ==
    ASSUME NodeInv, UNCHANGED vars, NEW g \in BagToSet(goroutines),
           StartWork(g), UNCHANGED <<registered, subscriptions>>
    PROVE  LocalInv'
<1>1. g.does = "StartWork" /\ files' = files /\ pending' = pending
    BY DEF StartWork
<1>2. /\ Launched(g) /\ g \in Goroutine /\ g.id \in ThreadIds /\ g.id \in ThreadId
      /\ ThreadOf(g.id) \in Thread
    BY <1>1, RoutineFacts
<1>3. IInv /\ LocalInv
    BY DEF NodeInv, ChainInv
<1>4. FilesOK' /\ PendingOK'
    BY <1>1, <1>3, FilesKept, PendingKept DEF LocalInv
<1>5. ASSUME NEW columns \in {Starting, Downloading, Downloaded, Failed, Rendered, Proposed},
             UpdateThread(g.id, columns)
      PROVE  flags' \in [ThreadId -> SUBSET Submitting] /\ FlagsOK'
    BY <1>2, <1>5, EarlyColumns, UpdateKeeps
<1>6. ASSUME flags' = flags
      PROVE  flags' \in [ThreadId -> SUBSET Submitting] /\ FlagsOK'
    BY <1>3, <1>6, FlagsKept DEF LocalInv, TablesOK
<1>7. ASSUME container' = container
      PROVE  ContainersOK'
    BY <1>3, <1>7, ContainersKept DEF LocalInv
<1>8. ASSUME Returns(g)
      PROVE  GoroutinesOK'
    BY <1>3, <1>8, ReturnsKeeps DEF LocalInv
<1>9. ASSUME NEW pc \in {"start", "check", "download", "get", "render", "wait", "send", "sent"},
             GoesTo(g, pc)
      PROVE  GoroutinesOK'
    BY <1>3, <1>9, GoesToKeeps DEF LocalInv
<1>10. entries \in [ThreadId -> BOOLEAN] /\ TablesOK
    BY <1>3 DEF LocalInv, TablesOK
<1>11. ASSUME flags' \in [ThreadId -> SUBSET Submitting], entries' \in [ThreadId -> BOOLEAN]
       PROVE  TablesOK'
    BY <1>1, <1>10, <1>11 DEF TablesOK
<1>12. CASE /\ g.pc = "start" /\ UpdateThread(g.id, Starting) /\ GoesTo(g, "check")
            /\ UNCHANGED <<entries, container>>
    BY <1>4, <1>5, <1>7, <1>9, <1>10, <1>11, <1>12 DEF LocalInv
<1>13. CASE Returns(g) /\ UNCHANGED <<flags, entries, container>>
    BY <1>4, <1>6, <1>7, <1>8, <1>10, <1>11, <1>13 DEF LocalInv
<1>14. CASE RemoveContainer(g.id) /\ GoesTo(g, "download") /\ UNCHANGED <<flags, entries>>
    <2>1. ContainersOK'
        BY <1>14, RemoveKeeps
    <2> QED
        BY <1>4, <1>6, <1>9, <1>10, <1>11, <1>14, <2>1 DEF LocalInv
<1>15. CASE UpdateThread(g.id, Downloading) /\ GoesTo(g, "get") /\ UNCHANGED <<entries, container>>
    BY <1>4, <1>5, <1>7, <1>9, <1>10, <1>11, <1>15 DEF LocalInv
<1>16. CASE IPFSGet(g) /\ UNCHANGED container
    <2>1. CASE /\ UpdateThread(g.id, Downloaded) /\ entries' = [entries EXCEPT ![g.id] = TRUE]
               /\ Becomes(g, [g EXCEPT !.pc = "render", !.left = RenderOrder(ThreadOf(g.id))])
        <3> DEFINE h == [g EXCEPT !.pc = "render", !.left = RenderOrder(ThreadOf(g.id))]
        <3>1. /\ RenderOrder(ThreadOf(g.id)) \in Seq(Int)
              /\ \A k \in DOMAIN RenderOrder(ThreadOf(g.id)) :
                     RenderOrder(ThreadOf(g.id))[k] \in FramesOf(ThreadOf(g.id))
            BY <1>2, RenderOrderFacts
        <3>2. h \in Goroutine /\ h.does = "StartWork" /\ h.id = g.id
              /\ h.left = RenderOrder(ThreadOf(g.id))
            BY <1>1, <1>2, <3>1 DEF Goroutine
        <3> HIDE DEF h
        <3>3. Launched(h)
            BY <1>2, <3>1, <3>2 DEF Launched
        <3>4. GoroutinesOK'
            BY <1>3, <2>1, <3>3, BecomesKeeps DEF LocalInv, h
        <3>5. entries' \in [ThreadId -> BOOLEAN]
            BY <1>2, <1>10, <2>1
        <3> QED
            BY <1>4, <1>5, <1>7, <1>11, <1>16, <2>1, <3>4, <3>5 DEF LocalInv
    <2>2. CASE /\ UpdateThread(g.id, Downloading)
               /\ \E some \in BOOLEAN : entries' = [entries EXCEPT ![g.id] = @ \/ some]
               /\ Returns(g)
        <3>1. entries' \in [ThreadId -> BOOLEAN]
            BY <1>2, <1>10, <2>2, Zenon
        <3> QED
            BY <1>4, <1>5, <1>7, <1>8, <1>11, <1>16, <2>2, <3>1 DEF LocalInv
    <2> QED
        BY <1>16, <2>1, <2>2 DEF IPFSGet
<1>17. CASE /\ UpdateThread(g.id, IF AllRendered(g.id) THEN Rendered ELSE Failed) /\ Returns(g)
            /\ UNCHANGED <<entries, container>>
    BY <1>4, <1>5, <1>7, <1>8, <1>10, <1>11, <1>17 DEF LocalInv
<1> QED
    BY <1>12, <1>13, <1>14, <1>15, <1>16, <1>17 DEF StartWork

\* A frame that is done with, or passed over, leaves fewer to render.
LEMMA TailFacts ==
    ASSUME NEW S, NEW s \in Seq(S), s # <<>>
    PROVE  /\ Tail(s) \in Seq(S) /\ Head(s) = s[1] /\ 1 \in DOMAIN s
           /\ \A k \in DOMAIN Tail(s) : k + 1 \in DOMAIN s /\ Tail(s)[k] = s[k + 1]
OBVIOUS

\* A container renders a frame of its thread.
LEMMA RenderFrameKeeps ==
    ASSUME NodeInv, UNCHANGED vars, NEW g \in BagToSet(goroutines),
           RenderFrame(g), UNCHANGED <<registered, subscriptions>>
    PROVE  LocalInv'
<1> DEFINE h == [g EXCEPT !.pc = "render", !.left = Tail(@)]
<1>1. /\ g.does = "StartWork" /\ g.left # <<>>
      /\ UNCHANGED <<flags, entries, files, pending>>
    BY DEF RenderFrame
<1>2. Launched(g) /\ g \in Goroutine /\ g.id \in ThreadIds /\ g.id \in ThreadId
    BY <1>1, RoutineFacts
<1>3. IInv /\ LocalInv
    BY DEF NodeInv, ChainInv
<1>4. FlagsOK' /\ FilesOK' /\ PendingOK' /\ TablesOK'
    BY <1>1, <1>3, FlagsKept, FilesKept, PendingKept, TablesKept DEF LocalInv
<1>5. g.left \in Seq(Int) /\ \A k \in DOMAIN g.left : g.left[k] \in FramesOf(ThreadOf(g.id))
    BY <1>2 DEF Launched, Goroutine
<1>6. /\ Tail(g.left) \in Seq(Int) /\ Head(g.left) \in FramesOf(ThreadOf(g.id))
      /\ \A k \in DOMAIN Tail(g.left) : Tail(g.left)[k] \in FramesOf(ThreadOf(g.id))
    BY <1>1, <1>5, TailFacts
<1>7. h \in Goroutine /\ h.does = "StartWork" /\ h.id = g.id /\ h.left = Tail(g.left)
    BY <1>1, <1>2, <1>6 DEF Goroutine
<1> HIDE DEF h
<1>8. Launched(h)
    BY <1>2, <1>6, <1>7 DEF Launched
<1>9. ASSUME Becomes(g, h)
      PROVE  GoroutinesOK'
    BY <1>3, <1>8, <1>9, BecomesKeeps DEF LocalInv
<1>10. ASSUME NEW pc \in {"start", "check", "download", "get", "render", "wait", "send", "sent"},
              GoesTo(g, pc)
       PROVE  GoroutinesOK'
    BY <1>3, <1>10, GoesToKeeps DEF LocalInv
<1>11. CASE Becomes(g, h) /\ UNCHANGED container
    BY <1>3, <1>4, <1>9, <1>11, ContainersKept DEF LocalInv
<1>12. CASE /\ container' = Put(container, g.id, [frame |-> Head(g.left), exited |-> FALSE])
            /\ GoesTo(g, "wait")
    <2>1. \A id \in DOMAIN container' :
              \/ id = g.id /\ container'[id] = [frame |-> Head(g.left), exited |-> FALSE]
              \/ id \in DOMAIN container /\ container'[id] = container[id]
        BY <1>12 DEF Put
    <2>2. ThreadIds' = ThreadIds /\ \A id : ThreadOf(id)' = ThreadOf(id)
        BY DEF vars, ThreadIds, ThreadOf
    <2>3. [frame |-> Head(g.left), exited |-> FALSE] \in [frame : FramesOf(ThreadOf(g.id)), exited : BOOLEAN]
        BY <1>6
    <2>4. ContainersOK'
        BY <1>2, <1>3, <2>1, <2>2, <2>3 DEF LocalInv, ContainersOK
    <2> QED
        BY <1>4, <1>10, <1>12, <2>4 DEF LocalInv
<1>13. CASE /\ RemoveContainer(g.id)
            /\ IF Head(g.left) \in files[g.id] THEN Becomes(g, h) ELSE GoesTo(g, "render")
    <2>1. ContainersOK'
        BY <1>13, RemoveKeeps
    <2> QED
        BY <1>4, <1>9, <1>10, <1>13, <2>1 DEF LocalInv
<1> QED
    BY <1>11, <1>12, <1>13 DEF RenderFrame, h

\* A container that ends may leave the file of its frame.
LEMMA ContainerExitsKeeps ==
    ASSUME NodeInv, UNCHANGED vars, NEW id \in DOMAIN container,
           ContainerExits(id), UNCHANGED <<registered, subscriptions>>
    PROVE  LocalInv'
<1>1. /\ UNCHANGED <<flags, entries, goroutines, pending>>
      /\ container' = [container EXCEPT ![id].exited = TRUE]
      /\ files' = files \/ files' = [files EXCEPT ![id] = @ \cup {container[id].frame}]
    BY DEF ContainerExits
<1>2. IInv /\ LocalInv
    BY DEF NodeInv, ChainInv
<1>3. /\ id \in ThreadIds /\ id \in ThreadId
      /\ container[id] \in [frame : FramesOf(ThreadOf(id)), exited : BOOLEAN]
    BY <1>2, ThreadsHaveFiles DEF NodeInv, ChainInv, LocalInv, ContainersOK
<1>4. ThreadIds' = ThreadIds /\ \A other : ThreadOf(other)' = ThreadOf(other)
    BY DEF vars, ThreadIds, ThreadOf
<1>5. FlagsOK' /\ PendingOK'
    BY <1>1, <1>2, FlagsKept, PendingKept DEF LocalInv
<1>6. GoroutinesOK'
    <2>1. BagToSet(goroutines)' = BagToSet(goroutines)
        BY <1>1
    <2> QED
        BY <1>2, <2>1, LaunchedKept DEF LocalInv, GoroutinesOK
<1>7. ContainersOK'
    <2>1. /\ DOMAIN container' = DOMAIN container
          /\ container'[id] \in [frame : FramesOf(ThreadOf(id)), exited : BOOLEAN]
          /\ \A other \in DOMAIN container : other # id => container'[other] = container[other]
        BY <1>1, <1>3
    <2> QED
        BY <1>2, <1>4, <2>1 DEF LocalInv, ContainersOK
<1>8. DOMAIN files = ThreadId /\ FilesOK
    BY <1>2 DEF LocalInv, TablesOK
<1>9. /\ DOMAIN files' = ThreadId
      /\ \A other \in ThreadId : \A n \in files'[other] :
             n \in files[other] \/ (other = id /\ n = container[id].frame)
    BY <1>1, <1>8
<1>10. FilesOK'
    BY <1>3, <1>4, <1>8, <1>9 DEF FilesOK
<1>11. TablesOK'
    BY <1>1, <1>2, <1>9 DEF LocalInv, TablesOK
<1> QED
    BY <1>5, <1>6, <1>7, <1>10, <1>11 DEF LocalInv

-----------------------------------------------------------------------------
(***************************************************************************)
(* The goroutines that send a transaction.                                 *)
(***************************************************************************)
\* As many files as frames are the files of all frames: a directory has no others.
LEMMA RenderedIsWhole ==
    ASSUME NodeInv, NEW id \in ThreadIds, AllRendered(id)
    PROVE  files[id] = FramesOf(ThreadOf(id)) /\ FileNames(id) = AllFiles(ThreadOf(id))
<1> DEFINE s == ThreadOf(id).startFrame
           e == ThreadOf(id).endFrame
<1>1. /\ id \in ThreadId /\ s \in Int /\ e \in Int
      /\ \A n \in files[id] : n \in FramesOf(ThreadOf(id))
    BY ThreadsHaveFiles DEF NodeInv, ChainInv, LocalInv, FilesOK
<1>2. FramesOf(ThreadOf(id)) = s .. e
    BY DEF FramesOf
<1>3. Cardinality(files[id]) = e - s + 1
    BY DEF AllRendered, FrameTotal
<1> HIDE DEF s, e
<1>4. IsFiniteSet(s .. e) /\ Cardinality(s .. e) = IF s > e THEN 0 ELSE e - s + 1
    BY <1>1, FS_Interval
<1>5. files[id] \subseteq s .. e
    BY <1>1, <1>2
<1>6. IsFiniteSet(files[id]) /\ Cardinality(files[id]) \in Nat
    BY <1>4, <1>5, FS_Subset, FS_CardinalityType
<1>7. Cardinality(files[id]) = Cardinality(s .. e)
    BY <1>1, <1>3, <1>4, <1>6
<1>8. files[id] = s .. e
    BY <1>4, <1>5, <1>7, FS_Subset
<1> QED
    BY <1>2, <1>8 DEF FileNames, AllFiles

\* The files of a thread have names that messages may carry, and hashes for them.
LEMMA HashesFacts ==
    ASSUME NodeInv, NEW id \in ThreadIds
    PROVE  /\ FileNames(id) \subseteq File
           /\ DOMAIN Hashes(id) = FileNames(id) /\ Hashes(id) \in [FileNames(id) -> Hash]
           /\ files[id] # {} => Hashes(id) \in SignedInput
<1>1. /\ id \in ThreadId
      /\ \A n \in FramesOf(ThreadOf(id)) : FrameFile[n] \in File
      /\ \A n \in files[id] : n \in FramesOf(ThreadOf(id))
    BY ThreadsHaveFiles DEF NodeInv, ChainInv, LocalInv, FilesOK
<1>2. FileNames(id) \subseteq File
    BY <1>1 DEF FileNames
<1>3. DOMAIN Hashes(id) = FileNames(id) /\ Hashes(id) \in [FileNames(id) -> Hash]
    BY NodeAssumption DEF Hashes
<1>4. files[id] # {} => FileNames(id) # {}
    BY DEF FileNames
<1>5. FileNames(id) # {} => Hashes(id) \in SignedInput
    BY <1>2, NodeInputAssumption DEF Hashes
<1> QED
    BY <1>2, <1>3, <1>4, <1>5

\* The client sends what it is given or nothing.
LEMMA CliKeeps ==
    ASSUME IInv, [Next]_vars, PendingOK, NEW tx, Sent(tx), CliSucceeds(tx) \/ CliFails(tx)
    PROVE  PendingOK'
<1>1. CASE CliSucceeds(tx)
    <2>1. pending' = {tx}
        BY <1>1 DEF CliSucceeds
    <2> QED
        BY <2>1, SentKept DEF PendingOK
<1>2. CASE CliFails(tx)
    BY <1>2, PendingKept DEF CliFails
<1> QED
    BY <1>1, <1>2

\* ProposeSolution sends a name per frame, and returns to the columns of a thread
\* that is rendered when it cannot.
LEMMA ProposeKeeps ==
    ASSUME NodeInv, UNCHANGED vars, NEW g \in BagToSet(goroutines), ThreadProposeSolution(g),
           UNCHANGED <<registered, subscriptions, entries, files, container>>
    PROVE  LocalInv'
<1>1. g.does = "ProposeSolution"
    BY DEF ThreadProposeSolution
<1>2. Launched(g) /\ g \in Goroutine /\ g.id \in ThreadIds /\ g.id \in ThreadId
    BY <1>1, RoutineFacts
<1>3. IInv /\ LocalInv
    BY DEF NodeInv, ChainInv
<1>4. FilesOK' /\ ContainersOK'
    BY <1>3, FilesKept, ContainersKept DEF LocalInv
<1>5. ASSUME NEW columns \in {Starting, Downloading, Downloaded, Failed, Rendered, Proposed},
             UpdateThread(g.id, columns)
      PROVE  TablesOK' /\ FlagsOK'
    <2>1. flags' \in [ThreadId -> SUBSET Submitting] /\ FlagsOK'
        BY <1>2, <1>5, EarlyColumns, UpdateKeeps
    <2> QED
        BY <1>3, <2>1 DEF LocalInv, TablesOK
<1>6. CASE g.pc = "start" /\ UpdateThread(g.id, Proposed) /\ GoesTo(g, "send") /\ UNCHANGED pending
    BY <1>3, <1>4, <1>5, <1>6, GoesToKeeps, PendingKept DEF LocalInv
<1>7. CASE UpdateThread(g.id, Rendered) /\ Returns(g) /\ UNCHANGED pending
    BY <1>3, <1>4, <1>5, <1>7, ReturnsKeeps, PendingKept DEF LocalInv
<1>8. ASSUME AllRendered(g.id), NEW names \in Listings(g.id),
             \/ CliSucceeds(Tx("ProposeSolution", g.id, names))
             \/ CliFails(Tx("ProposeSolution", g.id, names)),
             Returns(g), UNCHANGED flags
      PROVE  LocalInv'
    <2> DEFINE tx == Tx("ProposeSolution", g.id, names)
    <2>1. FileNames(g.id) = AllFiles(ThreadOf(g.id)) /\ FileNames(g.id) \subseteq File
        BY <1>2, <1>8, RenderedIsWhole, HashesFacts
    <2>2. names \in [1 .. FrameTotal(ThreadOf(g.id)) -> FileNames(g.id)] /\ Elements(names) = FileNames(g.id)
        BY <1>8 DEF Listings, AllRendered
    <2>3. names \in [1 .. FrameTotal(ThreadOf(g.id)) -> File]
        BY <2>1, <2>2
    <2>4. tx.msg = "ProposeSolution" /\ tx.id = g.id /\ tx.data = names
        BY DEF Tx
    <2>5. Sent(tx)
        BY <1>2, <2>1, <2>2, <2>3, <2>4 DEF Sent
    <2>6. PendingOK'
        BY <1>3, <1>8, <2>5, CliKeeps DEF LocalInv
    <2> QED
        BY <1>3, <1>4, <1>8, <2>6, FlagsKept, TablesKept, ReturnsKeeps DEF LocalInv
<1> QED
    BY <1>6, <1>7, <1>8 DEF ThreadProposeSolution

\* SubmitVerification sends signatures of the files it has.
LEMMA VerificationKeeps ==
    ASSUME NodeInv, UNCHANGED vars, NEW g \in BagToSet(goroutines), SubmitVerification(g),
           UNCHANGED <<registered, subscriptions, entries, files, container>>
    PROVE  LocalInv'
<1> DEFINE tx == Tx("SubmitValidation", g.id, Hashes(g.id))
<1>1. g.does = "SubmitVerification"
    BY DEF SubmitVerification
<1>2. /\ Launched(g) /\ g \in Goroutine /\ g.id \in ThreadIds /\ g.id \in ThreadId
      /\ HasSolution(g.id)
    BY <1>1, RoutineFacts DEF Launched
<1>3. IInv /\ LocalInv
    BY DEF NodeInv, ChainInv
<1>4. FilesOK' /\ ContainersOK'
    BY <1>3, FilesKept, ContainersKept DEF LocalInv
<1>5. ASSUME NEW columns \in {Proposed, Verifying}, UpdateThread(g.id, columns)
      PROVE  TablesOK' /\ FlagsOK'
    <2>1. columns \in SUBSET Submitting /\ Follow(g.id, columns)
        BY <1>2, <1>5, ColumnSets DEF Follow
    <2>2. flags' \in [ThreadId -> SUBSET Submitting] /\ FlagsOK'
        BY <1>2, <1>5, <2>1, UpdateKeeps
    <2> QED
        BY <1>3, <2>2 DEF LocalInv, TablesOK
<1>6. EnoughFiles(g.id) => Sent(tx)
    <2>1. EnoughFiles(g.id) => Hashes(g.id) \in SignedInput
        BY <1>2, HashesFacts DEF EnoughFiles
    <2>2. tx.msg = "SubmitValidation" /\ tx.id = g.id /\ tx.data = Hashes(g.id)
        BY DEF Tx
    <2> QED
        BY <1>2, <2>1, <2>2 DEF Sent
<1> HIDE DEF tx
<1>7. CASE g.pc = "start" /\ UpdateThread(g.id, Verifying) /\ GoesTo(g, "send") /\ UNCHANGED pending
    BY <1>3, <1>4, <1>5, <1>7, GoesToKeeps, PendingKept DEF LocalInv
<1>8. CASE EnoughFiles(g.id) /\ CliSucceeds(tx) /\ Returns(g) /\ UNCHANGED flags
    BY <1>3, <1>4, <1>6, <1>8, CliKeeps, FlagsKept, TablesKept, ReturnsKeeps DEF LocalInv
<1>9. CASE /\ UNCHANGED pending \/ (EnoughFiles(g.id) /\ CliFails(tx))
           /\ UpdateThread(g.id, Proposed) /\ Returns(g)
    <2>1. PendingOK'
        BY <1>3, <1>6, <1>9, CliKeeps, PendingKept DEF LocalInv
    <2> QED
        BY <1>3, <1>4, <1>5, <1>9, <2>1, ReturnsKeeps DEF LocalInv
<1> QED
    BY <1>7, <1>8, <1>9 DEF SubmitVerification, tx

\* RevealSolution sends a hash of every file, and then says that it has.
LEMMA RevealKeeps ==
    ASSUME NodeInv, UNCHANGED vars, NEW g \in BagToSet(goroutines), ThreadRevealSolution(g),
           UNCHANGED <<registered, subscriptions, entries, files, container>>
    PROVE  LocalInv'
<1> DEFINE tx == Tx("RevealSolution", g.id, Hashes(g.id))
<1>1. g.does = "RevealSolution"
    BY DEF ThreadRevealSolution
<1>2. /\ Launched(g) /\ g \in Goroutine /\ g.id \in ThreadIds /\ g.id \in ThreadId
      /\ HasValidations(g.id)
    BY <1>1, RoutineFacts DEF Launched
<1>3. IInv /\ LocalInv
    BY DEF NodeInv, ChainInv
<1>4. FilesOK' /\ ContainersOK'
    BY <1>3, FilesKept, ContainersKept DEF LocalInv
<1>5. ASSUME UpdateThread(g.id, Shown)
      PROVE  TablesOK' /\ FlagsOK'
    <2>1. HasSolution(g.id)
        BY <1>2, StagesFollow DEF NodeInv, ChainInv
    <2>2. Shown \in SUBSET Submitting /\ Follow(g.id, Shown)
        BY <1>2, <2>1, ColumnSets DEF Follow
    <2>3. flags' \in [ThreadId -> SUBSET Submitting] /\ FlagsOK'
        BY <1>2, <1>5, <2>2, UpdateKeeps
    <2> QED
        BY <1>3, <2>3 DEF LocalInv, TablesOK
<1>6. Sent(tx)
    <2>1. Hashes(g.id) \in [DOMAIN Hashes(g.id) -> Hash]
        BY <1>2, HashesFacts
    <2>2. tx.msg = "RevealSolution" /\ tx.id = g.id /\ tx.data = Hashes(g.id)
        BY DEF Tx
    <2> QED
        BY <1>2, <2>1, <2>2 DEF Sent
<1> HIDE DEF tx
<1>7. CASE CliSucceeds(tx) /\ GoesTo(g, "sent") /\ UNCHANGED flags
    BY <1>3, <1>4, <1>6, <1>7, CliKeeps, FlagsKept, TablesKept, GoesToKeeps DEF LocalInv
<1>8. CASE CliFails(tx) /\ Returns(g) /\ UNCHANGED flags
    BY <1>3, <1>4, <1>6, <1>8, CliKeeps, FlagsKept, TablesKept, ReturnsKeeps DEF LocalInv
<1>9. CASE UNCHANGED pending /\ Returns(g) /\ UNCHANGED flags
    BY <1>3, <1>4, <1>9, PendingKept, FlagsKept, TablesKept, ReturnsKeeps DEF LocalInv
<1>10. CASE UpdateThread(g.id, Shown) /\ Returns(g) /\ UNCHANGED pending
    BY <1>3, <1>4, <1>5, <1>10, PendingKept, ReturnsKeeps DEF LocalInv
<1> QED
    BY <1>7, <1>8, <1>9, <1>10 DEF ThreadRevealSolution, tx

\* SubmitSolution is about a thread of the node that was accepted when it was started,
\* and is accepted still.
LEMMA SubmitKeeps ==
    ASSUME NodeInv, UNCHANGED vars, NEW g \in BagToSet(goroutines), ThreadSubmitSolution(g),
           UNCHANGED <<registered, subscriptions, entries, files, container>>
    PROVE  LocalInv'
<1> DEFINE tx == Tx("SubmitSolution", g.id, <<>>)
<1>1. g.does = "SubmitSolution"
    BY DEF ThreadSubmitSolution
<1>2. /\ Launched(g) /\ g \in Goroutine /\ g.id \in ThreadIds /\ g.id \in ThreadId
      /\ HasAcceptance(g.id)
    BY <1>1, RoutineFacts DEF Launched
<1>3. IInv /\ LocalInv
    BY DEF NodeInv, ChainInv
<1>4. FilesOK' /\ ContainersOK'
    BY <1>3, FilesKept, ContainersKept DEF LocalInv
<1>5. ASSUME NEW columns \in {Shown, Submitting}, UpdateThread(g.id, columns)
      PROVE  TablesOK' /\ FlagsOK'
    <2>1. HasSolution(g.id) /\ HasValidations(g.id)
        BY <1>2, StagesFollow DEF NodeInv, ChainInv
    <2>2. columns \in SUBSET Submitting /\ Follow(g.id, columns)
        BY <1>2, <1>5, <2>1, ColumnSets DEF Follow
    <2>3. flags' \in [ThreadId -> SUBSET Submitting] /\ FlagsOK'
        BY <1>2, <1>5, <2>2, UpdateKeeps
    <2> QED
        BY <1>3, <2>3 DEF LocalInv, TablesOK
<1>6. Sent(tx)
    <2>1. tx.msg = "SubmitSolution" /\ tx.id = g.id
        BY DEF Tx
    <2> QED
        BY <1>2, <2>1 DEF Sent
<1> HIDE DEF tx
<1>7. CASE g.pc = "start" /\ UpdateThread(g.id, Submitting) /\ GoesTo(g, "send") /\ UNCHANGED pending
    BY <1>3, <1>4, <1>5, <1>7, PendingKept, GoesToKeeps DEF LocalInv
<1>8. CASE CliSucceeds(tx) /\ Returns(g) /\ UNCHANGED flags
    BY <1>3, <1>4, <1>6, <1>8, CliKeeps, FlagsKept, TablesKept, ReturnsKeeps DEF LocalInv
<1>9. CASE /\ CliFails(tx) \/ UNCHANGED pending
           /\ UpdateThread(g.id, Shown) /\ Returns(g)
    <2>1. PendingOK'
        BY <1>3, <1>6, <1>9, CliKeeps, PendingKept DEF LocalInv
    <2> QED
        BY <1>3, <1>4, <1>5, <1>9, <2>1, ReturnsKeeps DEF LocalInv
<1> QED
    BY <1>7, <1>8, <1>9 DEF ThreadSubmitSolution, tx

\* A subscription that is not sent is withdrawn from the row it was written to.
LEMMA SubscribeKeeps ==
    ASSUME NodeInv, UNCHANGED vars, NEW g \in BagToSet(goroutines), SubscribeWorker(g),
           UNCHANGED <<flags, entries, files, container>>
    PROVE  LocalInv'
<1> DEFINE tx == Tx("SubscribeWorkerToTask", g.id, <<>>)
<1>1. g.does = "SubscribeWorkerToTask" /\ Returns(g) /\ registered' = registered
    BY DEF SubscribeWorker
<1>2. Launched(g) /\ g.id \in ThreadIds
    BY <1>1, RoutineFacts
<1>3. IInv /\ LocalInv
    BY DEF NodeInv, ChainInv
<1>4. FlagsOK' /\ FilesOK' /\ ContainersOK' /\ GoroutinesOK'
    BY <1>1, <1>3, FlagsKept, FilesKept, ContainersKept, ReturnsKeeps DEF LocalInv
<1>5. Sent(tx)
    <2>1. tx.msg = "SubscribeWorkerToTask" /\ tx.id = g.id
        BY DEF Tx
    <2> QED
        BY <1>2, <2>1 DEF Sent
<1> HIDE DEF tx
<1>6. PendingOK'
    BY <1>3, <1>5, CliKeeps DEF SubscribeWorker, LocalInv, tx
<1>7. \/ subscriptions' = subscriptions
      \/ subscriptions' = [subscriptions EXCEPT ![g.id[1]].subscribed = FALSE]
    BY DEF SubscribeWorker
<1>8. \A t \in DOMAIN subscriptions' : subscriptions'[t] \in [thread : Nat, subscribed : BOOLEAN]
    <2>1. \A t \in DOMAIN subscriptions : subscriptions[t] \in [thread : Nat, subscribed : BOOLEAN]
        BY <1>3 DEF LocalInv, TablesOK
    <2>2. CASE subscriptions' = [subscriptions EXCEPT ![g.id[1]].subscribed = FALSE]
        <3>1. ASSUME NEW t \in DOMAIN subscriptions
              PROVE  /\ t # g.id[1] => subscriptions'[t] = subscriptions[t]
                     /\ t = g.id[1] => subscriptions'[t] = [subscriptions[t] EXCEPT !.subscribed = FALSE]
            BY <2>2
        <3>2. \A row \in [thread : Nat, subscribed : BOOLEAN] :
                  [row EXCEPT !.subscribed = FALSE] \in [thread : Nat, subscribed : BOOLEAN]
            OBVIOUS
        <3>3. DOMAIN subscriptions' = DOMAIN subscriptions
            BY <2>2
        <3> QED
            BY <2>1, <3>1, <3>2, <3>3
    <2> QED
        BY <1>7, <2>1, <2>2
<1> QED
    BY <1>1, <1>3, <1>4, <1>6, <1>8 DEF LocalInv, TablesOK

\* A registration that is not sent is withdrawn.
LEMMA RegisterKeeps ==
    ASSUME NodeInv, UNCHANGED vars, NEW g \in BagToSet(goroutines), RegisterWorker(g),
           UNCHANGED <<flags, entries, files, container>>
    PROVE  LocalInv'
<1> DEFINE tx == Tx("AddWorker", g.id, <<>>)
<1>1. IInv /\ LocalInv
    BY DEF NodeInv, ChainInv
<1>2. FlagsOK' /\ FilesOK' /\ ContainersOK'
    BY <1>1, FlagsKept, FilesKept, ContainersKept DEF LocalInv
<1>3. Sent(tx)
    <2>1. tx.msg = "AddWorker"
        BY DEF Tx
    <2> QED
        BY <2>1 DEF Sent
<1> HIDE DEF tx
<1>4. PendingOK'
    BY <1>1, <1>3, CliKeeps, PendingKept DEF RegisterWorker, LocalInv, tx
<1>5. GoroutinesOK'
    BY <1>1, GoesToKeeps, ReturnsKeeps DEF RegisterWorker, LocalInv
<1>6. TablesOK'
    <2>1. registered' \in BOOLEAN /\ subscriptions' = subscriptions
        BY <1>1 DEF RegisterWorker, LocalInv, TablesOK
    <2> QED
        BY <1>1, <2>1 DEF LocalInv, TablesOK
<1> QED
    BY <1>2, <1>4, <1>5, <1>6 DEF LocalInv

\* Whatever a goroutine does.
LEMMA RunsKeeps ==
    ASSUME NodeInv, UNCHANGED vars, NEW g \in BagToSet(goroutines), Runs(g)
    PROVE  LocalInv'
BY StartWorkKeeps, RenderFrameKeeps, ProposeKeeps, VerificationKeeps, RevealKeeps,
   SubmitKeeps, SubscribeKeeps, RegisterKeeps
DEF Runs

-----------------------------------------------------------------------------
(***************************************************************************)
(* The steps of the node that change the chain.                            *)
(***************************************************************************)
\* What the delivery of a transaction of the node does: it is refused, or it is one
\* that the chain lets the node's worker send.
LEMMA DeliverEffect ==
    ASSUME NodeInv, NEW tx \in pending, Execute(tx)
    PROVE  LET t == tx.id[1]
               i == tx.id[2]
           IN  \/ UNCHANGED vars
               \/ AddWorker(Me, MinWorkerStaking)
               \/ /\ Me \in DOMAIN workers /\ ThreadExists(t, i) /\ WithinBounds(tx)
                  /\ tx.id \in ThreadIds /\ ThreadOf(tx.id) = tasks[t].threads[i]
                  /\ \/ SubscribeWorkerToTask(Me, t, i)
                     \/ /\ tx.data \in Proposals(t, i) /\ ProposeSolution(Me, t, i, tx.data)
                        /\ Elements(tx.data) = AllFiles(tasks[t].threads[i])
                     \/ /\ DOMAIN tx.data \in SUBSET Names(t, i)
                        /\ tx.data \in [DOMAIN tx.data -> Hash]
                        /\ RevealSolution(Me, t, i, tx.data)
                     \/ /\ tx.msg = "SubmitValidation"
                        /\ tx.data \in SignedInput /\ SubmitValidation(Me, t, i, tx.data)
                     \/ /\ tx.msg = "SubmitSolution"
                        /\ HasAcceptance(tx.id) /\ SubmitSolution(Me, t, i)
<1> DEFINE t == tx.id[1]
           i == tx.id[2]
<1>1. Sent(tx)
    BY DEF NodeInv, LocalInv, PendingOK
<1>2. tx.msg # "AddWorker" =>
          /\ tx.id \in ThreadIds /\ ThreadExists(t, i) /\ ThreadOf(tx.id) = tasks[t].threads[i]
    BY <1>1, ThreadsHaveFiles DEF Sent, NodeInv, ChainInv, ThreadOf
<1>3. CASE tx.msg = "AddWorker" /\ AddWorker(Me, MinWorkerStaking)
    BY <1>3
<1>4. CASE WithinBounds(tx) /\ tx.msg = "SubscribeWorkerToTask" /\ SubscribeWorkerToTask(Me, t, i)
    <2>1. Me \in DOMAIN workers
        BY <1>4, Zenon DEF SubscribeWorkerToTask, SubscribeWorkerToTaskOK
    <2> QED
        BY <1>2, <1>4, <2>1
<1>5. CASE WithinBounds(tx) /\ tx.msg = "ProposeSolution" /\ ProposeSolution(Me, t, i, tx.data)
    <2>1. Me \in DOMAIN workers
        BY <1>5, SMTT(30) DEF ProposeSolution, ProposeSolutionOK
    <2>2. tx.data \in Proposals(t, i) /\ Elements(tx.data) = AllFiles(tasks[t].threads[i])
        BY <1>1, <1>2, <1>5 DEF Sent, FrameTotal, Proposals
    <2> QED
        BY <1>2, <1>5, <2>1, <2>2, SMTT(30)
<1>6. CASE WithinBounds(tx) /\ tx.msg = "RevealSolution" /\ RevealSolution(Me, t, i, tx.data)
    <2>1. Me \in DOMAIN workers
        BY <1>6, Zenon DEF RevealSolution, RevealSolutionOK
    <2>2. DOMAIN tx.data \in SUBSET Names(t, i)
        BY <1>6, Zenon DEF RevealSolution, RevealSolutionOK, Names
    <2>3. tx.data \in [DOMAIN tx.data -> Hash]
        BY <1>1, <1>6 DEF Sent
    <2> QED
        BY <1>2, <1>6, <2>1, <2>2, <2>3
<1>7. CASE WithinBounds(tx) /\ tx.msg = "SubmitValidation" /\ SubmitValidation(Me, t, i, tx.data)
    <2>1. Me \in DOMAIN workers
        BY <1>7, Zenon DEF SubmitValidation, SubmitValidationOK
    <2>2. tx.data \in SignedInput
        BY <1>1, <1>7 DEF Sent
    <2> QED
        BY <1>2, <1>7, <2>1, <2>2
<1>8. CASE WithinBounds(tx) /\ tx.msg = "SubmitSolution" /\ SubmitSolution(Me, t, i)
    <2>1. HasAcceptance(tx.id)
        BY <1>1, <1>8 DEF Sent
    <2>2. Me \in DOMAIN workers
        BY <1>2, <1>8, <2>1 DEF HasAcceptance, NodeInv, MineInv, MineOK
    <2> QED
        BY <1>2, <1>8, <2>1, <2>2
<1> QED
    BY <1>3, <1>4, <1>5, <1>6, <1>7, <1>8 DEF Execute

\* The chain beside a node does what the chain may do: every step of the node is a
\* step of the chain, or leaves it alone.
LEMMA NodeStep ==
    ASSUME NodeInv, [NodeNext]_allVars
    PROVE  [Next]_vars
<1>1. Me \in Worker /\ MinWorkerStaking \in Stake
    BY NodeAssumption, NodeInputAssumption
<1>2. ASSUME NEW tx \in pending, Execute(tx)
      PROVE  [Next]_vars
    <2> DEFINE t == tx.id[1]
               i == tx.id[2]
    <2>1. CASE AddWorker(Me, MinWorkerStaking)
        BY <1>1, <2>1 DEF Next, Register
    <2>2. ASSUME Me \in DOMAIN workers, ThreadExists(t, i), WithinBounds(tx),
                 ThreadOf(tx.id) = tasks[t].threads[i],
                 \/ SubscribeWorkerToTask(Me, t, i)
                 \/ tx.data \in Proposals(t, i) /\ ProposeSolution(Me, t, i, tx.data)
                 \/ /\ DOMAIN tx.data \in SUBSET Names(t, i)
                    /\ tx.data \in [DOMAIN tx.data -> Hash]
                    /\ RevealSolution(Me, t, i, tx.data)
                 \/ /\ tx.msg = "SubmitValidation"
                    /\ tx.data \in SignedInput /\ SubmitValidation(Me, t, i, tx.data)
                 \/ tx.msg = "SubmitSolution" /\ SubmitSolution(Me, t, i)
          PROVE  Next
        <3>1. Transaction(Me)
            BY <2>2 DEF Transaction, ThreadExists, WithinBounds
        <3> QED
            BY <2>2, <3>1 DEF Next
    <2> QED
        BY <1>2, <2>1, <2>2, DeliverEffect
<1>3. CASE NodeBeginBlock
    BY <1>3 DEF NodeBeginBlock, Next
<1>4. CASE NodeEndBlock
    BY <1>4 DEF NodeEndBlock, Next
<1>5. CASE RunGoroutine \/ Docker \/ LoseTransaction \/ Restart
    BY <1>5 DEF RunGoroutine, RunFunction, Docker, LoseTransaction, Restart
<1>6. CASE Others
    BY <1>6 DEF Others, Next
<1>7. CASE UNCHANGED allVars
    BY <1>7 DEF allVars
<1> QED
    BY <1>2, <1>3, <1>4, <1>5, <1>6, <1>7 DEF NodeNext, Deliver

-----------------------------------------------------------------------------
(***************************************************************************)
(* What the chain stores in the node's name.                               *)
(***************************************************************************)
\* Nobody who is registered is forgotten.
LEMMA WorkersStay ==
    ASSUME IInv, [Next]_vars
    PROVE  DOMAIN workers \subseteq DOMAIN workers'
<1>1. ASSUME NEW w \in Worker, NEW stake \in Stake, AddWorker(w, stake)
      PROVE  DOMAIN workers \subseteq DOMAIN workers'
    BY <1>1 DEF AddWorker, Put
<1>2. ASSUME NEW w \in DOMAIN workers, NEW t \in DOMAIN tasks,
             NEW i \in DOMAIN tasks[t].threads, Handles(w, t, i)
      PROVE  DOMAIN workers \subseteq DOMAIN workers'
    <2>1. SubscribeWorkerToTask(w, t, i) => DOMAIN workers' = DOMAIN workers
        BY DEF SubscribeWorkerToTask
    <2>2. \A names : ProposeSolution(w, t, i, names) => workers' = workers
        BY DEF ProposeSolution
    <2>3. \A revealed : RevealSolution(w, t, i, revealed) => workers' = workers
        BY DEF RevealSolution
    <2>4. \A signed : SubmitValidation(w, t, i, signed) => DOMAIN workers' = DOMAIN workers
        BY DEF SubmitValidation
    <2>5. SubmitSolution(w, t, i) => DOMAIN workers' = DOMAIN workers
        BY DEF SubmitSolution
    <2> QED
        BY <1>2, <2>1, <2>2, <2>3, <2>4, <2>5 DEF Handles
<1> QED
    BY <1>1, <1>2
    DEF Next, BeginBlock, EndBlock, Request, CreateVideoRenderingTask, Register, Transaction, Handles, vars

\* A thread of the node stays in order while it is neither proposed nor completed.
LEMMA MineKept ==
    ASSUME NEW before, NEW after, MineOK(before), ThreadStep(before, after),
           Grows(before, after), Mine(before, after), DOMAIN workers \subseteq DOMAIN workers'
    PROVE  after.proposedBy = Me =>
               /\ Me \in DOMAIN workers'
               /\ after.completed => after.accepted
               /\ FrameNames(after) = AllFiles(after)
<1>1. Me # NoWorker
    BY NodeAssumption, AccountAssumption
<1>2. AllFiles(after) = AllFiles(before)
    BY DEF Grows, AllFiles, FramesOf
<1> QED
    BY <1>1, <1>2 DEF MineOK, ThreadStep, Grows, Mine

\* Only a delivery proposes and completes in the node's name, and what it delivers
\* is whole and about an accepted thread.
LEMMA DeliveryMine ==
    ASSUME NodeInv, NEW tx \in pending, Execute(tx), [Next]_vars,
           NEW t, NEW i, ThreadExists(t, i), ThreadExists(t, i)', ~Quiet,
           ThreadStep(tasks[t].threads[i], tasks'[t].threads[i])
    PROVE  tasks'[t].threads[i].proposedBy = Me =>
               /\ Me \in DOMAIN workers'
               /\ tasks'[t].threads[i].completed => tasks'[t].threads[i].accepted
               /\ FrameNames(tasks'[t].threads[i]) = AllFiles(tasks'[t].threads[i])
<1> DEFINE before == tasks[t].threads[i]
           after == tasks'[t].threads[i]
           u == tx.id[1]
           j == tx.id[2]
           Goal == after.proposedBy = Me =>
                       /\ Me \in DOMAIN workers'
                       /\ after.completed => after.accepted
                       /\ FrameNames(after) = AllFiles(after)
<1>1. IInv /\ MineOK(before) /\ ThreadInv(before) /\ DOMAIN workers \subseteq DOMAIN workers'
    BY WorkersStay DEF NodeInv, ChainInv, MineInv, IInv, ThreadsInv, ThreadExists
<1>2. ASSUME Grows(before, after), Mine(before, after)
      PROVE  Goal
    BY <1>1, <1>2, MineKept
<1>3. /\ Me \in DOMAIN workers /\ ThreadExists(u, j)
      /\ ThreadOf(tx.id) = tasks[u].threads[j]
      /\ \/ SubscribeWorkerToTask(Me, u, j)
         \/ /\ tx.data \in Proposals(u, j) /\ ProposeSolution(Me, u, j, tx.data)
            /\ Elements(tx.data) = AllFiles(tasks[u].threads[j])
         \/ /\ DOMAIN tx.data \in SUBSET Names(u, j)
            /\ tx.data \in [DOMAIN tx.data -> Hash]
            /\ RevealSolution(Me, u, j, tx.data)
         \/ tx.data \in SignedInput /\ SubmitValidation(Me, u, j, tx.data)
         \/ HasAcceptance(tx.id) /\ SubmitSolution(Me, u, j)
    <2>1. ~AddWorker(Me, MinWorkerStaking) /\ ~UNCHANGED vars
        BY NodeAssumption, NodeInputAssumption DEF Quiet, Register
    <2> QED
        BY <2>1, DeliverEffect
<1>4. CASE t # u \/ i # j
    <2>1. Handles(Me, u, j)
        BY <1>3 DEF Handles
    <2>2. after = before
        BY <1>1, <1>3, <1>4, <2>1, HandlerWritesOne
    <2>3. Grows(before, after) /\ Mine(before, after)
        BY <2>2, GrowsReflexive
    <2> QED
        BY <1>2, <2>3
<1>5. CASE t = u /\ i = j
    <2>1. CASE SubscribeWorkerToTask(Me, t, i)
        BY <1>1, <1>2, <1>3, <2>1, SubscribeGrows
    <2>2. CASE /\ tx.data \in Proposals(t, i) /\ ProposeSolution(Me, t, i, tx.data)
               /\ Elements(tx.data) = AllFiles(before)
        <3>1. /\ Grows(before, after) /\ after.completed = before.completed
              /\ FrameNames(after) = Elements(tx.data)
            BY <1>1, <1>3, <2>2, ProposeGrows
        <3>2. before.proposedBy = NoWorker
            BY <2>2 DEF ProposeSolution, ProposeSolutionOK
        <3>3. ~after.completed
            BY <1>1, <3>1, <3>2 DEF ThreadInv
        <3>4. AllFiles(after) = AllFiles(before)
            BY <3>1 DEF Grows, AllFiles, FramesOf
        <3> QED
            BY <1>1, <1>3, <2>2, <3>1, <3>3, <3>4
    <2>3. CASE /\ DOMAIN tx.data \in SUBSET Names(t, i)
               /\ tx.data \in [DOMAIN tx.data -> Hash]
               /\ RevealSolution(Me, t, i, tx.data)
        BY <1>1, <1>2, <1>3, <2>3, RevealGrows
    <2>4. CASE tx.data \in SignedInput /\ SubmitValidation(Me, t, i, tx.data)
        BY <1>1, <1>2, <1>3, <2>4, SubmitValidationGrows
    <2>5. CASE HasAcceptance(tx.id) /\ SubmitSolution(Me, t, i)
        <3>1. before.accepted /\ before.proposedBy = Me
            BY <1>3, <1>5, <2>5 DEF HasAcceptance
        <3>2. Grows(before, after)
            BY <1>1, <1>3, <2>5, SubmitSolutionGrows
        <3>3. AllFiles(after) = AllFiles(before)
            BY <3>2 DEF Grows, AllFiles, FramesOf
        <3>4. FrameNames(after) = FrameNames(before) /\ Me # NoWorker
            BY <3>1, <3>2, NodeAssumption, AccountAssumption DEF Grows
        <3> QED
            BY <1>1, <3>1, <3>3, <3>4, SMTT(30) DEF ThreadStep, MineOK
    <2> QED
        BY <1>3, <1>5, <2>1, <2>2, <2>3, <2>4, <2>5, Zenon
<1> QED
    BY <1>4, <1>5

\* Every step keeps the threads of the node in order.
LEMMA MineInductive ==
    ASSUME NodeInv, [NodeNext]_allVars
    PROVE  MineInv'
<1>1. [Next]_vars /\ IInv
    BY NodeStep DEF NodeInv, ChainInv
<1>2. DOMAIN workers \subseteq DOMAIN workers' /\ Evolves
    BY <1>1, WorkersStay, NextSafe
<1>3. Me # NoWorker
    BY NodeAssumption, AccountAssumption
<1> SUFFICES ASSUME NEW t, NEW i, ThreadExists(t, i)'
             PROVE  tasks'[t].threads[i].proposedBy = Me =>
                        /\ Me \in DOMAIN workers'
                        /\ tasks'[t].threads[i].completed => tasks'[t].threads[i].accepted
                        /\ FrameNames(tasks'[t].threads[i]) = AllFiles(tasks'[t].threads[i])
    BY DEF MineInv, MineOK, FrameNames, AllFiles, FramesOf
<1> DEFINE before == tasks[t].threads[i]
           after == tasks'[t].threads[i]
<1>4. ThreadExists(t, i) => MineOK(before) /\ ThreadStep(before, after)
    BY <1>2 DEF NodeInv, MineInv, Evolves, TaskStep, ThreadExists
<1>5. ASSUME ThreadExists(t, i), Grows(before, after), Mine(before, after)
      PROVE  after.proposedBy = Me =>
                 /\ Me \in DOMAIN workers'
                 /\ after.completed => after.accepted
                 /\ FrameNames(after) = AllFiles(after)
    BY <1>2, <1>4, <1>5, MineKept
<1>6. CASE ~ThreadExists(t, i)
    <2>1. Started(after)
        BY <1>1, <1>6, StepGrows
    <2> QED
        BY <1>3, <2>1 DEF Started
<1>7. CASE ThreadExists(t, i) /\ Quiet
    BY <1>1, <1>5, <1>7, QuietGrows
<1>8. CASE ThreadExists(t, i) /\ ~Quiet
    <2>1. ASSUME NEW tx \in pending, Execute(tx)
          PROVE  after.proposedBy = Me =>
                     /\ Me \in DOMAIN workers'
                     /\ after.completed => after.accepted
                     /\ FrameNames(after) = AllFiles(after)
        BY <1>1, <1>4, <1>8, <2>1, DeliveryMine
    <2>2. ASSUME NEW w \in DOMAIN workers \ {Me}, NEW u \in DOMAIN tasks,
                 NEW j \in DOMAIN tasks[u].threads, Handles(w, u, j)
          PROVE  Grows(before, after) /\ Mine(before, after)
        <3>1. ThreadExists(u, j)
            BY DEF ThreadExists
        <3>2. Grows(tasks[u].threads[j], tasks'[u].threads[j]) /\ Mine(tasks[u].threads[j], tasks'[u].threads[j])
            BY <1>1, <2>2, <3>1, HandlerGrows
        <3>3. t # u \/ i # j => after = before
            BY <1>1, <2>2, <3>1, HandlerWritesOne
        <3> QED
            BY <3>2, <3>3, GrowsReflexive
    <2>3. CASE Others
        <3>1. \E w \in DOMAIN workers \ {Me} : Transaction(w)
            BY <1>8, <2>3 DEF Others, Quiet
        <3> QED
            BY <1>5, <1>8, <2>2, <3>1 DEF Transaction, Handles
    <2>4. CASE NodeBeginBlock \/ NodeEndBlock \/ RunGoroutine \/ Docker \/ LoseTransaction \/ Restart
        BY <1>8, <2>4 DEF Quiet, NodeBeginBlock, NodeEndBlock, RunGoroutine, RunFunction, Docker,
                          LoseTransaction, Restart
    <2>5. CASE UNCHANGED allVars
        BY <1>8, <2>5 DEF Quiet, allVars
    <2> QED
        BY <2>1, <2>3, <2>4, <2>5 DEF NodeNext, Deliver
<1> QED
    BY <1>6, <1>7, <1>8

-----------------------------------------------------------------------------
(***************************************************************************)
(* What the node holds of the chain: LocalInv is kept by every step.       *)
(***************************************************************************)
\* A goroutine that a block starts.
LEMMA RoutineIsGoroutine ==
    ASSUME NEW f \in Function, NEW id \in ThreadId \cup {NoThread}
    PROVE  /\ Routine(f, id) \in Goroutine
           /\ Routine(f, id).does = f /\ Routine(f, id).id = id
           /\ DOMAIN Routine(f, id).left = {}
<1>1. <<>> \in Seq(Int) /\ DOMAIN <<>> = {}
    OBVIOUS
<1> QED
    BY <1>1 DEF Routine, Goroutine

\* It is in order when its thread has reached the stage it is started at.
LEMMA RoutineLaunched ==
    ASSUME IInv, ShapeInv, NEW f \in Function, NEW id \in ThreadIds,
           f = "SubmitVerification" => HasSolution(id),
           f = "RevealSolution" => HasValidations(id),
           f = "SubmitSolution" => HasAcceptance(id)
    PROVE  Launched(Routine(f, id))
<1>1. id \in ThreadId
    BY ThreadsHaveFiles
<1>2. /\ Routine(f, id) \in Goroutine
      /\ Routine(f, id).does = f /\ Routine(f, id).id = id
      /\ DOMAIN Routine(f, id).left = {}
    BY <1>1, RoutineIsGoroutine
<1> QED
    BY <1>2 DEF Launched

\* A step of the chain that leaves the node alone.
LEMMA ChainStepKeeps ==
    ASSUME NodeInv, [Next]_vars, UNCHANGED localVars,
           goroutines' = goroutines \/ goroutines' = EmptyBag,
           pending' = pending \/ pending' = {}
    PROVE  LocalInv'
<1>1. IInv /\ LocalInv
    BY DEF NodeInv, ChainInv
<1>2. TablesOK' /\ FlagsOK' /\ FilesOK' /\ ContainersOK'
    BY <1>1, TablesKept, FlagsKept, FilesKept, ContainersKept DEF LocalInv, localVars
<1>3. GoroutinesOK'
    <2>1. BagToSet(goroutines)' \subseteq BagToSet(goroutines)
        BY DEF EmptyBag, SetToBag, BagToSet
    <2> QED
        BY <1>1, <2>1, LaunchedKept DEF LocalInv, GoroutinesOK
<1>4. PendingOK'
    <2>1. CASE pending' = {}
        BY <2>1 DEF PendingOK
    <2>2. CASE pending' = pending
        BY <1>1, <2>2, PendingKept DEF LocalInv
    <2> QED
        BY <2>1, <2>2
<1> QED
    BY <1>2, <1>3, <1>4 DEF LocalInv

\* The thread at which the worker of the node is exists.
LEMMA CurrentExists ==
    ASSUME IInv
    PROVE  Current \subseteq ThreadIds
<1> SUFFICES ASSUME NEW id \in Current
             PROVE  id \in ThreadIds
    OBVIOUS
<1> DEFINE t == workers[Me].task
           i == workers[Me].thread
<1>1. Me \in DOMAIN workers /\ t # EmptyId /\ id = <<t, i>>
    BY DEF Current
<1>2. ThreadExists(t, i)
    BY <1>1 DEF IInv, PointerOK
<1> HIDE DEF t, i
<1>3. id \in {<<t, k>> : k \in DOMAIN tasks[t].threads}
    BY <1>1, <1>2 DEF ThreadExists
<1> QED
    BY <1>2, <1>3 DEF ThreadIds, ThreadExists

\* What the walk accepts is accepted when the submission starts.
LEMMA SubmissionAccepted ==
    ASSUME IInv, ShapeInv, BeginBlock, NEW id \in ThreadIds, SubmissionDue(id)
    PROVE  HasAcceptance(id)'
<1> DEFINE t == id[1]
           i == id[2]
<1>1. t \in DOMAIN tasks /\ tasks \in [DOMAIN tasks -> Task]
    BY ThreadsHaveFiles DEF IInv, TypeOK
<1>2. tasks'[t] = Walked(tasks[t])
    BY <1>1 DEF BeginBlock
<1>3. Walked(tasks[t]).threads[i].accepted /\ Walked(tasks[t]).threads[i].proposedBy = Me
    BY DEF SubmissionDue
<1>4. id \in ThreadIds'
    BY StagesKept DEF Next
<1> HIDE DEF t, i
<1>5. ThreadOf(id)' = tasks'[t].threads[i]
    BY DEF ThreadOf, t, i
<1> QED
    BY <1>2, <1>3, <1>4, <1>5 DEF HasAcceptance

\* BeginBlock resets rows and starts what the chain has reached.
LEMMA NodeBeginBlockKeeps ==
    ASSUME NodeInv, NodeBeginBlock
    PROVE  LocalInv'
<1>1. IInv /\ ShapeInv /\ LocalInv /\ [Next]_vars
    BY NodeStep DEF NodeInv, ChainInv, NodeNext
<1>2. PICK answers \in {TRUE, "docker" \notin Faults} :
          /\ BeginBlock
          /\ flags' = [id \in DOMAIN flags |->
                          IF id \in Current /\ ResetDue(id) THEN {} ELSE flags[id]]
          /\ Starts({Routine("StartWork", id) : id \in {c \in Current : WorkDue(c, answers)}}
                    \cup {Routine("ProposeSolution", id) : id \in {c \in Current : ProposalDue(c)}}
                    \cup {Routine("SubmitVerification", id) : id \in {c \in Current : VerificationDue(c)}}
                    \cup {Routine("SubmitSolution", id) : id \in {c \in ThreadIds : SubmissionDue(c)}})
          /\ UNCHANGED <<registered, subscriptions, entries, files, container, pending>>
    BY DEF NodeBeginBlock
<1>3. FilesOK' /\ ContainersOK' /\ PendingOK'
    BY <1>1, <1>2, FilesKept, ContainersKept, PendingKept DEF LocalInv
<1>4. flags \in [ThreadId -> SUBSET Submitting] /\ FlagsOK
    BY <1>1 DEF LocalInv, TablesOK
<1>5. flags' \in [ThreadId -> SUBSET Submitting]
    BY <1>2, <1>4
<1>6. TablesOK'
    BY <1>1, <1>2, <1>5 DEF LocalInv, TablesOK
<1>7. FlagsOK'
    <2>1. ASSUME NEW id
          PROVE  /\ HasSolution(id) => HasSolution(id)'
                 /\ HasValidations(id) => HasValidations(id)'
                 /\ HasAcceptance(id) => HasAcceptance(id)'
        BY <1>1, StagesKept
    <2>2. \A id \in ThreadId : flags'[id] \subseteq flags[id]
        BY <1>2, <1>4
    <2> QED
        BY <1>4, <2>1, <2>2 DEF FlagsOK, Follow
<1>8. Current \subseteq ThreadIds
    BY <1>1, CurrentExists
<1>9. ASSUME NEW f \in {"StartWork", "ProposeSolution"}, NEW id \in Current
      PROVE  Launched(Routine(f, id))'
    BY <1>1, <1>8, RoutineLaunched, LaunchedKept DEF Function
<1>10. ASSUME NEW id \in Current, VerificationDue(id)
       PROVE  Launched(Routine("SubmitVerification", id))'
    BY <1>1, <1>8, <1>10, RoutineLaunched, LaunchedKept DEF Function, VerificationDue, HasSolution
<1>11. ASSUME NEW id \in ThreadIds, SubmissionDue(id)
       PROVE  Launched(Routine("SubmitSolution", id))'
    <2>1. HasAcceptance(id)'
        BY <1>1, <1>2, <1>11, SubmissionAccepted
    <2>2. id \in ThreadId
        BY <1>1, ThreadsHaveFiles
    <2> DEFINE g == Routine("SubmitSolution", id)
    <2>3. g \in Goroutine /\ g.does = "SubmitSolution" /\ g.id = id /\ DOMAIN g.left = {}
        BY <2>2, RoutineIsGoroutine DEF Function
    <2> HIDE DEF g
    <2>4. Launched(g)'
        BY <2>1, <2>3 DEF Launched, HasAcceptance
    <2> QED
        BY <2>4 DEF g
<1>12. GoroutinesOK'
    BY <1>1, <1>2, <1>9, <1>10, <1>11, StartsKeeps DEF LocalInv
<1> QED
    BY <1>3, <1>6, <1>7, <1>12 DEF LocalInv

\* The thread that an idle worker is to join exists.
LEMMA NextThreadExists ==
    ASSUME IInv, NEW id \in NextThread
    PROVE  id \in ThreadIds /\ id[2] \in Nat
<1>1. PICK t \in PendingTask :
          id \in {<<t, i>> : i \in {j \in Candidates(t) : \A k \in Candidates(t) : j <= k}}
    BY DEF NextThread
<1>2. PICK i \in Candidates(t) : id = <<t, i>>
    BY <1>1
<1>3. t \in DOMAIN tasks /\ i \in DOMAIN tasks[t].threads
    BY <1>2 DEF PendingTask, Candidates
<1>4. tasks[t].threads \in Seq(Thread)
    BY <1>3 DEF IInv, TypeOK, Task
<1>5. i \in Nat
    BY <1>3, <1>4
<1>6. id \in {<<t, k>> : k \in DOMAIN tasks[t].threads}
    BY <1>2, <1>3
<1>7. id[2] = i
    BY <1>2
<1> QED
    BY <1>3, <1>5, <1>6, <1>7 DEF ThreadIds

\* EndBlock records what it subscribes to and starts what the chain has reached.
LEMMA NodeEndBlockKeeps ==
    ASSUME NodeInv, NodeEndBlock
    PROVE  LocalInv'
<1>1. IInv /\ ShapeInv /\ LocalInv /\ [Next]_vars
    BY NodeStep DEF NodeInv, ChainInv, NodeNext
<1>2. /\ UNCHANGED <<registered, flags, entries, files, container, pending>>
      /\ Starts({Routine("RegisterWorker", NoThread) :
                     n \in {r \in {registered} : Me \notin DOMAIN workers /\ ~r}}
                \cup {Routine("SubscribeWorkerToTask", id) : id \in NextThread}
                \cup {Routine("RevealSolution", id) : id \in {c \in ThreadIds : RevealDue(c)}})
    BY DEF NodeEndBlock
<1>3. FlagsOK' /\ FilesOK' /\ ContainersOK' /\ PendingOK'
    BY <1>1, <1>2, FlagsKept, FilesKept, ContainersKept, PendingKept DEF LocalInv
<1>4. TablesOK'
    <2> DEFINE row == [thread : Nat, subscribed : BOOLEAN]
    <2>1. TablesOK /\ \A t \in DOMAIN subscriptions : subscriptions[t] \in row
        BY <1>1 DEF LocalInv, TablesOK
    <2>2. ASSUME NEW id \in NextThread, subscriptions' = Recorded(id[1], id[2])
          PROVE  \A t \in DOMAIN subscriptions' : subscriptions'[t] \in row
        <3>1. [thread |-> id[2], subscribed |-> TRUE] \in row
            BY <1>1, NextThreadExists
        <3>2. subscriptions' = subscriptions
              \/ subscriptions' = Put(subscriptions, id[1], [thread |-> id[2], subscribed |-> TRUE])
            BY <2>2 DEF Recorded
        <3> HIDE DEF row
        <3> QED
            BY <2>1, <3>1, <3>2, ZenonT(30) DEF Put
    <2>3. subscriptions' = subscriptions \/ \E id \in NextThread : subscriptions' = Recorded(id[1], id[2])
        BY DEF NodeEndBlock
    <2> QED
        BY <1>2, <2>1, <2>2, <2>3 DEF TablesOK
<1>5. Launched(Routine("RegisterWorker", NoThread))'
    <2> DEFINE g == Routine("RegisterWorker", NoThread)
    <2>1. g \in Goroutine /\ g.does = "RegisterWorker" /\ DOMAIN g.left = {}
        BY RoutineIsGoroutine DEF Function
    <2> HIDE DEF g
    <2>2. Launched(g)'
        BY <2>1 DEF Launched
    <2> QED
        BY <2>2 DEF g
<1>6. ASSUME NEW id \in NextThread
      PROVE  Launched(Routine("SubscribeWorkerToTask", id))'
    BY <1>1, NextThreadExists, RoutineLaunched, LaunchedKept DEF Function
<1>7. ASSUME NEW id \in ThreadIds, RevealDue(id)
      PROVE  Launched(Routine("RevealSolution", id))'
    BY <1>1, <1>7, RoutineLaunched, LaunchedKept DEF Function, RevealDue, HasValidations
<1>8. GoroutinesOK'
    BY <1>1, <1>2, <1>5, <1>6, <1>7, StartsKeeps DEF LocalInv
<1> QED
    BY <1>3, <1>4, <1>8 DEF LocalInv

\* What the node holds keeps agreeing with the chain.
LEMMA LocalInductive ==
    ASSUME NodeInv, [NodeNext]_allVars
    PROVE  LocalInv'
<1>1. [Next]_vars
    BY NodeStep
<1>2. ASSUME RunGoroutine
      PROVE  LocalInv'
    <2>1. PICK g \in BagToSet(goroutines) : Runs(g) /\ UNCHANGED vars
        BY <1>2 DEF RunGoroutine, RunFunction
    <2> QED
        BY <2>1, RunsKeeps
<1>3. CASE Docker
    BY <1>3, ContainerExitsKeeps DEF Docker
<1>4. CASE Deliver \/ LoseTransaction \/ Restart \/ Others \/ UNCHANGED allVars
    <2>1. /\ UNCHANGED localVars
          /\ goroutines' = goroutines \/ goroutines' = EmptyBag
          /\ pending' = pending \/ pending' = {}
        BY <1>4 DEF Deliver, LoseTransaction, Restart, Others, allVars, nodeVars
    <2> QED
        BY <1>1, <2>1, ChainStepKeeps
<1> QED
    BY <1>2, <1>3, <1>4, NodeBeginBlockKeeps, NodeEndBlockKeeps DEF NodeNext

-----------------------------------------------------------------------------
(***************************************************************************)
(* The theorems.                                                           *)
(***************************************************************************)
\* A node starts beside a chain without threads, with nothing in its tables.
LEMMA InitNodeInv ==
    ASSUME NodeInit
    PROVE  NodeInv
<1>1. Init /\ IInv
    BY InitIInv DEF NodeInit
<1>2. \A t, i : ~ThreadExists(t, i)
    BY <1>1 DEF Init, ThreadExists
<1>3. SupportInv /\ ShapeInv /\ MineInv
    BY <1>2 DEF SupportInv, ShapeInv, MineInv
<1>4. TablesOK /\ FlagsOK /\ FilesOK /\ ContainersOK
    BY DEF NodeInit, TablesOK, FlagsOK, Follow, FilesOK, ContainersOK
<1>5. GoroutinesOK /\ PendingOK
    BY DEF NodeInit, GoroutinesOK, EmptyBag, SetToBag, BagToSet, PendingOK
<1> QED
    BY <1>1, <1>3, <1>4, <1>5 DEF NodeInv, ChainInv, LocalInv

\* Every step of the node keeps its invariant.
LEMMA NodeInvInductive ==
    ASSUME NodeInv, [NodeNext]_allVars
    PROVE  NodeInv'
<1>1. [Next]_vars
    BY NodeStep
<1>2. ChainInv'
    BY <1>1, NextSafe, SupportInductive, ShapeInductive DEF NodeInv, ChainInv
<1> QED
    BY <1>2, MineInductive, LocalInductive DEF NodeInv

\* What the node holds of the chain, and what the chain holds of the node, agree in
\* every state, whatever is lost, fails or starts again.
THEOREM NodeInvariance == NodeSpec => []NodeInv
<1> QED
    BY InitNodeInv, NodeInvInductive, PTL DEF NodeSpec

\* A node refines the chain: whatever its goroutines send, when it is executed and
\* what becomes of the process, the chain does what VideoRendering lets it do.
\* All that is proved of Spec therefore holds beside a node.
THEOREM NodeImplementsChain == NodeSpec => Spec
<1>1. NodeInit => Init
    BY DEF NodeInit
<1>2. NodeInv /\ [NodeNext]_allVars => [Next]_vars
    BY NodeStep
<1> QED
    BY NodeInvariance, <1>1, <1>2, PTL DEF NodeSpec, Spec

\* The tables, directories and containers are those of threads, the goroutines are
\* at points of their functions, and at most one transaction is on the way.
THEOREM NodeTypeCorrect == NodeSpec => []NodeTypeOK
<1>1. NodeInv => NodeTypeOK
    <2> SUFFICES ASSUME NodeInv
                 PROVE  NodeTypeOK
        OBVIOUS
    <2>1. IInv /\ ShapeInv /\ TablesOK /\ FilesOK /\ ContainersOK /\ GoroutinesOK /\ PendingOK
        BY DEF NodeInv, ChainInv, LocalInv
    <2>2. ThreadIds \subseteq ThreadId
        BY <2>1, ThreadsHaveFiles
    <2>3. \A id \in ThreadIds : files[id] \subseteq FramesOf(ThreadOf(id))
        BY <2>1, <2>2 DEF FilesOK
    <2>4. DOMAIN container \subseteq ThreadId
        BY <2>1, <2>2 DEF ContainersOK
    <2>5. BagToSet(goroutines) \subseteq Goroutine
        BY <2>1 DEF GoroutinesOK, Launched
    <2>6. Cardinality(pending) <= 1
        <3>1. pending = {} \/ \E tx : pending = {tx}
            BY <2>1 DEF PendingOK
        <3>2. Cardinality({}) = 0 /\ \A tx : Cardinality({tx}) = 1
            BY FS_EmptySet, FS_Singleton
        <3>3. Cardinality(pending) = 0 \/ Cardinality(pending) = 1
            BY <3>1, <3>2, Zenon
        <3> QED
            BY <3>3
    <2> QED
        BY <2>1, <2>3, <2>4, <2>5, <2>6 DEF NodeTypeOK, TablesOK
<1> QED
    BY NodeInvariance, <1>1, PTL

\* A column that says that the node verifies, reveals or submits is true only when
\* the chain has a solution, the node's validated solution, the node's accepted one:
\* although a goroutine writes all columns of the row at once, long after it read
\* the thread, the stage it was started for cannot be lost by then.
THEOREM RowsFollowChain == NodeSpec => []FlagsFollowChain
<1>1. NodeInv => FlagsFollowChain
    <2> SUFFICES ASSUME NodeInv, NEW id \in ThreadIds
                 PROVE  Follow(id, flags[id])
        BY DEF FlagsFollowChain, Follow, HasSolution, HasValidations, HasAcceptance
    <2>1. IInv /\ ShapeInv /\ FlagsOK
        BY DEF NodeInv, ChainInv, LocalInv
    <2> QED
        BY <2>1, ThreadsHaveFiles DEF FlagsOK
<1> QED
    BY NodeInvariance, <1>1, PTL

\* A thread of the node is completed only once its solution has been accepted: the
\* handler of MsgSubmitSolution does not ask, so it rests on the check in BeginBlock
\* and on acceptance outlasting the goroutine, the client and the mempool.
THEOREM SubmissionsAreAccepted == NodeSpec => []NodeSubmitsAccepted
<1>1. NodeInv => NodeSubmitsAccepted
    <2> SUFFICES ASSUME NodeInv, NEW id \in ThreadIds
                 PROVE  MineOK(ThreadOf(id))
        BY DEF NodeSubmitsAccepted, MineOK
    <2>1. ThreadExists(id[1], id[2]) /\ MineInv
        BY ThreadsHaveFiles, SMTT(30) DEF NodeInv, ChainInv
    <2> QED
        BY <2>1 DEF MineInv, ThreadOf
<1> QED
    BY NodeInvariance, <1>1, PTL

\* What the node proposes names the file of every frame of the thread and no other,
\* though the chain counts the names alone and docker may have left files at any time.
THEOREM ProposalsAreWhole == NodeSpec => []ProposalIsWhole
<1>1. NodeInv => ProposalIsWhole
    <2> SUFFICES ASSUME NodeInv, NEW id \in ThreadIds, ThreadOf(id).proposedBy = Me
                 PROVE  Names(id[1], id[2]) = {FrameFile[n] : n \in FramesOf(ThreadOf(id))}
        BY DEF ProposalIsWhole
    <2>1. ThreadExists(id[1], id[2]) /\ MineInv
        BY ThreadsHaveFiles DEF NodeInv, ChainInv
    <2>2. MineOK(ThreadOf(id))
        BY <2>1 DEF MineInv, ThreadOf
    <2> QED
        BY <2>2 DEF MineOK, FrameNames, AllFiles, Names, ThreadOf
<1> QED
    BY NodeInvariance, <1>1, PTL

=============================================================================
