-------------------- MODULE VideoRenderingLifecycleProofs --------------------
(***************************************************************************)
(* A solution is revealed whole, and the chain implements ThreadLifecycle. *)
(***************************************************************************)
EXTENDS VideoRenderingHistory, VideoRenderingLifecycle

-----------------------------------------------------------------------------
(***************************************************************************)
(* Reveals.                                                                *)
(***************************************************************************)
RevealedFrameSet(thread) == {f \in DOMAIN thread.frames : thread.frames[f].hash # NoHash}

Whole(thread) ==
    /\ RevealedFrameSet(thread) \in {{}, DOMAIN thread.frames}
    /\ thread.accepted => RevealedFrameSet(thread) # {}

\* A thread whose hashes stay is as whole as before.
LEMMA WholeKept ==
    ASSUME NEW before, NEW after, Whole(before),
           DOMAIN after.frames = DOMAIN before.frames,
           \A f \in DOMAIN before.frames : after.frames[f].hash = before.frames[f].hash,
           after.accepted => RevealedFrameSet(before) # {}
    PROVE  Whole(after)
<1>1. RevealedFrameSet(after) = RevealedFrameSet(before)
    BY DEF RevealedFrameSet
<1> QED
    BY <1>1 DEF Whole

\* A proposal reveals nothing, and the thread was not accepted before it.
LEMMA ProposalWhole ==
    ASSUME IInv, NEW w \in DOMAIN workers, NEW t, NEW i, NEW names \in Proposals(t, i),
           ThreadExists(t, i), ProposeSolution(w, t, i, names)
    PROVE  Whole(tasks'[t].threads[i])
<1> DEFINE thread == tasks[t].threads[i]
           frames == [f \in DOMAIN names |->
               [name |-> names[f], hash |-> NoHash, valid |-> 0, invalid |-> 0]]
           after == [thread EXCEPT !.proposedBy = w, !.frames = frames]
<1>1. thread \in Thread /\ ThreadInv(thread) /\ TypeOK
    BY ThreadType DEF IInv, ThreadsInv, ThreadExists
<1>2. thread.proposedBy = NoWorker /\ tasks' = PutThread(t, i, after)
    BY DEF ProposeSolution, ProposeSolutionOK
<1>3. ~thread.accepted
    BY <1>1, <1>2 DEF ThreadInv
<1>4. w \in Worker /\ tasks \in [DOMAIN tasks -> Task]
    BY <1>1 DEF TypeOK
<1>5. frames \in Seq(Frame)
    BY <1>1, ProposalIsSequence, FramesOfNames DEF IInv
<1>6. \A f \in DOMAIN frames : frames[f].hash = NoHash
    OBVIOUS
<1> HIDE DEF frames
<1>7. after \in Thread /\ after.frames = frames /\ ~after.accepted
    BY <1>1, <1>3, <1>4, <1>5 DEF Thread
<1> HIDE DEF after
<1>8. tasks'[t].threads[i] = after
    BY <1>2, <1>4, <1>7, PutThreadFacts
<1> QED
    BY <1>6, <1>7, <1>8 DEF Whole, RevealedFrameSet

\* A reveal that leaves a hash open is refused.
LEMMA RevealWhole ==
    ASSUME IInv, NEW w \in DOMAIN workers, NEW t, NEW i, NEW S, NEW revealed \in [S -> Hash],
           ThreadExists(t, i), RevealSolution(w, t, i, revealed)
    PROVE  Whole(tasks'[t].threads[i])
<1> DEFINE thread == tasks[t].threads[i]
           frames == Revealed(thread, revealed)
           after == [thread EXCEPT !.frames = frames]
<1>1. thread \in Thread /\ tasks \in [DOMAIN tasks -> Task]
    BY ThreadType DEF IInv, TypeOK
<1>2. ~thread.accepted /\ tasks' = PutThread(t, i, after)
      /\ \A f \in DOMAIN thread.frames : frames[f].hash # NoHash
    BY SMTT(30) DEF RevealSolution, RevealSolutionOK
<1>3. frames \in Seq(Frame) /\ DOMAIN frames = DOMAIN thread.frames
    BY <1>1, RevealedFrames DEF Revealed
<1> HIDE DEF frames
<1>4. after \in Thread /\ after.frames = frames /\ ~after.accepted
    BY <1>1, <1>2, <1>3 DEF Thread
<1> HIDE DEF after
<1>5. tasks'[t].threads[i] = after
    BY <1>1, <1>2, <1>4, PutThreadFacts
<1> QED
    BY <1>2, <1>3, <1>4, <1>5 DEF Whole, RevealedFrameSet

\* What the other three handlers write to a thread.
SameSolution(before, after) ==
    /\ after.proposedBy = before.proposedBy /\ after.frames = before.frames
    /\ after.accepted = before.accepted
    /\ after.startFrame = before.startFrame /\ after.endFrame = before.endFrame

Subscribed(before, after, w) ==
    /\ after \in Thread /\ SameSolution(before, after)
    /\ after.workers = Append(before.workers, w)
    /\ after.validations = before.validations /\ after.completed = before.completed

Validated(before, after, w) ==
    /\ after \in Thread /\ SameSolution(before, after)
    /\ \E v \in Validation : v.validator = w /\ after.validations = Append(before.validations, v)
    /\ after.workers = before.workers /\ after.completed = before.completed

Submitted(before, after) ==
    /\ after \in Thread /\ SameSolution(before, after)
    /\ after.completed
    /\ after.workers = before.workers /\ after.validations = before.validations

LEMMA SubscribeEffect ==
    ASSUME IInv, NEW w \in DOMAIN workers, NEW t, NEW i, ThreadExists(t, i),
           SubscribeWorkerToTask(w, t, i)
    PROVE  /\ Subscribed(tasks[t].threads[i], tasks'[t].threads[i], w)
           /\ tasks' = PutThread(t, i, tasks'[t].threads[i])
<1> DEFINE thread == tasks[t].threads[i]
           written == [thread EXCEPT !.workers = Append(@, w)]
<1>1. thread \in Thread /\ tasks \in [DOMAIN tasks -> Task] /\ w \in Worker
    BY ThreadType DEF IInv, TypeOK
<1>2. Append(thread.workers, w) \in Seq(Worker)
    BY <1>1 DEF Thread
<1>3. /\ written \in Thread /\ written.workers = Append(thread.workers, w)
      /\ written.proposedBy = thread.proposedBy /\ written.frames = thread.frames
      /\ written.accepted = thread.accepted /\ written.validations = thread.validations
      /\ written.completed = thread.completed
      /\ written.startFrame = thread.startFrame /\ written.endFrame = thread.endFrame
    BY <1>1, <1>2 DEF Thread
<1>4. tasks' = PutThread(t, i, written)
    BY DEF SubscribeWorkerToTask
<1> HIDE DEF written
<1>5. tasks'[t].threads[i] = written
    BY <1>1, <1>3, <1>4, PutThreadFacts
<1>6. Subscribed(thread, written, w)
    BY <1>3 DEF Subscribed, SameSolution
<1> QED
    BY <1>4, <1>5, <1>6

LEMMA SubmitValidationEffect ==
    ASSUME IInv, NEW w \in DOMAIN workers, NEW t, NEW i, NEW signed \in SignedInput,
           ThreadExists(t, i), SubmitValidation(w, t, i, signed)
    PROVE  /\ Validated(tasks[t].threads[i], tasks'[t].threads[i], w)
           /\ tasks' = PutThread(t, i, tasks'[t].threads[i])
<1> DEFINE thread == tasks[t].threads[i]
           validation == [validator |-> w, signed |-> signed]
           written == [thread EXCEPT !.validations = Append(@, validation)]
<1>1. thread \in Thread /\ tasks \in [DOMAIN tasks -> Task] /\ w \in Worker
    BY ThreadType DEF IInv, TypeOK
<1>2. validation \in Validation /\ validation.validator = w
    BY <1>1, SignedInputAssumption DEF Validation
<1>3. tasks' = PutThread(t, i, written)
    BY DEF SubmitValidation
<1> HIDE DEF validation
<1>4. Append(thread.validations, validation) \in Seq(Validation)
    BY <1>1, <1>2 DEF Thread
<1>5. /\ written \in Thread /\ written.validations = Append(thread.validations, validation)
      /\ written.workers = thread.workers
      /\ written.proposedBy = thread.proposedBy /\ written.frames = thread.frames
      /\ written.accepted = thread.accepted /\ written.completed = thread.completed
      /\ written.startFrame = thread.startFrame /\ written.endFrame = thread.endFrame
    BY <1>1, <1>4 DEF Thread
<1> HIDE DEF written
<1>6. tasks'[t].threads[i] = written
    BY <1>1, <1>3, <1>5, PutThreadFacts
<1>7. Validated(thread, written, w)
    BY <1>2, <1>5 DEF Validated, SameSolution
<1> QED
    BY <1>3, <1>6, <1>7

LEMMA SubmitSolutionEffect ==
    ASSUME IInv, NEW w \in DOMAIN workers, NEW t, NEW i, ThreadExists(t, i),
           SubmitSolution(w, t, i)
    PROVE  /\ Submitted(tasks[t].threads[i], tasks'[t].threads[i])
           /\ tasks' = PutThread(t, i, tasks'[t].threads[i])
<1> DEFINE thread == tasks[t].threads[i]
           written == [thread EXCEPT !.completed = TRUE]
<1>1. thread \in Thread /\ tasks \in [DOMAIN tasks -> Task]
    BY ThreadType DEF IInv, TypeOK
<1>2. /\ written \in Thread /\ written.completed /\ written.workers = thread.workers
      /\ written.proposedBy = thread.proposedBy /\ written.frames = thread.frames
      /\ written.accepted = thread.accepted /\ written.validations = thread.validations
      /\ written.startFrame = thread.startFrame /\ written.endFrame = thread.endFrame
    BY <1>1 DEF Thread
<1>3. tasks' = PutThread(t, i, written)
    BY DEF SubmitSolution
<1> HIDE DEF written
<1>4. tasks'[t].threads[i] = written
    BY <1>1, <1>2, <1>3, PutThreadFacts
<1>5. Submitted(thread, written)
    BY <1>2 DEF Submitted, SameSolution
<1> QED
    BY <1>3, <1>4, <1>5

WholeInv == \A t, i : ThreadExists(t, i) => Whole(tasks[t].threads[i])

\* Handlers that leave frames and acceptance alone leave a thread whole.
LEMMA HandlerWhole ==
    ASSUME IInv, WholeInv, NEW w \in DOMAIN workers, NEW t, NEW i, ThreadExists(t, i),
           Handles(w, t, i)
    PROVE  Whole(tasks'[t].threads[i]) /\ \E written \in Thread : tasks' = PutThread(t, i, written)
<1> DEFINE before == tasks[t].threads[i]
           after == tasks'[t].threads[i]
<1>1. t \in DOMAIN tasks /\ i \in DOMAIN tasks[t].threads /\ Whole(before)
    BY DEF ThreadExists, WholeInv
<1>2. \E written \in Thread : tasks' = PutThread(t, i, written)
    BY <1>1, HandlerWrites
<1>3. ASSUME SameSolution(before, after)
      PROVE  Whole(after)
    <2>1. after.frames = before.frames /\ after.accepted = before.accepted
        BY <1>3, Zenon DEF SameSolution
    <2> HIDE DEF before, after
    <2> QED
        BY <1>1, <2>1, WholeKept, SMTT(30) DEF Whole
<1>4. CASE SubscribeWorkerToTask(w, t, i)
    <2>1. Subscribed(before, after, w)
        BY <1>4, SubscribeEffect
    <2> QED
        BY <1>2, <1>3, <2>1 DEF Subscribed
<1>5. ASSUME NEW names \in Proposals(t, i), ProposeSolution(w, t, i, names)
      PROVE  Whole(after)
    BY <1>5, ProposalWhole
<1>6. ASSUME NEW S \in SUBSET Names(t, i), NEW revealed \in [S -> Hash],
             RevealSolution(w, t, i, revealed)
      PROVE  Whole(after)
    BY <1>6, RevealWhole, SMTT(30)
<1>7. ASSUME NEW signed \in SignedInput, SubmitValidation(w, t, i, signed)
      PROVE  Whole(after)
    <2>1. Validated(before, after, w)
        BY <1>7, SubmitValidationEffect
    <2> QED
        BY <1>3, <2>1 DEF Validated
<1>8. CASE SubmitSolution(w, t, i)
    <2>1. Submitted(before, after)
        BY <1>8, SubmitSolutionEffect
    <2> QED
        BY <1>2, <1>3, <2>1 DEF Submitted
<1> QED
    BY <1>2, <1>4, <1>5, <1>6, <1>7, <1>8 DEF Handles

\* BeginBlock keeps the hashes, and accepts only what it finds revealed.
LEMMA WalkWhole ==
    ASSUME NEW task \in Task, NEW i \in DOMAIN task.threads, Whole(task.threads[i])
    PROVE  Whole(Walked(task).threads[i])
<1> DEFINE before == task.threads[i]
           after == Walked(task).threads[i]
           evaluated == EvaluateVerifications(before)
<1>1. before \in Thread
    BY DEF Task
<1>2. \/ after = before
      \/ ReadyToEvaluate(before) /\ after = [evaluated EXCEPT !.accepted = AcceptedNow(before)]
    BY WalkedFacts
<1>3. CASE ReadyToEvaluate(before) /\ after = [evaluated EXCEPT !.accepted = AcceptedNow(before)]
    <2>1. /\ evaluated \in Thread /\ DOMAIN evaluated.frames = DOMAIN before.frames
          /\ \A f \in DOMAIN before.frames : evaluated.frames[f].hash = before.frames[f].hash
        BY <1>1, EvaluateFacts
    <2>2. before.frames \in Seq(Frame) /\ before.frames # <<>> /\ before.frames[1].hash # NoHash
        BY <1>1, <1>3 DEF Thread, ReadyToEvaluate
    <2>3. 1 \in RevealedFrameSet(before)
        BY <2>2 DEF RevealedFrameSet
    <2> HIDE DEF evaluated
    <2>4. after.frames = evaluated.frames
        BY <1>3, <2>1 DEF Thread
    <2>5. /\ DOMAIN after.frames = DOMAIN before.frames
          /\ \A f \in DOMAIN before.frames : after.frames[f].hash = before.frames[f].hash
        BY <2>1, <2>4
    <2> QED
        BY <2>3, <2>5, WholeKept
<1> QED
    BY <1>2, <1>3

\* Every step keeps all threads whole.
LEMMA WholeInductive ==
    ASSUME IInv, WholeInv, [Next]_vars
    PROVE  WholeInv'
<1>1. \A t \in DOMAIN tasks : tasks[t] \in Task
    BY DEF IInv, TypeOK
<1>2. CASE BeginBlock
    <2>1. tasks' = [t \in DOMAIN tasks |-> Walked(tasks[t])]
        BY <1>2 DEF BeginBlock
    <2> QED
        BY <1>1, <2>1, WalkedFacts, WalkWhole DEF WholeInv, ThreadExists
<1>3. CASE EndBlock
    <2> DEFINE ended(t) == [tasks[t] EXCEPT !.completed = @ \/ AllThreadsCompleted(tasks[t])]
    <2>1. tasks' = Put([t \in DOMAIN tasks |-> ended(t)], EmptyId, EmptyTask)
        BY <1>3 DEF EndBlock
    <2>2. \A t \in DOMAIN tasks : ended(t).threads = tasks[t].threads
        BY <1>1 DEF Task
    <2> HIDE DEF ended
    <2>3. DOMAIN EmptyTask.threads = {}
        BY DEF EmptyTask
    <2> QED
        BY <2>1, <2>2, <2>3 DEF Put, WholeInv, ThreadExists
<1>4. ASSUME NEW r \in Requester, NEW spec \in TaskSpec, CreateVideoRenderingTask(r, spec)
      PROVE  WholeInv'
    <2> DEFINE task == [completed |-> FALSE, reward |-> spec.reward, threads |-> GenerateThreads(spec)]
    <2>1. tasks' = Put(tasks, nextId, task)
        BY <1>4 DEF CreateVideoRenderingTask
    <2>2. \A i \in DOMAIN task.threads : Whole(task.threads[i])
        BY DEF GenerateThreads, NewThread, Whole, RevealedFrameSet
    <2> HIDE DEF task
    <2> QED
        BY <2>1, <2>2 DEF Put, WholeInv, ThreadExists
<1>5. ASSUME NEW w \in Worker, NEW stake \in Stake, AddWorker(w, stake)
      PROVE  WholeInv'
    BY <1>5 DEF AddWorker, WholeInv, ThreadExists
<1>6. ASSUME NEW w \in DOMAIN workers, NEW t \in DOMAIN tasks,
             NEW i \in DOMAIN tasks[t].threads, Handles(w, t, i)
      PROVE  WholeInv'
    <2>1. ThreadExists(t, i) /\ tasks \in [DOMAIN tasks -> Task]
        BY DEF ThreadExists, IInv, TypeOK
    <2>2. Whole(tasks'[t].threads[i]) /\ \E written \in Thread : tasks' = PutThread(t, i, written)
        BY <1>6, <2>1, HandlerWhole
    <2> QED
        BY <2>1, <2>2, PutThreadFacts, SMTT(30) DEF WholeInv, ThreadExists
<1>7. CASE UNCHANGED vars
    BY <1>7 DEF vars, WholeInv, ThreadExists
<1> QED
    BY <1>2, <1>3, <1>4, <1>5, <1>6, <1>7 DEF Next, Request, Register, Transaction, Handles

\* A solution is revealed for all its frames or for none, and accepted only revealed.
THEOREM RevealsAreWhole == Spec => []RevealIsAllOrNothing
<1>1. Init => WholeInv
    BY DEF Init, WholeInv, ThreadExists
<1>2. IInv /\ WholeInv /\ [Next]_vars => WholeInv'
    BY WholeInductive
<1>3. WholeInv => RevealIsAllOrNothing
    BY DEF WholeInv, Whole, RevealedFrameSet, ThreadExists, RevealIsAllOrNothing
<1> QED
    BY Invariance, <1>1, <1>2, <1>3, PTL DEF Spec

-----------------------------------------------------------------------------
(***************************************************************************)
(* The chain as ThreadLifecycle sees it.                                   *)
(***************************************************************************)
\* A list without more members than entries.
LEMMA ElementsBound ==
    ASSUME NEW S, NEW s \in Seq(S)
    PROVE  IsFiniteSet(Elements(s)) /\ Cardinality(Elements(s)) <= Len(s)
<1>1. Len(s) \in Nat /\ DOMAIN s = 1 .. Len(s)
    OBVIOUS
<1>2. IsFiniteSet(1 .. Len(s)) /\ Cardinality(1 .. Len(s)) = Len(s)
    BY <1>1, FS_Interval, SMTT(30)
<1>3. [k \in 1 .. Len(s) |-> s[k]] \in Surjection(1 .. Len(s), Elements(s))
    BY <1>1 DEF Surjection, Elements
<1> QED
    BY <1>2, <1>3, FS_Surjection

\* What stage and voters are made of.
LEMMA SameStage ==
    ASSUME NEW before, NEW after, after.accepted = before.accepted,
           after.proposedBy = before.proposedBy, after.frames = before.frames
    PROVE  Stage(after) = Stage(before)
BY DEF Stage

LEMMA SameVoters ==
    ASSUME NEW before, NEW after, after.validations = before.validations
    PROVE  Voters(after) = Voters(before)
BY DEF Voters

\* How each step changes what is seen of its thread.
LEMMA SeenJoin ==
    ASSUME NEW before, NEW after, NEW w,
           Elements(after.workers) = Elements(before.workers) \cup {w},
           after.proposedBy = before.proposedBy, Stage(after) = Stage(before),
           Voters(after) = Voters(before), after.completed = before.completed
    PROVE  Seen(after) = [Seen(before) EXCEPT !.members = @ \cup {w}]
<1>1. Seen(before) = [members |-> Elements(before.workers), by |-> before.proposedBy,
                      stage |-> Stage(before), voters |-> Voters(before), done |-> before.completed]
    BY DEF Seen
<1>2. Seen(after) = [members |-> Elements(before.workers) \cup {w}, by |-> before.proposedBy,
                     stage |-> Stage(before), voters |-> Voters(before), done |-> before.completed]
    BY DEF Seen
<1> QED
    BY <1>1, <1>2

LEMMA SeenStage ==
    ASSUME NEW before, NEW after, NEW stage, after.workers = before.workers,
           after.proposedBy = before.proposedBy, Stage(after) = stage,
           after.validations = before.validations, after.completed = before.completed
    PROVE  Seen(after) = [Seen(before) EXCEPT !.stage = stage]
<1>1. Seen(before) = [members |-> Elements(before.workers), by |-> before.proposedBy,
                      stage |-> Stage(before), voters |-> Voters(before), done |-> before.completed]
    BY DEF Seen
<1>2. Seen(after) = [members |-> Elements(before.workers), by |-> before.proposedBy,
                     stage |-> stage, voters |-> Voters(before), done |-> before.completed]
    BY SameVoters DEF Seen
<1> QED
    BY <1>1, <1>2

LEMMA SeenProposal ==
    ASSUME NEW before, NEW after, NEW w, after.workers = before.workers,
           after.proposedBy = w, Stage(after) = "proposed",
           after.validations = before.validations, after.completed = before.completed
    PROVE  Seen(after) = Lifecycle!Proposed(Seen(before), w)
<1> DEFINE seen == Lifecycle!Proposed(Seen(before), w)
           fields == {"members", "by", "stage", "voters", "done"}
<1>1. Seen(before) = [members |-> Elements(before.workers), by |-> before.proposedBy,
                      stage |-> Stage(before), voters |-> Voters(before), done |-> before.completed]
    BY DEF Seen
<1>2. Seen(after) = [members |-> Elements(before.workers), by |-> w,
                     stage |-> "proposed", voters |-> Voters(before), done |-> before.completed]
    BY SameVoters DEF Seen
<1>3. /\ DOMAIN seen = fields
      /\ seen.members = Elements(before.workers) /\ seen.by = w /\ seen.stage = "proposed"
      /\ seen.voters = Voters(before) /\ seen.done = before.completed
    BY <1>1 DEF Lifecycle!Proposed
<1>4. seen = [field \in fields |-> seen[field]]
    BY <1>1 DEF Lifecycle!Proposed
<1> HIDE DEF seen
<1>5. seen = [members |-> Elements(before.workers), by |-> w,
              stage |-> "proposed", voters |-> Voters(before), done |-> before.completed]
    BY <1>3, <1>4
<1> QED
    BY <1>2, <1>5 DEF seen

LEMMA SeenVote ==
    ASSUME NEW before, NEW after, NEW w, after.workers = before.workers,
           after.proposedBy = before.proposedBy, Stage(after) = Stage(before),
           Voters(after) = Voters(before) \cup {w}, after.completed = before.completed
    PROVE  Seen(after) = [Seen(before) EXCEPT !.voters = @ \cup {w}]
<1>1. Seen(before) = [members |-> Elements(before.workers), by |-> before.proposedBy,
                      stage |-> Stage(before), voters |-> Voters(before), done |-> before.completed]
    BY DEF Seen
<1>2. Seen(after) = [members |-> Elements(before.workers), by |-> before.proposedBy,
                     stage |-> Stage(before), voters |-> Voters(before) \cup {w},
                     done |-> before.completed]
    BY DEF Seen
<1> QED
    BY <1>1, <1>2

LEMMA SeenDone ==
    ASSUME NEW before, NEW after, NEW done, after.workers = before.workers,
           after.proposedBy = before.proposedBy, Stage(after) = Stage(before),
           after.validations = before.validations, after.completed = done
    PROVE  Seen(after) = [Seen(before) EXCEPT !.done = done]
<1>1. Seen(before) = [members |-> Elements(before.workers), by |-> before.proposedBy,
                      stage |-> Stage(before), voters |-> Voters(before), done |-> before.completed]
    BY DEF Seen
<1>2. Seen(after) = [members |-> Elements(before.workers), by |-> before.proposedBy,
                     stage |-> Stage(before), voters |-> Voters(before), done |-> done]
    BY SameVoters DEF Seen
<1> QED
    BY <1>1, <1>2

\* Writing one thread changes what is seen of that thread.
LEMMA SeenWritten ==
    ASSUME IInv, NEW t, NEW i, ThreadExists(t, i), NEW after \in Thread,
           tasks' = PutThread(t, i, after)
    PROVE  /\ <<t, i>> \in StoredThreads
           /\ DOMAIN SeenThreads = StoredThreads
           /\ SeenThreads[<<t, i>>] = Seen(tasks[t].threads[i])
           /\ SeenThreads' = [SeenThreads EXCEPT ![<<t, i>>] = Seen(after)]
<1>1. tasks \in [DOMAIN tasks -> Task]
    BY DEF IInv, TypeOK
<1>2. <<t, i>> \in StoredThreads
    BY DEF ThreadExists, StoredThreads
<1>3. /\ DOMAIN tasks' = DOMAIN tasks
      /\ \A u \in DOMAIN tasks : DOMAIN tasks'[u].threads = DOMAIN tasks[u].threads
      /\ tasks'[t].threads[i] = after
      /\ \A u \in DOMAIN tasks : \A j \in DOMAIN tasks[u].threads :
             u # t \/ j # i => tasks'[u].threads[j] = tasks[u].threads[j]
    BY <1>1, PutThreadFacts
<1>4. StoredThreads' = StoredThreads
    BY <1>3 DEF StoredThreads
<1>5. ASSUME NEW id \in StoredThreads
      PROVE  Seen(tasks'[id[1]].threads[id[2]])
                 = IF id = <<t, i>> THEN Seen(after) ELSE Seen(tasks[id[1]].threads[id[2]])
    <2>0. PICK u \in DOMAIN tasks : \E j \in DOMAIN tasks[u].threads : id = <<u, j>>
        BY DEF StoredThreads
    <2>1. PICK j \in DOMAIN tasks[u].threads : id = <<u, j>>
        BY <2>0
    <2>2. CASE u = t /\ j = i
        BY <2>1, <2>2, <1>3
    <2>3. CASE u # t \/ j # i
        <3>1. id # <<t, i>>
            BY <2>1, <2>3
        <3>2. tasks'[u].threads[j] = tasks[u].threads[j]
            BY <1>3, <2>3
        <3> QED
            BY <2>1, <3>1, <3>2
    <2> QED
        BY <2>2, <2>3
<1>6. SeenThreads' = [id \in StoredThreads |-> Seen(tasks'[id[1]].threads[id[2]])]
    BY <1>4 DEF SeenThreads
<1>7. SeenThreads[<<t, i>>] = Seen(tasks[t].threads[i]) /\ DOMAIN SeenThreads = StoredThreads
    BY <1>2 DEF SeenThreads
<1>8. SeenThreads' = [id \in StoredThreads |->
          IF id = <<t, i>> THEN Seen(after) ELSE SeenThreads[id]]
    BY <1>5, <1>6 DEF SeenThreads
<1>9. SeenThreads' = [SeenThreads EXCEPT ![<<t, i>>] = Seen(after)]
    BY <1>7, <1>8
<1> QED
    BY <1>2, <1>7, <1>9

\* Subscribing is joining.
LEMMA SubscribeJoins ==
    ASSUME IInv, NEW w \in DOMAIN workers, NEW t, NEW i, ThreadExists(t, i),
           SubscribeWorkerToTask(w, t, i)
    PROVE  <<t, i>> \in StoredThreads /\ w \in Worker /\ Lifecycle!Join(<<t, i>>, w)
<1> DEFINE id == <<t, i>>
           before == tasks[t].threads[i]
           after == tasks'[t].threads[i]
<1>1. before \in Thread /\ w \in Worker /\ before.workers \in Seq(Worker)
    <2>1. before \in Thread /\ w \in Worker
        BY ThreadType, SMTT(30) DEF IInv, TypeOK
    <2> QED
        BY <2>1 DEF Thread
<1>2. /\ after \in Thread /\ tasks' = PutThread(t, i, after)
      /\ after.workers = Append(before.workers, w)
      /\ after.proposedBy = before.proposedBy /\ after.frames = before.frames
      /\ after.accepted = before.accepted /\ after.validations = before.validations
      /\ after.completed = before.completed
    <2>1. Subscribed(before, after, w) /\ tasks' = PutThread(t, i, after)
        BY SubscribeEffect
    <2> QED
        BY <2>1 DEF Subscribed, SameSolution
<1>3. /\ ~before.completed /\ w \notin Elements(before.workers)
      /\ Len(before.workers) < MaxWorkersPerThread
    BY SMTT(30) DEF SubscribeWorkerToTask, SubscribeWorkerToTaskOK
<1>4. Elements(after.workers) = Elements(before.workers) \cup {w}
    BY <1>1, <1>2, AppendElements
<1>5. Elements(before.workers) \cup {w} \in Crews
    <2>1. after.workers \in Seq(Worker) /\ Len(after.workers) = Len(before.workers) + 1
        BY <1>1, <1>2
    <2>2. IsFiniteSet(Elements(after.workers)) /\ Cardinality(Elements(after.workers)) <= Len(after.workers)
        BY <2>1, ElementsBound
    <2>3. Cardinality(Elements(after.workers)) <= MaxWorkersPerThread
        <3>1. Cardinality(Elements(after.workers)) \in Nat /\ Len(before.workers) \in Nat
            BY <1>1, <2>2, FS_CardinalityType, SMTT(30)
        <3> QED
            BY <1>3, <2>1, <2>2, <3>1, ParamsAssumption
    <2>4. Elements(after.workers) \subseteq Worker
        BY <2>1 DEF Elements
    <2> QED
        BY <1>4, <2>3, <2>4, SMTT(30) DEF Crews
<1>10. Seen(after) = [Seen(before) EXCEPT !.members = @ \cup {w}]
    <2>1. Stage(after) = Stage(before) /\ Voters(after) = Voters(before)
        BY <1>2, SameStage, SameVoters, SMTT(30)
    <2>2. after.proposedBy = before.proposedBy /\ after.completed = before.completed
        BY <1>2, Zenon
    <2> HIDE DEF before, after
    <2> QED
        BY <1>4, <2>1, <2>2, SeenJoin
<1>6. /\ id \in StoredThreads /\ DOMAIN SeenThreads = StoredThreads
      /\ SeenThreads[id] = Seen(before)
      /\ SeenThreads' = [SeenThreads EXCEPT ![id] = Seen(after)]
    BY <1>2, SeenWritten
<1>7. SeenThreads' = [SeenThreads EXCEPT ![id].members = @ \cup {w}]
    BY <1>10, <1>6
<1>8. /\ ~SeenThreads[id].done /\ w \notin SeenThreads[id].members
      /\ SeenThreads[id].members \cup {w} \in Crews
    BY <1>3, <1>5, <1>6 DEF Seen
<1>9. [v \in Worker |-> Place(v)]' = [[v \in Worker |-> Place(v)] EXCEPT ![w] = id]
    <2>1. t # EmptyId
        BY DEF ThreadExists, IInv, EmptyIdIsEmpty, EmptyTask
    <2>2. /\ DOMAIN workers' = DOMAIN workers
          /\ workers'[w].task = t /\ workers'[w].thread = i
          /\ \A v \in DOMAIN workers : v # w => workers'[v] = workers[v]
        BY DEF SubscribeWorkerToTask, IInv, TypeOK, WorkerRecord
    <2> QED
        BY <1>1, <2>1, <2>2 DEF Place
<1> QED
    BY <1>1, <1>6, <1>7, <1>8, <1>9 DEF Lifecycle!Join


\* A worker is at the thread he points to.
LEMMA PlaceOfPointer ==
    ASSUME IInv, NEW w \in DOMAIN workers, ThreadExists(workers[w].task, workers[w].thread)
    PROVE  /\ w \in Worker
           /\ workers[w].task # EmptyId
           /\ Place(w) = <<workers[w].task, workers[w].thread>>
<1>1. workers[w].task # EmptyId
    BY DEF ThreadExists, IInv, EmptyIdIsEmpty, EmptyTask
<1> QED
    BY <1>1 DEF Place, IInv, TypeOK

\* The first proposal of a thread.
LEMMA ProposeProposes ==
    ASSUME IInv, NEW w \in DOMAIN workers, NEW t, NEW i, NEW names \in Proposals(t, i),
           ThreadExists(t, i), ProposeSolution(w, t, i, names)
    PROVE  <<t, i>> \in StoredThreads /\ w \in Worker /\ Lifecycle!Propose(<<t, i>>, w)
<1> DEFINE id == <<t, i>>
           before == tasks[t].threads[i]
           frames == [f \in DOMAIN names |->
               [name |-> names[f], hash |-> NoHash, valid |-> 0, invalid |-> 0]]
           after == [before EXCEPT !.proposedBy = w, !.frames = frames]
<1>1. before \in Thread /\ ThreadInv(before) /\ w \in Worker
    BY ThreadType DEF IInv, TypeOK, ThreadsInv, ThreadExists
<1>2. /\ before.proposedBy = NoWorker /\ w \in Elements(before.workers)
      /\ tasks' = PutThread(t, i, after) /\ workers' = workers
    BY DEF ProposeSolution, ProposeSolutionOK
<1>3. ~before.accepted
    BY <1>1, <1>2 DEF ThreadInv
<1>4. frames \in Seq(Frame)
    BY ProposalIsSequence, FramesOfNames DEF IInv
<1>5. frames = <<>> \/ \E f \in DOMAIN frames : frames[f].hash = NoHash
    <2>1. \A f \in DOMAIN frames : frames[f].hash = NoHash
        OBVIOUS
    <2> HIDE DEF frames
    <2> QED
        BY <1>4, <2>1
<1> HIDE DEF frames
<1>6. /\ after \in Thread /\ after.frames = frames /\ ~after.accepted
      /\ after.workers = before.workers /\ after.proposedBy = w
      /\ after.validations = before.validations /\ after.completed = before.completed
    BY <1>1, <1>3, <1>4 DEF Thread
<1> HIDE DEF before, after
<1>7. Stage(before) = "open" /\ Stage(after) = "proposed"
    <2>1. w # NoWorker
        BY <1>1, AccountAssumption
    <2> QED
        BY <1>2, <1>3, <1>5, <1>6, <2>1 DEF Stage
<1>8. Seen(after) = Lifecycle!Proposed(Seen(before), w)
    BY <1>6, <1>7, SeenProposal
<1>9. /\ id \in StoredThreads /\ DOMAIN SeenThreads = StoredThreads
      /\ SeenThreads[id] = Seen(before)
      /\ SeenThreads' = [SeenThreads EXCEPT ![id] = Seen(after)]
    BY <1>2, <1>6, SeenWritten DEF before
<1>10. SeenThreads' = [SeenThreads EXCEPT ![id] = Lifecycle!Proposed(@, w)]
    BY <1>8, <1>9
<1>11. SeenThreads[id].stage = "open" /\ w \in SeenThreads[id].members
    BY <1>2, <1>7, <1>9 DEF Seen
<1>12. [v \in Worker |-> Place(v)]' = [v \in Worker |-> Place(v)]
    BY <1>2 DEF Place
<1> QED
    BY <1>1, <1>9, <1>10, <1>11, <1>12 DEF Lifecycle!Propose

\* A reveal is seen the first time; when it is repeated, or when there is no frame to
\* reveal, nothing is seen of it.
LEMMA RevealReveals ==
    ASSUME IInv, WholeInv, NEW w \in DOMAIN workers, NEW t, NEW i, NEW S,
           NEW revealed \in [S -> Hash], ThreadExists(t, i), RevealSolution(w, t, i, revealed)
    PROVE  /\ <<t, i>> \in StoredThreads
           /\ \/ Lifecycle!Reveal(<<t, i>>)
              \/ SeenThreads' = SeenThreads /\ [v \in Worker |-> Place(v)]' = [v \in Worker |-> Place(v)]
<1> DEFINE id == <<t, i>>
           before == tasks[t].threads[i]
           frames == Revealed(before, revealed)
           after == [before EXCEPT !.frames = frames]
<1>1. before \in Thread /\ Whole(before)
    BY ThreadType, SMTT(30) DEF IInv, WholeInv
<1>2. /\ before.proposedBy # NoWorker /\ before.proposedBy = w /\ ~before.accepted
      /\ workers[w].task = t /\ workers[w].thread = i
      /\ tasks' = PutThread(t, i, after) /\ workers' = workers
      /\ \A f \in DOMAIN before.frames : frames[f].hash # NoHash
    BY DEF RevealSolution, RevealSolutionOK
<1>3. frames \in Seq(Frame) /\ DOMAIN frames = DOMAIN before.frames
    BY <1>1, RevealedFrames, Zenon DEF Revealed
<1> HIDE DEF frames
<1>4. /\ after \in Thread /\ after.frames = frames
      /\ ~after.accepted /\ after.accepted = before.accepted
      /\ after.workers = before.workers /\ after.proposedBy = before.proposedBy
      /\ after.validations = before.validations /\ after.completed = before.completed
    BY <1>1, <1>2, <1>3 DEF Thread
<1>5. /\ id \in StoredThreads /\ DOMAIN SeenThreads = StoredThreads
      /\ SeenThreads[id] = Seen(before)
      /\ SeenThreads' = [SeenThreads EXCEPT ![id] = Seen(after)]
    BY <1>2, <1>4, SeenWritten
<1>6. w \in Worker /\ Place(w) = id /\ [v \in Worker |-> Place(v)]' = [v \in Worker |-> Place(v)]
    BY <1>2, PlaceOfPointer DEF Place
<1> HIDE DEF before, after
<1>7. CASE before.frames # <<>>
    <2>1. Stage(after) = "revealed"
        <3>1. frames # <<>>
            BY <1>1, <1>3, <1>7 DEF Thread
        <3> QED
            BY <1>2, <1>3, <1>4, <3>1 DEF Stage
    <2>2. Stage(before) \in {"proposed", "revealed"}
        BY <1>2, <1>7 DEF Stage
    <2>3. Seen(after) = [Seen(before) EXCEPT !.stage = "revealed"]
        BY <1>4, <2>1, SeenStage
    <2>4. CASE Stage(before) = "proposed"
        <3>1. SeenThreads' = [SeenThreads EXCEPT ![id].stage = "revealed"]
            BY <1>5, <2>3
        <3>2. SeenThreads[id].stage = "proposed" /\ SeenThreads[id].by = w
            BY <1>2, <1>5, <2>4 DEF Seen
        <3> QED
            BY <1>5, <1>6, <3>1, <3>2 DEF Lifecycle!Reveal
    <2>5. CASE Stage(before) = "revealed"
        <3>1. Seen(after) = Seen(before)
            BY <1>4, <2>1, <2>5, SameVoters DEF Seen
        <3> QED
            BY <1>5, <1>6, <3>1 DEF SeenThreads
    <2> QED
        BY <2>2, <2>4, <2>5
<1>8. CASE before.frames = <<>>
    <2>1. Stage(after) = Stage(before)
        <3>1. frames = <<>>
            BY <1>3, <1>8
        <3> QED
            BY <1>2, <1>4, <1>8, <3>1, SameStage
    <2>2. Seen(after) = Seen(before)
        BY <1>4, <2>1, SameVoters DEF Seen
    <2> QED
        BY <1>5, <1>6, <2>2 DEF SeenThreads
<1> QED
    BY <1>7, <1>8

\* A validation is a vote: whoever is at a thread he did not propose has not voted yet.
LEMMA ValidationVotes ==
    ASSUME IInv, VotesInv, NEW w \in DOMAIN workers, NEW t, NEW i, NEW signed \in SignedInput,
           ThreadExists(t, i), SubmitValidation(w, t, i, signed)
    PROVE  <<t, i>> \in StoredThreads /\ w \in Worker /\ Lifecycle!Vote(<<t, i>>, w)
<1> DEFINE id == <<t, i>>
           before == tasks[t].threads[i]
           after == tasks'[t].threads[i]
           at == [v \in Worker |-> Place(v)]
<1>1. before \in Thread
    BY ThreadType DEF IInv
<1>0. Validated(before, after, w) /\ tasks' = PutThread(t, i, after)
    BY SubmitValidationEffect
<1>2. /\ after \in Thread /\ tasks' = PutThread(t, i, after)
      /\ after.workers = before.workers
      /\ after.proposedBy = before.proposedBy /\ after.frames = before.frames
      /\ after.accepted = before.accepted /\ after.completed = before.completed
    BY <1>0 DEF Validated, SameSolution
<1>3. PICK v \in Validation : v.validator = w /\ after.validations = Append(before.validations, v)
    BY <1>0 DEF Validated
<1>4. /\ workers[w].task = t /\ workers[w].thread = i /\ before.proposedBy # NoWorker
      /\ workers' = IF w # before.proposedBy THEN [workers EXCEPT ![w] = Released(@)] ELSE workers
    BY DEF SubmitValidation, SubmitValidationOK
<1>5. w \in Worker /\ at[w] = id
    BY <1>4, PlaceOfPointer
<1>6. w \notin Voters(before) \/ w = before.proposedBy
    <2>1. NoVoteOf(w, before)
        BY <1>4, PlaceOfPointer DEF VotesInv, NotYetValidated
    <2> QED
        BY <2>1 DEF NoVoteOf, Voters, Elements
<1>7. Voters(after) = Voters(before) \cup {w}
    <2>1. Elements(after.validations) = Elements(before.validations) \cup {v}
        BY <1>1, <1>3, AppendElements DEF Thread
    <2> QED
        BY <1>3, <2>1, SMTT(30) DEF Voters
<1>8. Seen(after) = [Seen(before) EXCEPT !.voters = @ \cup {w}]
    <2>1. Stage(after) = Stage(before)
        BY <1>2, SameStage
    <2>2. /\ after.workers = before.workers /\ after.proposedBy = before.proposedBy
          /\ after.completed = before.completed
        BY <1>2
    <2> HIDE DEF before, after
    <2> QED
        BY <1>7, <2>1, <2>2, SeenVote, ZenonT(40)
<1>9. /\ id \in StoredThreads /\ DOMAIN SeenThreads = StoredThreads
      /\ SeenThreads[id] = Seen(before)
      /\ SeenThreads' = [SeenThreads EXCEPT ![id] = Seen(after)]
    BY <1>2, SeenWritten
<1>10. SeenThreads' = [SeenThreads EXCEPT ![id].voters = @ \cup {w}]
    BY <1>8, <1>9
<1>11. /\ SeenThreads[id].by = before.proposedBy
       /\ w \notin SeenThreads[id].voters \/ w = SeenThreads[id].by
    BY <1>6, <1>9 DEF Seen
<1>12. at' = IF w = before.proposedBy THEN at ELSE [at EXCEPT ![w] = <<EmptyId, 1>>]
    <2>1. CASE w = before.proposedBy
        BY <1>4, <2>1 DEF Place
    <2>2. CASE w # before.proposedBy
        <3>1. Released(workers[w]).task = EmptyId
            BY ReleasedType DEF IInv, TypeOK
        <3>2. /\ DOMAIN workers' = DOMAIN workers /\ workers'[w].task = EmptyId
              /\ \A u \in DOMAIN workers : u # w => workers'[u] = workers[u]
            BY <1>4, <2>2, <3>1
        <3> QED
            BY <1>5, <2>2, <3>2 DEF Place
    <2> QED
        BY <2>1, <2>2
<1> HIDE DEF before, after, id
<1> QED
    BY <1>4, <1>5, <1>9, <1>10, <1>11, <1>12 DEF Lifecycle!Vote, id

\* Submitting the solution finishes the thread and sends home whoever is at it.
LEMMA SubmitFinishes ==
    ASSUME IInv, NEW w \in DOMAIN workers, NEW t, NEW i, ThreadExists(t, i),
           SubmitSolution(w, t, i)
    PROVE  <<t, i>> \in StoredThreads /\ Lifecycle!Finish(<<t, i>>)
<1> DEFINE id == <<t, i>>
           before == tasks[t].threads[i]
           after == tasks'[t].threads[i]
           payment == WinnerReward(tasks[t])
           at == [v \in Worker |-> Place(v)]
           atThread(v) == v \in Elements(before.workers) /\ workers[v].task = t /\ workers[v].thread = i
<1>1. /\ after \in Thread /\ tasks' = PutThread(t, i, after) /\ after.completed
      /\ after.workers = before.workers
      /\ after.proposedBy = before.proposedBy /\ after.frames = before.frames
      /\ after.accepted = before.accepted /\ after.validations = before.validations
    <2>1. Submitted(before, after) /\ tasks' = PutThread(t, i, after)
        BY SubmitSolutionEffect
    <2> QED
        BY <2>1 DEF Submitted, SameSolution
<1>2. /\ before.proposedBy # NoWorker /\ before.proposedBy = w
      /\ workers' = [v \in DOMAIN workers |->
              IF v = w THEN DeclareWinner(workers[v], payment)
              ELSE IF atThread(v) THEN Released(workers[v])
              ELSE workers[v]]
    BY DEF SubmitSolution, SubmitSolutionOK
<1>3. Seen(after) = [Seen(before) EXCEPT !.done = TRUE]
    <2>1. Stage(after) = Stage(before) /\ after.completed = TRUE
        BY <1>1, SameStage DEF Thread
    <2>2. /\ after.workers = before.workers /\ after.proposedBy = before.proposedBy
          /\ after.validations = before.validations
        BY <1>1
    <2> HIDE DEF before, after
    <2> QED
        BY <2>1, <2>2, SeenDone
<1>4. /\ id \in StoredThreads /\ DOMAIN SeenThreads = StoredThreads
      /\ SeenThreads[id] = Seen(before)
      /\ SeenThreads' = [SeenThreads EXCEPT ![id] = Seen(after)]
    BY <1>1, SeenWritten
<1>5. SeenThreads' = [SeenThreads EXCEPT ![id].done = TRUE] /\ SeenThreads[id].by = w
    BY <1>2, <1>3, <1>4 DEF Seen
<1>6. ASSUME NEW v \in Worker
      PROVE  Place(v)' = IF v = w \/ Place(v) = id THEN <<EmptyId, 1>> ELSE Place(v)
    <2>1. DOMAIN workers' = DOMAIN workers
        BY <1>2
    <2>2. CASE v \notin DOMAIN workers
        <3>1. t # EmptyId
            BY DEF ThreadExists, IInv, EmptyIdIsEmpty, EmptyTask
        <3> QED
            BY <2>1, <2>2, <3>1 DEF Place
    <2>3. CASE v = w
        <3>1. workers'[w].task = EmptyId
            BY <1>2, Zenon DEF DeclareWinner, Released, IInv, TypeOK, WorkerRecord
        <3> QED
            BY <2>3, <3>1 DEF Place
    <2>4. CASE v \in DOMAIN workers /\ v # w
        <3>1. Place(v) = id => atThread(v)
            <4>1. t # EmptyId
                BY DEF ThreadExists, IInv, EmptyIdIsEmpty, EmptyTask
            <4>2. ASSUME Place(v) = id
                  PROVE  atThread(v)
                <5>1. workers[v].task # EmptyId /\ workers[v].task = t /\ workers[v].thread = i
                    BY <4>1, <4>2 DEF Place
                <5>2. PointerOK(v)
                    BY <2>4 DEF IInv
                <5> QED
                    BY <5>1, <5>2 DEF PointerOK
            <4> QED
                BY <4>2
        <3>2. atThread(v) => Place(v) = id
            BY <2>4, PlaceOfPointer
        <3>3. CASE atThread(v)
            <4>1. workers'[v].task = EmptyId
                BY <1>2, <2>4, <3>3, ReleasedType DEF IInv, TypeOK
            <4> QED
                BY <3>2, <3>3, <4>1 DEF Place
        <3>4. CASE ~atThread(v)
            <4>1. workers'[v] = workers[v]
                BY <1>2, <2>4, <3>4
            <4> QED
                BY <2>1, <2>4, <3>1, <3>4, <4>1 DEF Place
        <3> QED
            BY <3>3, <3>4
    <2> QED
        BY <2>2, <2>3, <2>4
<1>7. at' = [v \in Worker |-> IF v = w \/ at[v] = id THEN <<EmptyId, 1>> ELSE at[v]]
    BY <1>6
<1> HIDE DEF before, after, id
<1> QED
    BY <1>2, <1>4, <1>5, <1>7, ZenonT(40) DEF Lifecycle!Finish, id

\* What BeginBlock does to one thread is seen as nothing or as its acceptance.
LEMMA WalkAccepts ==
    ASSUME NEW task \in Task, NEW i \in DOMAIN task.threads,
           Whole(task.threads[i]), ThreadInv(task.threads[i])
    PROVE  LET before == Seen(task.threads[i])
               after == Seen(Walked(task).threads[i])
           IN  \/ after = before
               \/ /\ before.stage = "revealed" /\ before.voters # {} /\ ~before.done
                  /\ after = [before EXCEPT !.stage = "accepted"]
<1> DEFINE before == task.threads[i]
           after == Walked(task).threads[i]
           evaluated == EvaluateVerifications(before)
<1>1. before \in Thread
    BY DEF Task
<1>2. \/ after = before
      \/ ReadyToEvaluate(before) /\ after = [evaluated EXCEPT !.accepted = AcceptedNow(before)]
    BY WalkedFacts
<1>3. CASE ReadyToEvaluate(before) /\ after = [evaluated EXCEPT !.accepted = AcceptedNow(before)]
    <2>1. /\ evaluated \in Thread /\ DOMAIN evaluated.frames = DOMAIN before.frames
          /\ \A f \in DOMAIN before.frames : evaluated.frames[f].hash = before.frames[f].hash
          /\ evaluated = [before EXCEPT !.frames = evaluated.frames]
        BY <1>1, EvaluateFacts
    <2>2. /\ before.frames \in Seq(Frame) /\ before.frames # <<>> /\ before.frames[1].hash # NoHash
          /\ before.proposedBy # NoWorker /\ ~before.accepted /\ ~before.completed
          /\ EnoughValidations(before) /\ before.accepted \in BOOLEAN
        BY <1>1, <1>3 DEF Thread, ReadyToEvaluate
    <2>3. \A f \in DOMAIN before.frames : before.frames[f].hash # NoHash
        <3>1. 1 \in RevealedFrameSet(before)
            BY <2>2 DEF RevealedFrameSet
        <3> QED
            BY <3>1 DEF RevealedFrameSet, Whole
    <2>4. evaluated.workers = before.workers /\ evaluated.proposedBy = before.proposedBy
          /\ evaluated.validations = before.validations /\ evaluated.completed = before.completed
        BY <1>1, <2>1 DEF Thread
    <2> HIDE DEF evaluated
    <2>5. /\ after.frames = evaluated.frames /\ after.accepted = AcceptedNow(before)
          /\ after.workers = before.workers /\ after.proposedBy = before.proposedBy
          /\ after.validations = before.validations /\ after.completed = before.completed
        BY <1>3, <2>1, <2>4 DEF Thread
    <2>6. Stage(before) = "revealed"
        BY <2>2, <2>3 DEF Stage
    <2>7. Voters(before) # {}
        <3>1. before.validations # <<>>
            <4>1. before.proposedBy \in Elements(before.workers)
                BY <2>2 DEF ThreadInv
            <4>2. before.workers # <<>>
                BY <4>1 DEF Elements
            <4>3. before.workers \in Seq(Worker) /\ before.validations \in Seq(Validation)
                BY <1>1 DEF Thread
            <4> QED
                BY <2>2, <4>2, <4>3 DEF EnoughValidations
        <3>2. before.validations \in Seq(Validation)
            BY <1>1 DEF Thread
        <3>3. 1 \in DOMAIN before.validations
            BY <3>1, <3>2
        <3> QED
            BY <3>3 DEF Voters, Elements
    <2> HIDE DEF before, after
    <2>8. CASE AcceptedNow(before)
        <3>1. Stage(after) = "accepted"
            BY <2>5, <2>8 DEF Stage
        <3>2. Seen(after) = [Seen(before) EXCEPT !.stage = "accepted"]
            BY <2>5, <3>1, SeenStage
        <3>3. Seen(before).stage = "revealed" /\ Seen(before).voters # {} /\ ~Seen(before).done
            BY <2>2, <2>6, <2>7 DEF Seen
        <3> QED
            BY <3>2, <3>3 DEF before, after
    <2>9. CASE ~AcceptedNow(before)
        <3>1. Stage(after) = "revealed"
            <4>1. after.frames # <<>>
                <5>1. after.frames \in Seq(Frame) /\ DOMAIN after.frames = DOMAIN before.frames
                    BY <2>1, <2>5 DEF Thread
                <5> QED
                    BY <2>2, <5>1
            <4>2. \A f \in DOMAIN after.frames : after.frames[f].hash # NoHash
                BY <2>1, <2>3, <2>5
            <4> QED
                BY <2>2, <2>5, <2>9, <4>1, <4>2 DEF Stage
        <3>2. Seen(after) = Seen(before)
            BY <2>5, <2>6, <3>1, SameVoters DEF Seen
        <3> QED
            BY <3>2 DEF before, after
    <2> QED
        BY <2>8, <2>9
<1> QED
    BY <1>2, <1>3

\* The walk of BeginBlock over all tasks is an acceptance of some threads.
LEMMA BeginBlockAccepts ==
    ASSUME IInv, WholeInv, BeginBlock
    PROVE  Lifecycle!Accept
<1>1. /\ tasks' = [t \in DOMAIN tasks |-> Walked(tasks[t])] /\ workers' = workers
      /\ tasks \in [DOMAIN tasks -> Task]
    BY DEF BeginBlock, IInv, TypeOK
<1>2. StoredThreads' = StoredThreads
    <2>1. \A t \in DOMAIN tasks : DOMAIN Walked(tasks[t]).threads = DOMAIN tasks[t].threads
        BY <1>1, WalkedFacts
    <2> QED
        BY <1>1, <2>1 DEF StoredThreads
<1>3. DOMAIN SeenThreads = StoredThreads /\ DOMAIN SeenThreads' = StoredThreads
    BY <1>2 DEF SeenThreads
<1>4. ASSUME NEW id \in StoredThreads
      PROVE  \/ SeenThreads'[id] = SeenThreads[id]
             \/ /\ SeenThreads[id].stage = "revealed" /\ SeenThreads[id].voters # {}
                /\ ~SeenThreads[id].done
                /\ SeenThreads'[id] = [SeenThreads[id] EXCEPT !.stage = "accepted"]
    <2>0. PICK t \in DOMAIN tasks : \E j \in DOMAIN tasks[t].threads : id = <<t, j>>
        BY DEF StoredThreads
    <2>1. PICK i \in DOMAIN tasks[t].threads : id = <<t, i>>
        BY <2>0
    <2>2. Whole(tasks[t].threads[i]) /\ ThreadInv(tasks[t].threads[i]) /\ tasks[t] \in Task
        BY <1>1 DEF WholeInv, ThreadExists, IInv, ThreadsInv
    <2>3. SeenThreads[id] = Seen(tasks[t].threads[i])
        BY <2>1 DEF SeenThreads
    <2>4. SeenThreads'[id] = Seen(Walked(tasks[t]).threads[i])
        <3>1. SeenThreads'[id] = Seen(tasks'[t].threads[i])
            BY <1>2, <2>1 DEF SeenThreads
        <3> QED
            BY <1>1, <3>1
    <2> QED
        BY <2>2, <2>3, <2>4, WalkAccepts
<1>5. [v \in Worker |-> Place(v)]' = [v \in Worker |-> Place(v)]
    BY <1>1 DEF Place
<1> QED
    BY <1>3, <1>4, <1>5 DEF Lifecycle!Accept, Lifecycle!Acceptable

\* Completing a task is not seen: the task that EndBlock stores has no threads.
LEMMA EndBlockUnseen ==
    ASSUME IInv, EndBlock
    PROVE  SeenThreads' = SeenThreads /\ [v \in Worker |-> Place(v)]' = [v \in Worker |-> Place(v)]
<1> DEFINE ended(t) == [tasks[t] EXCEPT !.completed = @ \/ AllThreadsCompleted(tasks[t])]
<1>1. /\ tasks' = Put([t \in DOMAIN tasks |-> ended(t)], EmptyId, EmptyTask)
      /\ workers' = workers /\ tasks \in [DOMAIN tasks -> Task]
    BY DEF EndBlock, IInv, TypeOK
<1>2. \A t \in DOMAIN tasks : ended(t).threads = tasks[t].threads
    BY <1>1 DEF Task
<1> HIDE DEF ended
<1>3. /\ DOMAIN tasks' = DOMAIN tasks \cup {EmptyId}
      /\ \A t \in DOMAIN tasks : tasks'[t].threads = tasks[t].threads
      /\ DOMAIN tasks'[EmptyId].threads = {}
    BY <1>1, <1>2 DEF Put, EmptyTask, IInv, EmptyIdIsEmpty
<1>4. StoredThreads' = StoredThreads
    BY <1>3 DEF StoredThreads
<1>5. ASSUME NEW id \in StoredThreads
      PROVE  tasks'[id[1]].threads[id[2]] = tasks[id[1]].threads[id[2]]
    BY <1>3 DEF StoredThreads
<1>6. SeenThreads' = SeenThreads
    BY <1>4, <1>5 DEF SeenThreads
<1> QED
    BY <1>1, <1>6 DEF Place

\* A new task opens its threads.
LEMMA CreateOpens ==
    ASSUME IInv, NEW r \in Requester, NEW spec \in TaskSpec, CreateVideoRenderingTask(r, spec)
    PROVE  Lifecycle!Open
<1> DEFINE task == [completed |-> FALSE, reward |-> spec.reward, threads |-> GenerateThreads(spec)]
<1>1. tasks' = Put(tasks, nextId, task) /\ workers' = workers /\ nextId \notin DOMAIN tasks
    BY DEF CreateVideoRenderingTask, IInv, TypeOK
<1>2. \A i \in DOMAIN task.threads : Seen(task.threads[i]) = Lifecycle!OpenThread
    <2>1. ASSUME NEW i \in DOMAIN task.threads
          PROVE  Seen(task.threads[i]) = Lifecycle!OpenThread
        <3> DEFINE thread == task.threads[i]
        <3>1. /\ thread.workers = <<>> /\ thread.proposedBy = NoWorker /\ ~thread.accepted
              /\ thread.validations = <<>> /\ thread.completed = FALSE
            BY <2>1 DEF GenerateThreads, NewThread
        <3> HIDE DEF thread
        <3>2. Elements(thread.workers) = {} /\ Voters(thread) = {} /\ Stage(thread) = "open"
            BY <3>1 DEF Elements, Voters, Stage
        <3>3. Seen(thread) = Lifecycle!OpenThread
            BY <3>1, <3>2 DEF Seen, Lifecycle!OpenThread
        <3> QED
            BY <3>3 DEF thread
    <2> QED
        BY <2>1
<1> HIDE DEF task
<1>3. /\ DOMAIN tasks' = DOMAIN tasks \cup {nextId} /\ tasks'[nextId] = task
      /\ \A t \in DOMAIN tasks : tasks'[t] = tasks[t]
    BY <1>1 DEF Put
<1>4. StoredThreads \subseteq StoredThreads'
    BY <1>3 DEF StoredThreads
<1>5. ASSUME NEW id \in StoredThreads'
      PROVE  Seen(tasks'[id[1]].threads[id[2]])
                 = IF id \in StoredThreads THEN SeenThreads[id] ELSE Lifecycle!OpenThread
    <2>0. PICK t \in DOMAIN tasks' : \E j \in DOMAIN tasks'[t].threads : id = <<t, j>>
        BY DEF StoredThreads
    <2>1. PICK i \in DOMAIN tasks'[t].threads : id = <<t, i>>
        BY <2>0
    <2>2. CASE t \in DOMAIN tasks
        <3>1. id \in StoredThreads
            BY <1>3, <2>1, <2>2 DEF StoredThreads
        <3>2. SeenThreads[id] = Seen(tasks[t].threads[i])
            BY <2>1, <3>1 DEF SeenThreads
        <3> QED
            BY <1>3, <2>1, <2>2, <3>1, <3>2
    <2>3. CASE t \notin DOMAIN tasks
        <3>1. t = nextId /\ tasks'[t] = task
            BY <1>3, <2>3
        <3>2. id \notin StoredThreads
            BY <2>1, <2>3 DEF StoredThreads
        <3> QED
            BY <1>2, <2>1, <3>1, <3>2
    <2> QED
        BY <2>2, <2>3
<1>6. SeenThreads' = [id \in StoredThreads' |->
          IF id \in StoredThreads THEN SeenThreads[id] ELSE Lifecycle!OpenThread]
    BY <1>5 DEF SeenThreads
<1>7. DOMAIN SeenThreads = StoredThreads /\ DOMAIN SeenThreads' = StoredThreads'
    BY DEF SeenThreads
<1>8. [v \in Worker |-> Place(v)]' = [v \in Worker |-> Place(v)]
    BY <1>1 DEF Place
<1> QED
    BY <1>4, <1>6, <1>7, <1>8 DEF Lifecycle!Open

\* Every step is one that ThreadLifecycle allows, or nothing is seen of it.
LEMMA StepImplementsLifecycle ==
    ASSUME IInv, WholeInv, VotesInv, [Next]_vars
    PROVE  [Lifecycle!LifecycleNext]_(Lifecycle!lifecycleVars)
<1> DEFINE at == [v \in Worker |-> Place(v)]
           unseen == SeenThreads' = SeenThreads /\ at' = at
<1>1. unseen => UNCHANGED Lifecycle!lifecycleVars
    BY DEF Lifecycle!lifecycleVars
<1>2. DOMAIN SeenThreads = StoredThreads
    BY DEF SeenThreads
<1>3. CASE BeginBlock
    BY <1>3, BeginBlockAccepts DEF Lifecycle!LifecycleNext
<1>4. CASE EndBlock
    BY <1>1, <1>4, EndBlockUnseen
<1>5. ASSUME NEW r \in Requester, NEW spec \in TaskSpec, CreateVideoRenderingTask(r, spec)
      PROVE  Lifecycle!LifecycleNext
    BY <1>5, CreateOpens DEF Lifecycle!LifecycleNext
<1>6. ASSUME NEW w \in Worker, NEW stake \in Stake, AddWorker(w, stake)
      PROVE  unseen
    <2>1. tasks' = tasks
        BY <1>6 DEF AddWorker
    <2>2. SeenThreads' = SeenThreads
        BY <2>1 DEF SeenThreads, StoredThreads
    <2>3. ASSUME NEW v \in Worker
          PROVE  Place(v)' = Place(v)
        BY <1>6, <2>3 DEF AddWorker, AddWorkerOK, Put, Place
    <2> QED
        BY <2>2, <2>3
<1>7. ASSUME NEW w \in DOMAIN workers, NEW t \in DOMAIN tasks,
             NEW i \in DOMAIN tasks[t].threads, Handles(w, t, i)
      PROVE  Lifecycle!LifecycleNext \/ unseen
    <2>1. ThreadExists(t, i)
        BY DEF ThreadExists
    <2>2. CASE SubscribeWorkerToTask(w, t, i)
        BY <1>2, <2>1, <2>2, SubscribeJoins DEF Lifecycle!LifecycleNext
    <2>3. ASSUME NEW names \in Proposals(t, i), ProposeSolution(w, t, i, names)
          PROVE  Lifecycle!LifecycleNext
        BY <1>2, <2>1, <2>3, ProposeProposes DEF Lifecycle!LifecycleNext
    <2>4. ASSUME NEW S \in SUBSET Names(t, i), NEW revealed \in [S -> Hash],
                 RevealSolution(w, t, i, revealed)
          PROVE  Lifecycle!LifecycleNext \/ unseen
        BY <1>2, <2>1, <2>4, RevealReveals DEF Lifecycle!LifecycleNext
    <2>5. ASSUME NEW signed \in SignedInput, SubmitValidation(w, t, i, signed)
          PROVE  Lifecycle!LifecycleNext
        BY <1>2, <2>1, <2>5, ValidationVotes DEF Lifecycle!LifecycleNext
    <2>6. CASE SubmitSolution(w, t, i)
        BY <1>2, <2>1, <2>6, SubmitFinishes DEF Lifecycle!LifecycleNext
    <2> QED
        BY <1>7, <2>2, <2>3, <2>4, <2>5, <2>6 DEF Handles
<1>8. CASE UNCHANGED vars
    <2>1. unseen
        BY <1>8 DEF vars, SeenThreads, StoredThreads, Place
    <2> QED
        BY <1>1, <2>1
<1> HIDE DEF unseen
<1> QED
    BY <1>1, <1>3, <1>4, <1>5, <1>6, <1>7, <1>8 DEF Next, Request, Register, Transaction, Handles

\* The handlers and block boundaries implement ThreadLifecycle.
THEOREM ChainImplementsLifecycle == Spec => ImplementsLifecycle
<1>1. Init => Lifecycle!LifecycleInit
    <2>1. ASSUME Init
          PROVE  /\ StoredThreads = {}
                 /\ [v \in Worker |-> Place(v)] = [v \in Worker |-> <<EmptyId, 1>>]
        BY <2>1 DEF Init, StoredThreads, Place
    <2> QED
        BY <2>1 DEF SeenThreads, Lifecycle!LifecycleInit
<1>2. Init => IInv /\ WholeInv /\ VotesInv
    BY InitIInv DEF Init, WholeInv, VotesInv, ThreadExists
<1>3. IInv /\ WholeInv /\ VotesInv /\ [Next]_vars => WholeInv' /\ VotesInv'
    BY WholeInductive, VotesInductive
<1>4. IInv /\ WholeInv /\ VotesInv /\ [Next]_vars => [Lifecycle!LifecycleNext]_(Lifecycle!lifecycleVars)
    BY StepImplementsLifecycle
<1> QED
    BY Invariance, <1>1, <1>2, <1>3, <1>4, PTL
    DEF Spec, ImplementsLifecycle, Lifecycle!LifecycleSpec

=============================================================================
